---------------------------- MODULE PayoutsProofs ----------------------------
(***************************************************************************)
(* For every set of users, requests and administrators: a request's points *)
(* are resolved exactly once, the way its final status says, and Payouts   *)
(* implements the abstract PayoutLifecycle.                                *)
(***************************************************************************)
EXTENDS Payouts, RewardLedgerProofs

IInv ==
    /\ TypeOK
    /\ RowsPointBack
    /\ HandlersSound
    /\ LocksAndRequestsPair
    /\ LockFollowsStatus
    /\ PaidWasExecuted

-----------------------------------------------------------------------------
(* What a write does to the resolutions of the locks.                      *)

LEMMA ResolvingKept ==
    ASSUME LedgerTypeOK, NEW row \in Row, Write(row), NEW i \in Nat,
           row.type \notin Resolutions \/ row.source # i
    PROVE  /\ Resolving(i)' = Resolving(i)
           /\ \A type : ResolvedOnceAs(i, type) => ResolvedOnceAs(i, type)'
<1>1. Resolving(i)' = Resolving(i)
  <2>1. \A j \in RowIds' : j \in Resolving(i)' <=> j \in Resolving(i)
    BY WriteLedger DEF Resolving
  <2> QED
    BY <2>1, WriteLedger DEF Resolving
<1>2. ASSUME NEW type, ResolvedOnceAs(i, type) PROVE ResolvedOnceAs(i, type)'
  BY <1>1, <1>2, WriteLedger DEF ResolvedOnceAs
<1> QED
  BY <1>1, <1>2

LEMMA ResolvingGained ==
    ASSUME LedgerTypeOK, NEW row \in Row, Write(row), NEW i \in Nat,
           row.type \in Resolutions, row.source = i, Resolving(i) = {}
    PROVE  ResolvedOnceAs(i, row.type)'
<1>1. Resolving(i)' = {Len(ledger')}
  <2>1. \A j \in RowIds' : j \in Resolving(i)' <=> j = Len(ledger')
    BY WriteLedger DEF Resolving
  <2> QED
    BY <2>1, WriteLedger DEF Resolving
<1> QED
  BY <1>1, WriteLedger DEF ResolvedOnceAs

\* A row nothing can act on yet: the one that is being written.
LEMMA FreshUnresolved ==
    ASSUME LedgerTypeOK, RowsPointBack, NEW row \in Row, Write(row), row.source = NoRow,
           NEW i \in Nat, i = Len(ledger')
    PROVE  Resolving(i)' = {}
<1>1. \A j \in RowIds' : ledger'[j].source # i
  <2> SUFFICES ASSUME NEW j \in RowIds' PROVE ledger'[j].source # i
    OBVIOUS
  <2>1. CASE j \in RowIds
    <3>1. ledger'[j] = ledger[j] /\ ledger[j].source < j /\ ledger[j].source \in Nat
      BY <2>1, WriteLedger, RowIdIsPosition DEF RowsPointBack, Row
    <3>2. j < i /\ j \in Nat
      BY <2>1, WriteLedger DEF RowIds
    <3> QED
      BY <3>1, <3>2
  <2>2. CASE j = Len(ledger')
    BY <2>2, WriteLedger, RowIdIsPosition DEF NoRow
  <2> QED
    BY <2>1, <2>2, WriteLedger
<1> QED
  BY <1>1 DEF Resolving

\* A write by which rows still act on earlier rows only.
LEMMA PointBackKept ==
    ASSUME LedgerTypeOK, RowsPointBack, NEW row \in Row, Write(row),
           row.source \in RowIds \/ row.source = NoRow
    PROVE  RowsPointBack'
<1>1. row.source < Len(ledger')
  BY WriteLedger DEF RowIds, NoRow
<1> QED
  BY <1>1, WriteLedger DEF RowsPointBack

LEMMA StandsKept ==
    ASSUME LedgerTypeOK, NEW row \in Row, Write(row), NEW i \in Nat, NEW s,
           row.type \notin Resolutions \/ row.source # i, LockStands(i, s)
    PROVE  LockStands(i, s)'
  BY ResolvingKept DEF LockStands

\* Requests whose rows stay as they are keep their standing under a write that
\* does not act on their locks.
LEMMA StandingKept ==
    ASSUME IInv, NEW row \in Row, Write(row), NEW p \in PayoutIds, Exists(p),
           row.type \notin Resolutions \/ row.source # payouts[p].lock,
           payouts'[p] = payouts[p]
    PROVE  LockStands(payouts[p].lock, payouts[p].status)'
<1>1. PICK i \in Nat : i = payouts[p].lock
  BY DEF IInv, TypeOK, Payout, Exists
<1>2. PICK s \in Statuses : s = payouts[p].status
  BY DEF IInv, TypeOK, Payout, Exists
<1>3. LockStands(i, s)
  BY <1>1, <1>2 DEF IInv, LockFollowsStatus
<1>4. LockStands(i, s)'
  BY <1>1, <1>3, StandsKept DEF IInv, TypeOK
<1> QED
  BY <1>1, <1>2, <1>4 DEF LockStands, Resolving, ResolvedOnceAs

\* Everything about a request that lies in the ledger survives a write that
\* resolves no lock and locks no points.
LEMMA RequestsKept ==
    ASSUME IInv, NEW row \in Row, Write(row),
           row.type \notin Resolutions \cup {"PAYOUT_LOCK"},
           row.source \in RowIds \/ row.source = NoRow, UNCHANGED payoutVars
    PROVE  IInv'
<1>1. LedgerTypeOK /\ LedgerTypeOK' /\ RowsPointBack'
  BY WriteType, PointBackKept DEF IInv, TypeOK
<1>2. TypeOK'
  BY <1>1 DEF IInv, TypeOK, payoutVars
<1>3. HandlersSound'
  BY DEF IInv, HandlersSound, payoutVars, Exists
<1>4. LocksAndRequestsPair'
  BY <1>1, WriteLedger DEF IInv, LocksAndRequestsPair, payoutVars, Exists
<1>5. LockFollowsStatus'
  BY StandingKept DEF IInv, LockFollowsStatus, payoutVars, Exists
<1>6. PaidWasExecuted'
  BY DEF IInv, PaidWasExecuted, payoutVars
<1> QED
  BY <1>1, <1>2, <1>3, <1>4, <1>5, <1>6 DEF IInv

-----------------------------------------------------------------------------
LEMMA InitInv == Init => IInv
<1> SUFFICES ASSUME Init PROVE IInv
  OBVIOUS
<1>1. LedgerTypeOK /\ RowIds = {}
  BY LedgerInitType DEF Init
<1>2. TypeOK
  BY <1>1 DEF Init, TypeOK
<1>3. \A p \in PayoutIds : ~Exists(p) /\ payouts[p].status = "NONE"
  BY DEF Init, Exists, NoPayout
<1> QED
  BY <1>1, <1>2, <1>3 DEF Init, IInv, RowsPointBack, HandlersSound, LocksAndRequestsPair,
                          LockFollowsStatus, PaidWasExecuted

\* What lies in the ledger and the requests holds as long as they stand still.
LEMMA TablesUnchanged ==
    ASSUME IInv, UNCHANGED <<ledger, payouts>>
    PROVE  RowsPointBack' /\ LocksAndRequestsPair' /\ LockFollowsStatus'
<1>1. RowsPointBack'
  BY DEF IInv, RowsPointBack, RowIds
<1>2. LocksAndRequestsPair'
  BY DEF IInv, LocksAndRequestsPair, Exists, RowIds
<1>3. LockFollowsStatus'
  BY DEF IInv, LockFollowsStatus, LockStands, ResolvedOnceAs, Resolving, Exists, RowIds
<1> QED
  BY <1>1, <1>2, <1>3

\* Credits, maturations and chargebacks leave the requests alone.
LEMMA EarnInv == IInv /\ Earn => IInv'
<1> SUFFICES ASSUME IInv, Earn PROVE IInv'
  OBVIOUS
<1>0. LedgerTypeOK /\ UNCHANGED payoutVars
  BY DEF IInv, TypeOK, Earn
<1>1. ASSUME NEW u \in Users, OpenAccount(u) PROVE IInv'
  <2>1. UNCHANGED <<balance, ledger>> /\ LedgerTypeOK'
    BY <1>0, <1>1 DEF OpenAccount, LedgerTypeOK
  <2> QED
    BY <1>0, <2>1, TablesUnchanged
       DEF IInv, TypeOK, HandlersSound, PaidWasExecuted, payoutVars, Exists
<1>2. ASSUME NEW u \in Users, NEW a \in Amounts, Credit(u, a, "timed") PROVE IInv'
  <2>1. CreditRow(u, a, "timed") \in Row
    BY NewRowTypes
  <2> QED
    BY <1>0, <1>2, <2>1, RequestsKept DEF Credit, CreditRow, Resolutions
<1>3. ASSUME NEW i \in RowIds, Write(MaturationRow(i)) PROVE IInv'
  BY <1>0, <1>3, MaturationRowType, RequestsKept DEF MaturationRow, Resolutions
<1>4. ASSUME NEW i \in RowIds, Write(ReversalRow(i)) PROVE IInv'
  BY <1>0, <1>4, ReversalRowType, RequestsKept DEF ReversalRow, Resolutions
<1> QED
  BY <1>1, <1>2, <1>3, <1>4 DEF Earn

\* Steps of a handler that write nothing to the tables.
LEMMA HandlerStep ==
    ASSUME IInv, UNCHANGED <<ledgerVars, payouts, audit>>,
           rowLock' \in [PayoutIds -> Admins \cup {NoAdmin}],
           review' \in [Admins -> {Free} \cup Handler],
           executed' \in [PayoutIds -> Nat],
           \A p \in PayoutIds : executed'[p] >= executed[p],
           HandlersSound'
    PROVE  IInv'
<1>1. TypeOK' /\ RowsPointBack' /\ LocksAndRequestsPair' /\ LockFollowsStatus'
  BY TablesUnchanged DEF IInv, TypeOK, LedgerTypeOK, ledgerVars
<1>2. PaidWasExecuted'
  BY DEF IInv, TypeOK, PaidWasExecuted
<1> QED
  BY <1>1, <1>2 DEF IInv

LEMMA CheckExecuteInv ==
    ASSUME IInv, NEW a \in Admins, NEW p \in PayoutIds, CheckExecute(a, p)
    PROVE  IInv'
<1>1. payouts[p].status \in Statuses
  BY DEF CheckExecute, IInv, TypeOK, Exists, Payout
<1>2. review' \in [Admins -> {Free} \cup Handler]
  BY <1>1 DEF CheckExecute, IInv, TypeOK, Handler, Steps, Statuses
<1>3. HandlersSound'
  BY DEF CheckExecute, IInv, TypeOK, HandlersSound, Exists
<1> QED
  BY <1>2, <1>3, HandlerStep DEF CheckExecute, IInv, TypeOK

LEMMA ExecuteInv ==
    ASSUME IInv, NEW a \in Admins, Execute(a)
    PROVE  IInv'
<1>1. review[a] \in Handler /\ review[a].payout \in PayoutIds
  BY DEF Execute, IInv, TypeOK, Free, Handler
<1>2. review' \in [Admins -> {Free} \cup Handler]
  BY <1>1 DEF Execute, IInv, TypeOK, Handler, Steps
<1>3. /\ executed' \in [PayoutIds -> Nat]
      /\ \A p \in PayoutIds : executed'[p] >= executed[p]
      /\ executed'[review[a].payout] > 0
  BY <1>1 DEF Execute, IInv, TypeOK
<1>4. HandlersSound'
  <2> SUFFICES ASSUME NEW b \in Admins, review'[b] # Free
               PROVE  LET p  == review'[b].payout
                          pc == review'[b].pc
                      IN  /\ Exists(p)
                          /\ pc \in {"locked", "resolving"} =>
                                rowLock[p] = b /\ CanTransition(payouts[p].status, review'[b].to)
                          /\ pc = "resolving" =>
                                LockEffect(payouts[p].status, review'[b].to) # "none"
                          /\ pc \notin {"executing", "executed"} /\ review'[b].to = "PAID"
                                => executed'[p] > 0
                          /\ pc = "executed" => executed'[p] > 0
    BY DEF Execute, HandlersSound, Exists
  <2>1. CASE b = a
    <3>1. review'[a].pc = "executed" /\ review'[a].payout = review[a].payout
      BY <1>1 DEF Execute, IInv, TypeOK, Handler
    <3>2. Exists(review[a].payout)
      BY DEF Execute, IInv, HandlersSound, Free
    <3> QED
      BY <1>3, <2>1, <3>1, <3>2
  <2>2. CASE b # a
    <3>1. review'[b] = review[b] /\ review[b].payout \in PayoutIds
      BY <2>2 DEF Execute, IInv, TypeOK, Handler
    <3>2. executed[review[b].payout] > 0 => executed'[review[b].payout] > 0
      BY <1>3, <3>1 DEF IInv, TypeOK
    <3> QED
      BY <3>1, <3>2 DEF IInv, HandlersSound
  <2> QED
    BY <2>1, <2>2
<1> QED
  BY <1>2, <1>3, <1>4, HandlerStep DEF Execute, IInv, TypeOK

LEMMA OpenReviewInv ==
    ASSUME IInv, NEW a \in Admins, NEW p \in PayoutIds, NEW to \in Statuses, OpenReview(a, p, to)
    PROVE  IInv'
<1>1. payouts[p].status \in Statuses
  BY DEF OpenReview, IInv, TypeOK, Exists, Payout
<1>2. review' \in [Admins -> {Free} \cup Handler]
  BY <1>1 DEF OpenReview, IInv, TypeOK, Handler, Steps
<1>3. to = "PAID" => executed[p] > 0
  BY DEF OpenReview, IInv, TypeOK, HandlersSound, Free
<1>4. HandlersSound'
  BY <1>3 DEF OpenReview, IInv, TypeOK, HandlersSound, Exists
<1> QED
  BY <1>2, <1>4, HandlerStep DEF OpenReview, IInv, TypeOK

LEMMA LockRequestInv ==
    ASSUME IInv, NEW a \in Admins, LockRequest(a)
    PROVE  IInv'
<1>1. review[a] \in Handler /\ review[a].payout \in PayoutIds
  BY DEF LockRequest, IInv, TypeOK, Free, Handler
<1>2. review' \in [Admins -> {Free} \cup Handler] /\ rowLock' \in [PayoutIds -> Admins \cup {NoAdmin}]
  BY <1>1 DEF LockRequest, IInv, TypeOK, Handler, Steps
<1>3. HandlersSound'
  BY <1>1, PayoutAssumption DEF LockRequest, IInv, TypeOK, HandlersSound, Exists, Free, Handler
<1> QED
  BY <1>2, <1>3, HandlerStep DEF LockRequest, IInv, TypeOK

LEMMA RefuseInv ==
    ASSUME IInv, NEW a \in Admins, Refuse(a)
    PROVE  IInv'
<1>1. HandlersSound' /\ review' \in [Admins -> {Free} \cup Handler]
  BY DEF Refuse, IInv, TypeOK, HandlersSound, Exists
<1> QED
  BY <1>1, HandlerStep DEF Refuse, IInv, TypeOK

LEMMA CheckLockInv ==
    ASSUME IInv, NEW a \in Admins, CheckLock(a)
    PROVE  IInv'
<1>1. review[a] \in Handler /\ review[a].payout \in PayoutIds
  BY DEF CheckLock, IInv, TypeOK, Free, Handler
<1>2. review' \in [Admins -> {Free} \cup Handler]
  BY <1>1 DEF CheckLock, IInv, TypeOK, Handler, Steps
<1>3. HandlersSound'
  BY <1>1 DEF CheckLock, IInv, TypeOK, HandlersSound, Exists, Free, Handler
<1> QED
  BY <1>2, <1>3, HandlerStep DEF CheckLock, IInv, TypeOK

LEMMA RollbackInv ==
    ASSUME IInv, NEW a \in Admins, Rollback(a)
    PROVE  IInv'
<1>1. /\ review' \in [Admins -> {Free} \cup Handler]
      /\ rowLock' \in [PayoutIds -> Admins \cup {NoAdmin}]
  BY DEF Rollback, IInv, TypeOK
<1>2. HandlersSound'
  <2>1. \A b \in Admins : review'[b] # Free =>
           b # a /\ review'[b] = review[b] /\ review[b].payout \in PayoutIds
    BY DEF Rollback, IInv, TypeOK, Handler
  <2> QED
    BY <2>1 DEF Rollback, IInv, HandlersSound, Exists
<1> QED
  BY <1>1, <1>2, HandlerStep DEF Rollback, IInv, TypeOK

-----------------------------------------------------------------------------
(* The two steps that write both tables.                                   *)

LEMMA SubmitInv ==
    ASSUME IInv, NEW p \in PayoutIds, NEW u \in Users, NEW a \in Amounts, Submit(p, u, a)
    PROVE  IInv'
<1> DEFINE row == LockRow(u, a)
<1>1. /\ row \in Row /\ Write(row) /\ row.source = NoRow /\ row.type = "PAYOUT_LOCK"
      /\ row.user = u /\ row.locked = a
  BY NewRowTypes DEF Submit, Lock, LockRow
<1>2. LedgerTypeOK /\ LedgerTypeOK' /\ RowsPointBack /\ RowsPointBack'
  BY <1>1, WriteType, PointBackKept DEF IInv, TypeOK
<1> HIDE DEF row
<1>3. PICK i \in Nat : i = Len(ledger')
  BY <1>1, <1>2, WriteLedger
<1>4. /\ ~Exists(p)
      /\ payouts' = [payouts EXCEPT ![p] =
            [status |-> "PENDING_REVIEW", user |-> u, amount |-> a, cash |-> ToCashMinor(a), lock |-> i]]
      /\ UNCHANGED <<rowLock, review, executed, audit>>
  BY <1>3 DEF Submit
<1>5. a \in Nat /\ ToCashMinor(a) \in Int
  BY AmountsAssumption, PayoutAssumption DEF ToCashMinor
<1>6. /\ payouts \in [PayoutIds -> {NoPayout} \cup Payout]
      /\ payouts'[p].lock = i /\ payouts'[p].user = u /\ payouts'[p].amount = a
      /\ payouts'[p].status = "PENDING_REVIEW" /\ Exists(p)'
      /\ \A q \in PayoutIds : q # p => payouts'[q] = payouts[q]
  BY <1>4 DEF IInv, TypeOK, Exists, NoPayout
<1>7. TypeOK'
  BY <1>2, <1>4, <1>5 DEF IInv, TypeOK, Payout, Statuses
<1>8. HandlersSound'
  <2>1. \A b \in Admins : review[b] # Free => review[b].payout \in PayoutIds /\ review[b].payout # p
    BY <1>4 DEF IInv, TypeOK, HandlersSound, Handler
  <2> QED
    BY <1>4, <1>6, <2>1 DEF IInv, HandlersSound, Exists
<1>9. LocksAndRequestsPair'
  <2>1. \A q \in PayoutIds : Exists(q) => payouts[q].lock \in RowIds
    BY DEF IInv, LocksAndRequestsPair
  <2>2. ASSUME NEW q \in PayoutIds, Exists(q)'
        PROVE  /\ payouts'[q].lock \in RowIds'
               /\ ledger'[payouts'[q].lock].type = "PAYOUT_LOCK"
               /\ ledger'[payouts'[q].lock].user = payouts'[q].user
               /\ ledger'[payouts'[q].lock].locked = payouts'[q].amount
    <3>1. CASE q = p
      BY <1>1, <1>2, <1>3, <1>6, <3>1, WriteLedger
    <3>2. CASE q # p
      BY <1>1, <1>2, <1>6, <2>2, <3>2, WriteLedger DEF IInv, LocksAndRequestsPair, Exists
    <3> QED
      BY <3>1, <3>2
  <2>3. ASSUME NEW k \in RowIds', ledger'[k].type = "PAYOUT_LOCK"
        PROVE  \E q \in PayoutIds :
                  /\ Exists(q)' /\ payouts'[q].lock = k
                  /\ \A r \in PayoutIds : Exists(r)' /\ payouts'[r].lock = k => r = q
    <3>1. CASE k \in RowIds
      <4>1. ledger[k].type = "PAYOUT_LOCK" /\ k # i
        BY <1>1, <1>2, <1>3, <2>3, <3>1, WriteLedger
      <4>2. PICK q \in PayoutIds :
               /\ Exists(q) /\ payouts[q].lock = k
               /\ \A r \in PayoutIds : Exists(r) /\ payouts[r].lock = k => r = q
        BY <3>1, <4>1 DEF IInv, LocksAndRequestsPair
      <4> QED
        BY <1>4, <1>6, <4>1, <4>2 DEF Exists
    <3>2. CASE k = i
      BY <1>1, <1>2, <1>3, <1>6, <2>1, <3>2, WriteLedger DEF Exists
    <3> QED
      BY <1>1, <1>2, <1>3, <3>1, <3>2, WriteLedger
  <2> QED
    BY <2>2, <2>3 DEF LocksAndRequestsPair
<1>10. LockFollowsStatus'
  <2>1. ASSUME NEW q \in PayoutIds, Exists(q)', q # p
        PROVE  LockStands(payouts[q].lock, payouts[q].status)'
    BY <1>1, <1>6, <2>1, StandingKept DEF Exists, Resolutions
  <2>2. LockStands(payouts[p].lock, payouts[p].status)'
    <3>1. Resolving(i)' = {}
      BY <1>1, <1>2, <1>3, FreshUnresolved
    <3> QED
      BY <1>6, <3>1 DEF LockStands, Resolving
  <2> QED
    BY <2>1, <2>2 DEF LockFollowsStatus
<1>11. PaidWasExecuted'
  BY <1>4, <1>6 DEF IInv, PaidWasExecuted
<1> QED
  BY <1>2, <1>7, <1>8, <1>9, <1>10, <1>11 DEF IInv

LEMMA StatusMoved ==
    ASSUME NEW r \in Payout, NEW to \in Statuses, NEW new, new = [r EXCEPT !.status = to]
    PROVE  /\ new \in Payout /\ new # NoPayout
           /\ new.status = to /\ new.lock = r.lock /\ new.user = r.user /\ new.amount = r.amount
<1>1. r = [status |-> r.status, user |-> r.user, amount |-> r.amount, cash |-> r.cash, lock |-> r.lock]
  BY DEF Payout
<1>2. new = [status |-> to, user |-> r.user, amount |-> r.amount, cash |-> r.cash, lock |-> r.lock]
  BY <1>1
<1>3. r.user \in Users /\ r.amount \in Nat /\ r.cash \in Int /\ r.lock \in Nat
  BY DEF Payout
<1>4. new \in Payout
  BY <1>2, <1>3 DEF Payout
<1>5. new # NoPayout
  BY <1>2 DEF NoPayout
<1> QED
  BY <1>2, <1>4, <1>5

\* The request a commit moves, and what the handler made sure of.
LEMMA CommitMoves ==
    ASSUME IInv, NEW a \in Admins, Commit(a), NEW p \in PayoutIds, p = review[a].payout
    PROVE  /\ Exists(p) /\ Exists(p)'
           /\ payouts[p].lock \in RowIds /\ ledger[payouts[p].lock].type = "PAYOUT_LOCK"
           /\ review[a].to \in Statuses /\ review[a].before \in Statuses
           /\ CanTransition(payouts[p].status, review[a].to)
           /\ LockStands(payouts[p].lock, payouts[p].status)
           /\ payouts'[p].status = review[a].to
           /\ payouts'[p].lock = payouts[p].lock
           /\ payouts'[p].user = payouts[p].user
           /\ payouts'[p].amount = payouts[p].amount
           /\ payouts' \in [PayoutIds -> {NoPayout} \cup Payout]
           /\ \A q \in PayoutIds \ {p} : payouts'[q] = payouts[q]
           /\ \A q \in PayoutIds \ {p} : Exists(q) => payouts[q].lock # payouts[p].lock
<1>1. /\ review[a] # Free /\ review[a] \in Handler /\ Exists(p)
      /\ payouts[p] \in Payout /\ CanTransition(payouts[p].status, review[a].to)
      /\ review[a].to \in Statuses /\ review[a].before \in Statuses
  BY DEF Commit, IInv, TypeOK, HandlersSound, Free, Handler, Exists
<1>2. /\ payouts \in [PayoutIds -> {NoPayout} \cup Payout]
      /\ payouts' = [payouts EXCEPT ![p] = [payouts[p] EXCEPT !.status = review[a].to]]
  BY DEF Commit, IInv, TypeOK
<1>3. PICK new : new = [payouts[p] EXCEPT !.status = review[a].to]
  OBVIOUS
<1>4. /\ new \in Payout /\ new # NoPayout /\ new.status = review[a].to
      /\ new.lock = payouts[p].lock /\ new.user = payouts[p].user /\ new.amount = payouts[p].amount
  BY <1>1, <1>3, StatusMoved
<1>5. payouts' = [payouts EXCEPT ![p] = new]
  BY <1>2, <1>3
<1>6. /\ payouts'[p] = new /\ \A q \in PayoutIds \ {p} : payouts'[q] = payouts[q]
      /\ payouts' \in [PayoutIds -> {NoPayout} \cup Payout]
  BY <1>2, <1>4, <1>5
<1>7. /\ payouts[p].lock \in RowIds /\ ledger[payouts[p].lock].type = "PAYOUT_LOCK"
      /\ LockStands(payouts[p].lock, payouts[p].status)
  BY <1>1 DEF IInv, LocksAndRequestsPair, LockFollowsStatus
<1>8. \A q \in PayoutIds \ {p} : Exists(q) => payouts[q].lock # payouts[p].lock
  BY <1>1, <1>7 DEF IInv, LocksAndRequestsPair
<1> QED
  BY <1>1, <1>4, <1>6, <1>7, <1>8 DEF Exists

\* The ledger under a commit: it stands still when the request is approved, and
\* otherwise gains the row that resolves the request's lock.
LEMMA CommitResolves ==
    ASSUME IInv, NEW a \in Admins, Commit(a), NEW p \in PayoutIds, p = review[a].payout,
           NEW i \in Nat, i = payouts[p].lock, review[a].pc = "resolving"
    PROVE  /\ LedgerTypeOK' /\ RowsPointBack'
           /\ \A k \in RowIds : k \in RowIds' /\ ledger'[k] = ledger[k]
           /\ \A k \in RowIds' : ledger'[k].type = "PAYOUT_LOCK" => k \in RowIds
           /\ LockStands(i, payouts[p].status)'
           /\ \A q \in PayoutIds \ {p} : Exists(q) => LockStands(payouts[q].lock, payouts[q].status)'
<1>1. PICK effect : effect = LockEffect(payouts[p].status, review[a].to)
  OBVIOUS
<1>2. PICK row : row = ResolutionRow(i, effect)
  OBVIOUS
<1>3. Write(row)
  BY <1>1, <1>2 DEF Commit
<1>4. /\ i \in RowIds /\ LockStands(i, payouts[p].status)
      /\ CanTransition(payouts[p].status, review[a].to) /\ Exists(p)
      /\ payouts'[p].status = review[a].to /\ payouts'[p].lock = i
      /\ LedgerTypeOK /\ RowsPointBack
  BY CommitMoves DEF IInv, TypeOK
<1>5. effect # "none"
  BY <1>1 DEF IInv, HandlersSound, Free
<1>6. /\ effect \in Resolutions
      /\ \/ review[a].to = "PAID" /\ effect = "PAYOUT_SETTLE"
         \/ review[a].to \in {"REJECTED", "FAILED"} /\ effect = "PAYOUT_REFUND"
      /\ payouts[p].status \in {"PENDING_REVIEW", "APPROVED"}
  BY <1>1, <1>4, <1>5 DEF LockEffect, CanTransition, Transitions, Resolutions
<1>7. row \in Row /\ row.source = i /\ row.type = effect
  BY <1>2, <1>4, <1>6, ResolutionRowType DEF ResolutionRow
<1>8. LedgerTypeOK' /\ RowsPointBack'
  BY <1>3, <1>4, <1>7, WriteType, PointBackKept
<1>9. /\ \A k \in RowIds : k \in RowIds' /\ ledger'[k] = ledger[k]
      /\ \A k \in RowIds' : ledger'[k].type = "PAYOUT_LOCK" => k \in RowIds
  BY <1>3, <1>4, <1>6, <1>7, WriteLedger DEF Resolutions
<1>10. LockStands(i, payouts[p].status)'
  <2>1. Resolving(i) = {}
    BY <1>4, <1>6 DEF LockStands
  <2>2. ResolvedOnceAs(i, effect)'
    BY <1>3, <1>4, <1>6, <1>7, <2>1, ResolvingGained
  <2>3. CASE review[a].to = "PAID" /\ effect = "PAYOUT_SETTLE"
    BY <1>4, <2>2, <2>3 DEF LockStands, ResolvedOnceAs
  <2>4. CASE review[a].to \in {"REJECTED", "FAILED"} /\ effect = "PAYOUT_REFUND"
    BY <1>4, <2>2, <2>4 DEF LockStands, ResolvedOnceAs
  <2> QED
    BY <1>6, <2>3, <2>4
<1>11. ASSUME NEW q \in PayoutIds \ {p}, Exists(q)
       PROVE  LockStands(payouts[q].lock, payouts[q].status)'
  BY <1>3, <1>7, <1>11, CommitMoves, StandingKept
<1> QED
  BY <1>8, <1>9, <1>10, <1>11

LEMMA CommitApproves ==
    ASSUME IInv, NEW a \in Admins, Commit(a), NEW p \in PayoutIds, p = review[a].payout,
           NEW i \in Nat, i = payouts[p].lock, review[a].pc # "resolving"
    PROVE  /\ LedgerTypeOK' /\ RowsPointBack' /\ UNCHANGED ledgerVars
           /\ LockStands(i, payouts[p].status)'
           /\ \A q \in PayoutIds \ {p} : Exists(q) => LockStands(payouts[q].lock, payouts[q].status)'
<1>1. UNCHANGED ledgerVars /\ LockEffect(payouts[p].status, review[a].to) = "none"
  BY DEF Commit
<1>2. payouts[p].status = "PENDING_REVIEW" /\ review[a].to = "APPROVED"
  BY <1>1, CommitMoves DEF LockEffect, CanTransition, Transitions
<1>3. Resolving(i)' = {}
  BY <1>1, <1>2, CommitMoves DEF LockStands, Resolving, RowIds, ledgerVars
<1>4. LockStands(i, payouts[p].status)'
  <2>1. payouts'[p].status = "APPROVED"
    BY <1>2, CommitMoves
  <2> QED
    BY <1>3, <2>1 DEF LockStands
<1>5. ASSUME NEW q \in PayoutIds \ {p}, Exists(q)
      PROVE  LockStands(payouts[q].lock, payouts[q].status)'
  <2>1. payouts'[q] = payouts[q] /\ LockStands(payouts[q].lock, payouts[q].status)
    BY <1>5, CommitMoves DEF IInv, LockFollowsStatus
  <2> QED
    BY <1>1, <2>1 DEF LockStands, Resolving, ResolvedOnceAs, RowIds, ledgerVars
<1>6. LedgerTypeOK' /\ RowsPointBack'
  BY <1>1 DEF ledgerVars, IInv, TypeOK, LedgerTypeOK, RowsPointBack, RowIds
<1> QED
  BY <1>1, <1>4, <1>5, <1>6

LEMMA CommitInv ==
    ASSUME IInv, NEW a \in Admins, Commit(a)
    PROVE  IInv'
<1>1. PICK p \in PayoutIds : p = review[a].payout
  BY DEF Commit, IInv, TypeOK, Free, Handler
<1>2. PICK i \in Nat : i = payouts[p].lock
  BY <1>1, CommitMoves, RowIdIsPosition DEF IInv, TypeOK
<1>3. /\ LedgerTypeOK' /\ RowsPointBack'
      /\ \A k \in RowIds : k \in RowIds' /\ ledger'[k] = ledger[k]
      /\ \A k \in RowIds' : ledger'[k].type = "PAYOUT_LOCK" => k \in RowIds
      /\ LockStands(i, payouts[p].status)'
      /\ \A q \in PayoutIds \ {p} : Exists(q) => LockStands(payouts[q].lock, payouts[q].status)'
  <2>1. CASE review[a].pc = "resolving"
    BY <1>1, <1>2, <2>1, CommitResolves
  <2>2. CASE review[a].pc # "resolving"
    BY <1>1, <1>2, <2>2, CommitApproves DEF ledgerVars, RowIds
  <2> QED
    BY <2>1, <2>2
<1>4. /\ rowLock' = [rowLock EXCEPT ![p] = NoAdmin] /\ review' = [review EXCEPT ![a] = Free]
      /\ executed' = executed
      /\ audit' = [audit EXCEPT ![p] =
                     Append(@, [before |-> review[a].before, after |-> review[a].to])]
      /\ review[a].pc \in {"locked", "resolving"} /\ review[a] # Free
  BY <1>1 DEF Commit, Free
<1>5. TypeOK'
  <2>1. [before |-> review[a].before, after |-> review[a].to] \in Entry
    BY <1>1, CommitMoves DEF Entry
  <2>2. audit' \in [PayoutIds -> Seq(Entry)]
    <3>1. PICK e \in Entry : e = [before |-> review[a].before, after |-> review[a].to]
      BY <2>1
    <3>2. audit' = [audit EXCEPT ![p] = Append(@, e)] /\ audit \in [PayoutIds -> Seq(Entry)]
      BY <1>4, <3>1 DEF IInv, TypeOK
    <3> QED
      BY <3>2
  <2>3. /\ rowLock' \in [PayoutIds -> Admins \cup {NoAdmin}]
        /\ review' \in [Admins -> {Free} \cup Handler]
        /\ executed' \in [PayoutIds -> Nat]
    BY <1>4 DEF IInv, TypeOK
  <2>4. payouts' \in [PayoutIds -> {NoPayout} \cup Payout]
    BY <1>1, CommitMoves
  <2> QED
    BY <1>3, <2>2, <2>3, <2>4 DEF TypeOK
<1>6. HandlersSound'
  <2> SUFFICES ASSUME NEW b \in Admins, review'[b] # Free
               PROVE  LET q  == review'[b].payout
                          pc == review'[b].pc
                      IN  /\ payouts'[q] # NoPayout
                          /\ pc \in {"locked", "resolving"} =>
                                rowLock'[q] = b /\ CanTransition(payouts'[q].status, review'[b].to)
                          /\ pc = "resolving" =>
                                LockEffect(payouts'[q].status, review'[b].to) # "none"
                          /\ pc \notin {"executing", "executed"} /\ review'[b].to = "PAID"
                                => executed'[q] > 0
                          /\ pc = "executed" => executed'[q] > 0
    BY DEF HandlersSound, Exists
  <2>1. PICK q \in PayoutIds : q = review[b].payout /\ review'[b] = review[b] /\ b # a
    BY <1>4 DEF IInv, TypeOK, Handler
  <2>2. review[b].pc \in {"locked", "resolving"} => q # p
    BY <1>1, <1>4, <2>1 DEF IInv, HandlersSound
  <2>3. Exists(q) /\ Exists(q)'
    BY <1>1, <2>1, CommitMoves DEF IInv, HandlersSound, Exists
  <2>4. /\ q # p => payouts'[q] = payouts[q] /\ rowLock'[q] = rowLock[q]
        /\ executed'[q] = executed[q]
    BY <1>1, <1>4, <2>1, CommitMoves DEF IInv, TypeOK
  <2>5. /\ review[b].pc \in {"locked", "resolving"} =>
              rowLock[q] = b /\ CanTransition(payouts[q].status, review[b].to)
        /\ review[b].pc = "resolving" => LockEffect(payouts[q].status, review[b].to) # "none"
        /\ review[b].pc \notin {"executing", "executed"} /\ review[b].to = "PAID"
              => executed[q] > 0
        /\ review[b].pc = "executed" => executed[q] > 0
    BY <2>1 DEF IInv, HandlersSound
  <2> QED
    BY <1>4, <2>1, <2>2, <2>3, <2>4, <2>5 DEF Exists
<1>7. LocksAndRequestsPair'
  <2>1. \A q \in PayoutIds : /\ Exists(q)' <=> Exists(q)
                             /\ payouts'[q].lock = payouts[q].lock
                             /\ payouts'[q].user = payouts[q].user
                             /\ payouts'[q].amount = payouts[q].amount
    BY <1>1, CommitMoves DEF Exists
  <2> QED
    BY <1>3, <2>1 DEF IInv, LocksAndRequestsPair
<1>8. LockFollowsStatus'
  <2>1. ASSUME NEW q \in PayoutIds, Exists(q)'
        PROVE  LockStands(payouts[q].lock, payouts[q].status)'
    <3>1. CASE q = p
      BY <1>1, <1>2, <1>3, <3>1, CommitMoves DEF LockStands, Resolving, ResolvedOnceAs
    <3>2. CASE q # p
      BY <1>1, <1>3, <2>1, <3>2, CommitMoves DEF Exists
    <3> QED
      BY <3>1, <3>2
  <2> QED
    BY <2>1 DEF LockFollowsStatus
<1>9. PaidWasExecuted'
  <2>1. review[a].to = "PAID" => executed[p] > 0
    BY <1>1, <1>4 DEF IInv, HandlersSound
  <2> QED
    BY <1>1, <1>4, <2>1, CommitMoves DEF IInv, PaidWasExecuted
<1> QED
  BY <1>3, <1>5, <1>6, <1>7, <1>8, <1>9 DEF IInv

-----------------------------------------------------------------------------
LEMMA NextInv == IInv /\ [Next]_vars => IInv'
<1> SUFFICES ASSUME IInv, [Next]_vars PROVE IInv'
  OBVIOUS
<1>1. CASE Earn
  BY <1>1, EarnInv
<1>2. CASE \E p \in PayoutIds, u \in Users, a \in Amounts : Submit(p, u, a)
  BY <1>2, SubmitInv
<1>3. CASE \E a \in Admins, p \in PayoutIds :
              CheckExecute(a, p) \/ \E to \in Statuses : OpenReview(a, p, to)
  BY <1>3, CheckExecuteInv, OpenReviewInv
<1>4. CASE \E a \in Admins : Execute(a) \/ Proceed(a)
  BY <1>4, ExecuteInv, LockRequestInv, RefuseInv, CheckLockInv, CommitInv, RollbackInv DEF Proceed
<1>5. CASE UNCHANGED vars
  <2>1. UNCHANGED ledgerVars /\ UNCHANGED payoutVars
    BY <1>5 DEF vars
  <2>2. HandlersSound'
    BY <2>1 DEF IInv, HandlersSound, Exists, payoutVars
  <2>3. /\ UNCHANGED <<ledgerVars, payouts, audit>>
        /\ rowLock' \in [PayoutIds -> Admins \cup {NoAdmin}]
        /\ review' \in [Admins -> {Free} \cup Handler]
        /\ executed' \in [PayoutIds -> Nat]
        /\ \A p \in PayoutIds : executed'[p] >= executed[p]
    BY <2>1 DEF IInv, TypeOK, payoutVars
  <2> QED
    BY <2>2, <2>3, HandlerStep
<1> QED
  BY <1>1, <1>2, <1>3, <1>4, <1>5 DEF Next

THEOREM Inductive == Spec => []IInv
<1>1. Init => IInv
  BY InitInv
<1>2. IInv /\ [Next]_vars => IInv'
  BY NextInv
<1> QED
  BY <1>1, <1>2, PTL DEF Spec

\* The tables and the handlers always have values of their types.
THEOREM TypeCorrect == Spec => []TypeOK
<1>1. IInv => TypeOK
  BY DEF IInv
<1> QED
  BY <1>1, Inductive, PTL

\* However many administrators act on however many requests at once, a
\* request's points are resolved exactly once, the way its status says.
THEOREM ResolvedOnce == Spec => []LockFollowsStatus
<1>1. IInv => LockFollowsStatus
  BY DEF IInv
<1> QED
  BY <1>1, Inductive, PTL

\* Requests and the locks of their points always correspond one to one.
THEOREM Paired == Spec => []LocksAndRequestsPair
<1>1. IInv => LocksAndRequestsPair
  BY DEF IInv
<1> QED
  BY <1>1, Inductive, PTL

\* Nothing is marked paid that the provider was never asked to pay.
THEOREM PaidExecuted == Spec => []PaidWasExecuted
<1>1. IInv => PaidWasExecuted
  BY DEF IInv
<1> QED
  BY <1>1, Inductive, PTL

-----------------------------------------------------------------------------
(* The trail.                                                              *)

\* What makes it inductive: there is none of a request that does not exist.
Trail ==
    /\ AuditTellsStatus
    /\ \A p \in PayoutIds : ~Exists(p) => audit[p] = <<>>

LEMMA TrailUnchanged ==
    ASSUME Trail, UNCHANGED <<payouts, audit>>
    PROVE  Trail'
  BY DEF Trail, AuditTellsStatus, StatusAfter, Exists

LEMMA SubmitTrail ==
    ASSUME IInv, Trail, NEW p \in PayoutIds, NEW u \in Users, NEW a \in Amounts, Submit(p, u, a)
    PROVE  Trail'
<1>1. PICK new : /\ payouts' = [payouts EXCEPT ![p] = new] /\ new.status = "PENDING_REVIEW"
                 /\ audit' = audit /\ ~Exists(p)
  BY DEF Submit
<1>2. /\ payouts'[p].status = "PENDING_REVIEW" /\ audit'[p] = <<>>
      /\ \A q \in PayoutIds \ {p} : payouts'[q] = payouts[q]
  BY <1>1 DEF IInv, TypeOK, Trail
<1>3. Exists(p)'
  BY <1>2 DEF Exists, NoPayout
<1>4. \A q \in PayoutIds \ {p} : Exists(q)' <=> Exists(q)
  BY <1>2 DEF Exists
<1>5. ASSUME NEW q \in PayoutIds, Exists(q)'
      PROVE  /\ payouts'[q].status = StatusAfter(q, Len(audit[q]))'
             /\ \A n \in 1 .. Len(audit'[q]) :
                   CanTransition(StatusAfter(q, n - 1)', StatusAfter(q, n)')
  <2>1. CASE q = p
    BY <1>2, <2>1 DEF StatusAfter
  <2>2. CASE q # p
    BY <1>1, <1>2, <1>4, <1>5, <2>2 DEF Trail, AuditTellsStatus, StatusAfter
  <2> QED
    BY <2>1, <2>2
<1> QED
  BY <1>1, <1>3, <1>4, <1>5 DEF Trail, AuditTellsStatus, CanTransition

\* A commit writes what became of the request, as its transition is permitted.
LEMMA CommitTrail ==
    ASSUME IInv, Trail, NEW a \in Admins, Commit(a)
    PROVE  Trail'
<1>1. PICK p \in PayoutIds : p = review[a].payout
  BY DEF Commit, IInv, TypeOK, Free, Handler
<1>2. PICK trail \in Seq(Entry), entry \in Entry, n \in Nat :
         /\ trail = audit[p] /\ audit' = [audit EXCEPT ![p] = Append(trail, entry)]
         /\ entry.after = review[a].to /\ n = Len(trail)
  <2>1. [before |-> review[a].before, after |-> review[a].to] \in Entry /\ audit[p] \in Seq(Entry)
    BY <1>1, CommitMoves DEF Entry, IInv, TypeOK
  <2>2. audit' = [audit EXCEPT ![p] = Append(audit[p], [before |-> review[a].before, after |-> review[a].to])]
    BY <1>1 DEF Commit
  <2>3. Len(audit[p]) \in Nat
    BY <2>1
  <2> QED
    BY <2>1, <2>2, <2>3
<1>3. /\ audit'[p] = Append(trail, entry)
      /\ \A q \in PayoutIds \ {p} : audit'[q] = audit[q] /\ payouts'[q] = payouts[q]
  BY <1>1, <1>2, CommitMoves DEF IInv, TypeOK
<1>4. /\ Len(audit'[p]) = n + 1 /\ audit'[p][n + 1] = entry
      /\ \A m \in 1 .. n : audit'[p][m] = trail[m]
  BY <1>2, <1>3
<1>5. /\ StatusAfter(p, n + 1)' = review[a].to
      /\ \A m \in 0 .. n : StatusAfter(p, m)' = StatusAfter(p, m)
  BY <1>2, <1>4 DEF StatusAfter
<1>6. /\ Exists(p) /\ CanTransition(payouts[p].status, review[a].to)
      /\ payouts'[p].status = review[a].to
  BY <1>1, CommitMoves
<1>7. /\ payouts[p].status = StatusAfter(p, n)
      /\ \A m \in 1 .. n : CanTransition(StatusAfter(p, m - 1), StatusAfter(p, m))
  BY <1>2, <1>6 DEF Trail, AuditTellsStatus
<1>8. /\ payouts'[p].status = StatusAfter(p, Len(audit[p]))'
      /\ \A m \in 1 .. Len(audit'[p]) : CanTransition(StatusAfter(p, m - 1)', StatusAfter(p, m)')
  <2>1. payouts'[p].status = StatusAfter(p, n + 1)'
    BY <1>5, <1>6
  <2>2. ASSUME NEW m \in 1 .. n + 1
        PROVE  CanTransition(StatusAfter(p, m - 1)', StatusAfter(p, m)')
    <3>1. CASE m = n + 1
      <4>1. m - 1 = n /\ n \in 0 .. n
        BY <3>1
      <4> QED
        BY <1>5, <1>6, <1>7, <3>1, <4>1
    <3>2. CASE m \in 1 .. n
      <4>1. m - 1 \in 0 .. n /\ m \in 0 .. n
        BY <3>2
      <4> QED
        BY <1>5, <1>7, <3>2, <4>1
    <3> QED
      BY <3>1, <3>2
  <2> QED
    <3>1. Len(audit'[p]) = n + 1
      BY <1>4
    <3> QED
      BY <2>1, <2>2, <3>1
<1>9. ASSUME NEW q \in PayoutIds \ {p}
      PROVE  /\ Exists(q)' <=> Exists(q)
             /\ \A m : StatusAfter(q, m)' = StatusAfter(q, m)
             /\ audit'[q] = audit[q] /\ payouts'[q] = payouts[q]
  BY <1>3 DEF Exists, StatusAfter
<1>10. AuditTellsStatus'
  <2>1. ASSUME NEW q \in PayoutIds, Exists(q)'
        PROVE  /\ payouts'[q].status = StatusAfter(q, Len(audit[q]))'
               /\ \A m \in 1 .. Len(audit'[q]) :
                     CanTransition(StatusAfter(q, m - 1)', StatusAfter(q, m)')
    <3>1. CASE q = p
      BY <1>8, <3>1
    <3>2. CASE q # p
      BY <1>9, <2>1, <3>2 DEF Trail, AuditTellsStatus, StatusAfter
    <3> QED
      BY <3>1, <3>2
  <2> QED
    BY <2>1 DEF AuditTellsStatus, CanTransition
<1>11. \A q \in PayoutIds : ~Exists(q)' => audit'[q] = <<>>
  BY <1>1, <1>9, CommitMoves DEF Trail
<1> QED
  BY <1>10, <1>11 DEF Trail

LEMMA TrailStep == IInv /\ Trail /\ [Next]_vars => Trail'
<1> SUFFICES ASSUME IInv, Trail, [Next]_vars PROVE Trail'
  OBVIOUS
<1>1. CASE Earn \/ UNCHANGED vars
  BY <1>1, TrailUnchanged DEF Earn, vars, payoutVars
<1>2. ASSUME NEW a \in Admins, NEW p \in PayoutIds, NEW to \in Statuses, OpenReview(a, p, to)
      PROVE  Trail'
  BY <1>2, TrailUnchanged DEF OpenReview
<1>3. ASSUME NEW a \in Admins, NEW p \in PayoutIds, CheckExecute(a, p)
      PROVE  Trail'
  BY <1>3, TrailUnchanged DEF CheckExecute
<1>4. ASSUME NEW a \in Admins, Execute(a) \/ LockRequest(a) \/ Refuse(a) \/ CheckLock(a) \/ Rollback(a)
      PROVE  Trail'
  BY <1>4, TrailUnchanged DEF Execute, LockRequest, Refuse, CheckLock, Rollback
<1> QED
  BY <1>1, <1>2, <1>3, <1>4, SubmitTrail, CommitTrail DEF Next, Proceed

\* However many administrators move a request at once, its entries lead from its
\* submission to its status by permitted moves (AdminPayoutsService.review).
THEOREM AuditComplete == Spec => []AuditTellsStatus
<1>1. Init => Trail
  BY DEF Init, Trail, AuditTellsStatus, Exists
<1>2. Trail => AuditTellsStatus
  BY DEF Trail
<1> QED
  BY <1>1, <1>2, TrailStep, Inductive, PTL DEF Spec

-----------------------------------------------------------------------------
(* The refinement.  Under the invariant a request's status alone says      *)
(* where its points are.                                                   *)

Where(s) ==
    IF s = "NONE" THEN "none"
    ELSE IF s \in {"PENDING_REVIEW", "APPROVED"} THEN "locked"
    ELSE IF s = "PAID" THEN "spent" ELSE "returned"

LEMMA FundsWhere ==
    ASSUME IInv, NEW p \in PayoutIds
    PROVE  FundsOf(p) = Where(payouts[p].status)
<1>1. CASE ~Exists(p)
  BY <1>1 DEF FundsOf, Where, Exists, NoPayout
<1>2. CASE Exists(p)
  <2>1. PICK i : i = payouts[p].lock
    OBVIOUS
  <2>2. payouts[p].status \in Statuses /\ LockStands(i, payouts[p].status)
    BY <1>2, <2>1 DEF IInv, TypeOK, Exists, Payout, LockFollowsStatus
  <2>3. \A type \in Resolutions : ActedOn(i, {type}) <=> \E j \in Resolving(i) : ledger[j].type = type
    BY DEF ActedOn, Resolving
  <2>4. CASE payouts[p].status \in {"PENDING_REVIEW", "APPROVED"}
    BY <1>2, <2>1, <2>2, <2>3, <2>4 DEF FundsOf, Where, LockStands, Resolutions
  <2>5. CASE payouts[p].status = "PAID"
    <3>1. ActedOn(i, {"PAYOUT_SETTLE"})
      BY <2>2, <2>3, <2>5 DEF LockStands, ResolvedOnceAs, Resolutions
    <3> QED
      BY <1>2, <2>1, <2>5, <3>1 DEF FundsOf, Where
  <2>6. CASE payouts[p].status \in {"REJECTED", "FAILED"}
    <3>1. ActedOn(i, {"PAYOUT_REFUND"}) /\ ~ActedOn(i, {"PAYOUT_SETTLE"})
      BY <2>2, <2>3, <2>6 DEF LockStands, ResolvedOnceAs, Resolutions
    <3> QED
      BY <1>2, <2>1, <2>6, <3>1 DEF FundsOf, Where
  <2> QED
    BY <2>2, <2>4, <2>5, <2>6 DEF Statuses
<1> QED
  BY <1>1, <1>2

FundsAreWhere == \A p \in PayoutIds : FundsOf(p) = Where(payouts[p].status)

LEMMA AllFundsWhere == IInv => FundsAreWhere
  BY FundsWhere DEF FundsAreWhere

\* A step moves the status of one request along the life cycle, or of none.
Moved(p, from, to) ==
    /\ payouts[p].status = from
    /\ payouts'[p].status = to
    /\ \A q \in PayoutIds \ {p} : payouts'[q] = payouts[q]

LEMMA StepMoves ==
    ASSUME IInv, [Next]_vars
    PROVE  \/ UNCHANGED payouts
           \/ \E p \in PayoutIds :
                 \/ Moved(p, "NONE", "PENDING_REVIEW")
                 \/ \E from, to \in Statuses : CanTransition(from, to) /\ Moved(p, from, to)
<1>1. ASSUME NEW p \in PayoutIds, NEW u \in Users, NEW a \in Amounts, Submit(p, u, a)
      PROVE  Moved(p, "NONE", "PENDING_REVIEW")
  <2>1. PICK new : new = [status |-> "PENDING_REVIEW", user |-> u, amount |-> a,
                          cash |-> ToCashMinor(a), lock |-> Len(ledger')]
    OBVIOUS
  <2>2. payouts' = [payouts EXCEPT ![p] = new] /\ new.status = "PENDING_REVIEW"
    BY <1>1, <2>1 DEF Submit
  <2>3. payouts[p].status = "NONE"
    BY <1>1 DEF Submit, Exists, NoPayout
  <2> QED
    BY <2>2, <2>3 DEF Moved, IInv, TypeOK
<1>2. ASSUME NEW a \in Admins, Commit(a)
      PROVE  \E p \in PayoutIds : \E from, to \in Statuses : CanTransition(from, to) /\ Moved(p, from, to)
  <2>1. PICK p \in PayoutIds : p = review[a].payout
    BY <1>2 DEF Commit, IInv, TypeOK, Free, Handler
  <2>2. payouts[p].status \in Statuses
    BY <1>2, <2>1, CommitMoves DEF IInv, TypeOK, Payout, Exists
  <2> QED
    BY <1>2, <2>1, <2>2, CommitMoves DEF Moved
<1>3. CASE Earn \/ UNCHANGED vars
  BY <1>3 DEF Earn, vars, payoutVars
<1>4. ASSUME NEW a \in Admins, NEW p \in PayoutIds, NEW to \in Statuses,
             CheckExecute(a, p) \/ OpenReview(a, p, to)
      PROVE  UNCHANGED payouts
  BY <1>4 DEF CheckExecute, OpenReview
<1>5. ASSUME NEW a \in Admins, Execute(a) \/ LockRequest(a) \/ Refuse(a) \/ CheckLock(a) \/ Rollback(a)
      PROVE  UNCHANGED payouts
  BY <1>5 DEF Execute, LockRequest, Refuse, CheckLock, Rollback
<1>6. ASSUME NEW a \in Admins, NEW p \in PayoutIds, CheckExecute(a, p)
      PROVE  UNCHANGED payouts
  BY <1>6 DEF CheckExecute
<1> QED
  BY <1>1, <1>2, <1>3, <1>4, <1>5, <1>6 DEF Next, Proceed

LEMMA LifecycleStep ==
    ASSUME IInv, IInv', [Next]_vars
    PROVE  [Lifecycle!Next]_(Lifecycle!vars)
<1> DEFINE status == [p \in PayoutIds |-> payouts[p].status]
<1> DEFINE funds  == [p \in PayoutIds |-> FundsOf(p)]
<1>1. /\ \A p \in PayoutIds : funds[p] = Where(status[p])
      /\ \A p \in PayoutIds : funds'[p] = Where(status'[p])
  <2>1. FundsAreWhere /\ FundsAreWhere'
    BY AllFundsWhere, PTL
  <2> QED
    BY <2>1 DEF FundsAreWhere
<1>2. CASE UNCHANGED payouts
  <2>1. status' = status
    BY <1>2
  <2>2. funds' = funds
    BY <1>1, <2>1
  <2> QED
    BY <2>1, <2>2 DEF Lifecycle!vars
<1>3. ASSUME NEW p \in PayoutIds, NEW from, NEW to, Moved(p, from, to)
      PROVE  Lifecycle!Become(p, from, to, Where(to))
  <2>1. status[p] = from /\ status' = [status EXCEPT ![p] = to]
    BY <1>3 DEF Moved
  <2>2. funds' = [q \in PayoutIds |-> Where(status'[q])] /\ funds = [q \in PayoutIds |-> Where(status[q])]
    BY <1>1
  <2>3. \A q \in PayoutIds : Where(status'[q]) = IF q = p THEN Where(to) ELSE Where(status[q])
    BY <2>1
  <2>4. funds' = [funds EXCEPT ![p] = Where(to)]
    <3> HIDE DEF status, funds
    <3> QED
      BY <2>2, <2>3
  <2> QED
    BY <2>1, <2>4 DEF Lifecycle!Become
<1>4. ASSUME NEW p \in PayoutIds, Moved(p, "NONE", "PENDING_REVIEW")
      PROVE  Lifecycle!Submit(p)
  BY <1>3, <1>4 DEF Lifecycle!Submit, Where
<1>5. ASSUME NEW p \in PayoutIds, NEW from, NEW to, CanTransition(from, to), Moved(p, from, to)
      PROVE  Lifecycle!Approve(p) \/ Lifecycle!Reject(p) \/ Lifecycle!Settle(p) \/ Lifecycle!Fail(p)
  <2>1. Lifecycle!Become(p, from, to, Where(to))
    BY <1>3, <1>5
  <2> QED
    BY <1>5, <2>1 DEF CanTransition, Transitions, Where, Lifecycle!Approve, Lifecycle!Reject,
                      Lifecycle!Settle, Lifecycle!Fail
<1> QED
  BY <1>2, <1>4, <1>5, StepMoves DEF Lifecycle!Next

LEMMA LifecycleInit == Init => Lifecycle!Init
<1> SUFFICES ASSUME Init PROVE Lifecycle!Init
  OBVIOUS
<1>1. \A p \in PayoutIds : payouts[p].status = "NONE" /\ FundsOf(p) = "none"
  BY DEF Init, NoPayout, FundsOf, Exists
<1> QED
  BY <1>1 DEF Lifecycle!Init

\* Payouts implements the abstract life cycle: every step moves one request's
\* status and points together, as PayoutLifecycle allows, or moves neither.
THEOREM Implements == Spec => ImplementsLifecycle
<1>1. Init => Lifecycle!Init
  BY LifecycleInit
<1>2. IInv /\ IInv' /\ [Next]_vars => [Lifecycle!Next]_(Lifecycle!vars)
  BY LifecycleStep
<1> QED
  BY <1>1, <1>2, Inductive, PTL DEF Spec, ImplementsLifecycle, Lifecycle!Spec

-----------------------------------------------------------------------------
(* Sums: what every step writes, and what the locked points add up to.     *)

\* The rows of the rest of the system lock nothing.
LEMMA EarnWrites ==
    ASSUME LedgerTypeOK, Earn
    PROVE  (\E row \in Row : Write(row) /\ row.locked = 0) \/ UNCHANGED <<balance, ledger>>
<1>1. ASSUME NEW u \in Users, NEW a \in Amounts, Credit(u, a, "timed")
      PROVE  \E row \in Row : Write(row) /\ row.locked = 0
  BY <1>1, NewRowTypes DEF Credit, CreditRow
<1>2. ASSUME NEW i \in RowIds, Write(MaturationRow(i))
      PROVE  \E row \in Row : Write(row) /\ row.locked = 0
  BY <1>2, MaturationRowType DEF MaturationRow
<1>3. ASSUME NEW i \in RowIds, Write(ReversalRow(i))
      PROVE  \E row \in Row : Write(row) /\ row.locked = 0
  BY <1>3, ReversalRowType DEF ReversalRow
<1>4. ASSUME NEW u \in Users, OpenAccount(u) PROVE UNCHANGED <<balance, ledger>>
  BY <1>4 DEF OpenAccount
<1> QED
  BY <1>1, <1>2, <1>3, <1>4 DEF Earn

\* A submission locks the points of its request.
LEMMA SubmitWrites ==
    ASSUME NEW p \in PayoutIds, NEW u \in Users, NEW a \in Amounts, Submit(p, u, a)
    PROVE  \E row \in Row : Write(row) /\ row.user = u /\ row.locked = a
  BY NewRowTypes DEF Submit, Lock, LockRow

\* A commit that resolves a lock takes its request's points out of locked.
LEMMA CommitWrites ==
    ASSUME IInv, NEW a \in Admins, Commit(a), NEW p \in PayoutIds, p = review[a].payout
    PROVE  \/ /\ UNCHANGED <<balance, ledger>>
              /\ payouts[p].status = "PENDING_REVIEW" /\ payouts'[p].status = "APPROVED"
           \/ /\ \E row \in Row : /\ Write(row) /\ row.user = payouts[p].user
                                  /\ row.locked = -payouts[p].amount
              /\ payouts[p].status \in {"PENDING_REVIEW", "APPROVED"}
              /\ payouts'[p].status \notin {"PENDING_REVIEW", "APPROVED"}
<1>1. PICK effect : effect = LockEffect(payouts[p].status, review[a].to)
  OBVIOUS
<1>2. PICK i \in RowIds : i = payouts[p].lock
  BY CommitMoves
<1>3. /\ CanTransition(payouts[p].status, review[a].to) /\ payouts'[p].status = review[a].to
      /\ LedgerTypeOK /\ Exists(p)
  BY CommitMoves DEF IInv, TypeOK
<1>4. ledger[i].user = payouts[p].user /\ ledger[i].locked = payouts[p].amount
  BY <1>2, <1>3 DEF IInv, LocksAndRequestsPair
<1>5. CASE effect = "none" /\ UNCHANGED ledgerVars
  BY <1>1, <1>3, <1>5 DEF LockEffect, CanTransition, Transitions, ledgerVars
<1>6. CASE review[a].pc = "resolving" /\ Write(ResolutionRow(i, effect))
  <2>1. effect # "none"
    BY <1>1, <1>6 DEF IInv, HandlersSound, Free
  <2>2. /\ effect \in Resolutions
        /\ review[a].to \in {"PAID", "REJECTED", "FAILED"}
        /\ payouts[p].status \in {"PENDING_REVIEW", "APPROVED"}
    BY <1>1, <1>3, <2>1 DEF LockEffect, CanTransition, Transitions, Resolutions
  <2>3. ResolutionRow(i, effect) \in Row
    BY <1>3, <2>2, ResolutionRowType
  <2>4. ResolutionRow(i, effect).user = payouts[p].user /\ ResolutionRow(i, effect).locked = -payouts[p].amount
    BY <1>4 DEF ResolutionRow
  <2> QED
    BY <1>3, <1>6, <2>2, <2>3, <2>4
<1> QED
  BY <1>1, <1>2, <1>5, <1>6 DEF Commit

\* The steps of a handler that move no points and no request.
LEMMA HandlersStill ==
    ASSUME NEW a \in Admins, NEW p \in PayoutIds,
           \/ CheckExecute(a, p)
           \/ \E to \in Statuses : OpenReview(a, p, to)
           \/ Execute(a) \/ LockRequest(a) \/ Refuse(a) \/ CheckLock(a) \/ Rollback(a)
    PROVE  UNCHANGED <<balance, ledger, payouts>>
  BY DEF CheckExecute, OpenReview, Execute, LockRequest, Refuse, CheckLock, Rollback, ledgerVars

\* Every step is of one of these kinds.
LEMMA StepWrites ==
    ASSUME IInv, [Next]_vars
    PROVE  \/ UNCHANGED <<balance, ledger, payouts>>
           \/ (\E row \in Row : Write(row) /\ row.locked = 0) /\ UNCHANGED payouts
           \/ \E p \in PayoutIds, u \in Users, a \in Amounts : Submit(p, u, a)
           \/ \E a \in Admins : Commit(a)
<1>1. CASE Earn
  BY <1>1, EarnWrites DEF Earn, payoutVars, IInv, TypeOK
<1>2. CASE UNCHANGED vars
  BY <1>2 DEF vars, ledgerVars, payoutVars
<1>3. ASSUME NEW a \in Admins, Execute(a) \/ LockRequest(a) \/ Refuse(a) \/ CheckLock(a) \/ Rollback(a)
      PROVE  UNCHANGED <<balance, ledger, payouts>>
  BY <1>3 DEF Execute, LockRequest, Refuse, CheckLock, Rollback, ledgerVars
<1> QED
  BY <1>1, <1>2, <1>3, HandlersStill DEF Next, Proceed

\* Reviews, submissions and the rest of the system never make a balance differ
\* from its history (reconcile), however they interleave.
THEOREM Reconciled == Spec => []Reconciles
<1>1. Init => Reconciles
  BY LedgerInitType, EmptyReconciles DEF Init, LedgerInit
<1>2. ASSUME IInv, Reconciles, [Next]_vars PROVE Reconciles'
  <2>1. LedgerTypeOK
    BY <1>2 DEF IInv, TypeOK
  <2>2. (\E row \in Row : Write(row)) \/ UNCHANGED <<balance, ledger>>
    <3>1. ASSUME NEW a \in Admins, Commit(a)
          PROVE  (\E row \in Row : Write(row)) \/ UNCHANGED <<balance, ledger>>
      <4>1. PICK p \in PayoutIds : p = review[a].payout
        BY <1>2, <3>1 DEF Commit, IInv, TypeOK, Free, Handler
      <4> QED
        BY <1>2, <3>1, <4>1, CommitWrites
    <3> QED
      BY <1>2, <3>1, StepWrites, SubmitWrites
  <2> QED
    BY <1>2, <2>1, <2>2, WriteReconciles, StillReconciles
<1>3. Init => IInv
  BY InitInv
<1>4. IInv /\ [Next]_vars => IInv'
  BY NextInv
<1> QED
  BY <1>1, <1>2, <1>3, <1>4, PTL DEF Spec

-----------------------------------------------------------------------------
\* The requests ps holds of user u that are under way, and their points.
Staked(ps, u) ==
    {p \in PayoutIds : /\ ps[p].status \in {"PENDING_REVIEW", "APPROVED"}
                       /\ ps[p].user = u}
Stakes(ps, u) == [p \in Staked(ps, u) |-> ps[p].amount]

Requests == [PayoutIds -> {NoPayout} \cup Payout]

LEMMA StakesType ==
    ASSUME NEW ps \in Requests, NEW u
    PROVE  Stakes(ps, u) \in [Staked(ps, u) -> Int]
<1>1. ASSUME NEW p \in Staked(ps, u) PROVE ps[p].amount \in Int
  <2>1. ps[p].status # "NONE" /\ p \in PayoutIds
    BY DEF Staked
  <2>2. ps[p] \in Payout
    BY <2>1 DEF Requests, NoPayout
  <2> QED
    BY <2>2 DEF Payout
<1> QED
  BY <1>1 DEF Stakes

\* ps2 is ps with request p changed; of user u it is under way in ps2 only.
LEMMA StakeMade ==
    ASSUME NEW ps \in Requests, NEW ps2 \in Requests, NEW u, NEW p \in PayoutIds,
           \A q \in PayoutIds \ {p} : ps2[q] = ps[q],
           p \notin Staked(ps, u), p \in Staked(ps2, u),
           IsFiniteSet(Staked(ps, u)) \/ IsFiniteSet(Staked(ps2, u))
    PROVE  /\ IsFiniteSet(Staked(ps, u)) /\ IsFiniteSet(Staked(ps2, u))
           /\ SumFunction(Stakes(ps, u)) \in Int
           /\ SumFunction(Stakes(ps2, u)) = SumFunction(Stakes(ps, u)) + ps2[p].amount
<1>1. PICK D, D2 : D = Staked(ps, u) /\ D2 = Staked(ps2, u)
  OBVIOUS
<1>2. PICK f, f2 : f = Stakes(ps, u) /\ f2 = Stakes(ps2, u)
  OBVIOUS
<1>3. p \notin D /\ p \in D2 /\ \A q \in PayoutIds \ {p} : q \in D <=> q \in D2
  BY <1>1 DEF Staked
<1>4. D \subseteq PayoutIds /\ D2 \subseteq PayoutIds
  BY <1>1 DEF Staked
<1>5. D2 = D \cup {p}
  BY <1>3, <1>4
<1>6. IsFiniteSet(D) /\ IsFiniteSet(D2)
  <2>1. CASE IsFiniteSet(D)
    BY <1>5, <2>1, FS_AddElement
  <2>2. CASE IsFiniteSet(D2)
    BY <1>5, <2>2, FS_Subset
  <2> QED
    BY <1>1, <2>1, <2>2
<1>7. f \in [D -> Int] /\ f2 \in [D2 -> Int]
  BY <1>1, <1>2, StakesType
<1>8. \A q \in D : f[q] = f2[q]
  BY <1>1, <1>2, <1>3, <1>4 DEF Stakes
<1>9. Grows(f, f2, p)
  BY <1>3, <1>4, <1>7, <1>8 DEF Grows
<1>10. SumFunction(f2) = SumFunction(f) + f2[p] /\ SumFunction(f) \in Int
  BY <1>6, <1>7, <1>9, SumGrows, SumType
<1>11. f2[p] = ps2[p].amount
  BY <1>1, <1>2, <1>3 DEF Stakes
<1> QED
  BY <1>1, <1>2, <1>6, <1>10, <1>11

\* ps2 is ps with request p changed, and of user u nothing that is under way.
LEMMA StakesStay ==
    ASSUME NEW ps, NEW ps2, NEW u, NEW p,
           \A q \in PayoutIds \ {p} : ps2[q] = ps[q],
           p \in Staked(ps, u) <=> p \in Staked(ps2, u),
           p \in Staked(ps, u) => ps2[p].amount = ps[p].amount
    PROVE  Staked(ps2, u) = Staked(ps, u) /\ Stakes(ps2, u) = Stakes(ps, u)
<1>1. \A q \in PayoutIds \ {p} : q \in Staked(ps, u) <=> q \in Staked(ps2, u)
  BY DEF Staked
<1>2. Staked(ps2, u) = Staked(ps, u)
  BY <1>1 DEF Staked
<1>3. \A q \in Staked(ps, u) : ps2[q].amount = ps[q].amount
  <2>1. \A q \in Staked(ps, u) : q \in PayoutIds
    BY DEF Staked
  <2> QED
    BY <2>1
<1> QED
  BY <1>2, <1>3 DEF Stakes

\* LockedIsUnderWay, with the requests it sums over finite in number.
LockedInv ==
    \A u \in Users :
        /\ IsFiniteSet(Staked(payouts, u))
        /\ balance[u].locked = SumFunction(Stakes(payouts, u))

LEMMA LockedInit == Init => LockedInv
<1> SUFFICES ASSUME Init, NEW u \in Users
             PROVE  IsFiniteSet(Staked(payouts, u)) /\ balance[u].locked = SumFunction(Stakes(payouts, u))
  BY DEF LockedInv
<1>1. payouts \in Requests
  BY DEF Init, Requests
<1>2. Staked(payouts, u) = {}
  BY DEF Init, Staked, NoPayout
<1>3. PICK D : D = Staked(payouts, u)
  OBVIOUS
<1>4. IsFiniteSet(D) /\ Stakes(payouts, u) \in [D -> Int]
  BY <1>1, <1>2, <1>3, StakesType, FS_EmptySet
<1>5. SumFunction(Stakes(payouts, u)) = 0
  BY <1>2, <1>3, <1>4, SumType
<1>6. balance[u].locked = 0
  BY DEF Init, LedgerInit, ZeroBalance, Columns
<1> QED
  BY <1>3, <1>4, <1>5, <1>6

\* A row that locks nothing leaves locked alone.
LEMMA LockedAfter ==
    ASSUME LedgerTypeOK, NEW row \in Row, Write(row), NEW u \in Users
    PROVE  /\ balance[u].locked \in Int /\ row.locked \in Int
           /\ balance'[u].locked = balance[u].locked + (IF row.user = u THEN row.locked ELSE 0)
<1>1. balance[u].locked \in Int /\ row.locked \in Int
  BY BalanceAfter DEF Columns, Row
<1>2. u = row.user => balance'[u].locked = balance[u].locked + row.locked
  BY BalanceAfter
<1>3. u # row.user => balance'[u].locked = balance[u].locked
  BY BalanceAfter
<1> QED
  BY <1>1, <1>2, <1>3

LEMMA LockedStep ==
    ASSUME IInv, LockedInv, [Next]_vars
    PROVE  LockedInv'
<1>1. LedgerTypeOK /\ payouts \in Requests
  BY DEF IInv, TypeOK, Requests
<1>2. payouts' \in Requests
  BY NextInv DEF IInv, TypeOK, Requests
<1>3. PICK ps, ps2 : ps = payouts /\ ps2 = payouts'
  OBVIOUS
<1>4. ps \in Requests /\ ps2 \in Requests
  BY <1>1, <1>2, <1>3
<1>5. \A u \in Users : IsFiniteSet(Staked(ps, u)) /\ balance[u].locked = SumFunction(Stakes(ps, u))
  BY <1>3 DEF LockedInv
<1> SUFFICES ASSUME NEW u \in Users
             PROVE  IsFiniteSet(Staked(ps2, u)) /\ balance'[u].locked = SumFunction(Stakes(ps2, u))
  BY <1>3 DEF LockedInv
<1>6. CASE UNCHANGED <<balance, payouts>>
  BY <1>3, <1>5, <1>6
<1>7. ASSUME NEW row \in Row, Write(row), row.locked = 0, UNCHANGED payouts
      PROVE  IsFiniteSet(Staked(ps2, u)) /\ balance'[u].locked = SumFunction(Stakes(ps2, u))
  BY <1>1, <1>3, <1>5, <1>7, LockedAfter
<1>8. ASSUME NEW p \in PayoutIds, NEW v \in Users, NEW a \in Amounts, Submit(p, v, a)
      PROVE  IsFiniteSet(Staked(ps2, u)) /\ balance'[u].locked = SumFunction(Stakes(ps2, u))
  <2>1. PICK row \in Row : Write(row) /\ row.user = v /\ row.locked = a
    BY <1>8, SubmitWrites
  <2>2. PICK new : new = [status |-> "PENDING_REVIEW", user |-> v, amount |-> a,
                          cash |-> ToCashMinor(a), lock |-> Len(ledger')]
    OBVIOUS
  <2>3. ps2 = [ps EXCEPT ![p] = new] /\ new.status = "PENDING_REVIEW" /\ new.user = v /\ new.amount = a
    BY <1>3, <1>8, <2>2 DEF Submit
  <2>4. ps[p].status = "NONE" /\ DOMAIN ps = PayoutIds
    BY <1>3, <1>4, <1>8 DEF Submit, Exists, NoPayout, Requests
  <2>5. ps2[p] = new /\ \A q \in PayoutIds \ {p} : ps2[q] = ps[q]
    BY <2>3, <2>4
  <2>6. p \notin Staked(ps, u) /\ (p \in Staked(ps2, u) <=> u = v)
    BY <2>3, <2>4, <2>5 DEF Staked
  <2>7. CASE u = v
    <3>1. IsFiniteSet(Staked(ps2, u)) /\ SumFunction(Stakes(ps2, u)) = SumFunction(Stakes(ps, u)) + ps2[p].amount
      BY <1>4, <1>5, <2>5, <2>6, <2>7, StakeMade
    <3>2. balance'[u].locked = balance[u].locked + a
      BY <1>1, <2>1, <2>7, LockedAfter
    <3> QED
      BY <1>5, <2>3, <2>5, <3>1, <3>2
  <2>8. CASE u # v
    <3>1. Staked(ps2, u) = Staked(ps, u) /\ Stakes(ps2, u) = Stakes(ps, u)
      BY <2>5, <2>6, <2>8, StakesStay
    <3>2. balance'[u].locked = balance[u].locked
      BY <1>1, <2>1, <2>8, LockedAfter
    <3> QED
      BY <1>5, <3>1, <3>2
  <2> QED
    BY <2>7, <2>8
<1>9. ASSUME NEW a \in Admins, Commit(a)
      PROVE  IsFiniteSet(Staked(ps2, u)) /\ balance'[u].locked = SumFunction(Stakes(ps2, u))
  <2>1. PICK p \in PayoutIds : p = review[a].payout
    BY <1>9 DEF Commit, IInv, TypeOK, Free, Handler
  <2>2. /\ ps2[p].user = ps[p].user /\ ps2[p].amount = ps[p].amount
        /\ \A q \in PayoutIds \ {p} : ps2[q] = ps[q]
    BY <1>3, <1>9, <2>1, CommitMoves
  <2>3. CASE /\ UNCHANGED <<balance, ledger>>
             /\ ps[p].status = "PENDING_REVIEW" /\ ps2[p].status = "APPROVED"
    <3>1. p \in Staked(ps, u) <=> p \in Staked(ps2, u)
      BY <2>2, <2>3 DEF Staked
    <3>2. Staked(ps2, u) = Staked(ps, u) /\ Stakes(ps2, u) = Stakes(ps, u)
      BY <2>2, <3>1, StakesStay
    <3> QED
      BY <1>5, <2>3, <3>2
  <2>4. CASE /\ \E row \in Row : Write(row) /\ row.user = ps[p].user /\ row.locked = -ps[p].amount
             /\ ps[p].status \in {"PENDING_REVIEW", "APPROVED"}
             /\ ps2[p].status \notin {"PENDING_REVIEW", "APPROVED"}
    <3>1. PICK row \in Row : Write(row) /\ row.user = ps[p].user /\ row.locked = -ps[p].amount
      BY <2>4
    <3>2. p \notin Staked(ps2, u) /\ (p \in Staked(ps, u) <=> u = row.user)
      BY <2>2, <2>4, <3>1 DEF Staked
    <3>3. CASE u = row.user
      <4>1. \A q \in PayoutIds \ {p} : ps[q] = ps2[q]
        BY <2>2
      <4>2. /\ IsFiniteSet(Staked(ps2, u)) /\ SumFunction(Stakes(ps2, u)) \in Int
            /\ SumFunction(Stakes(ps, u)) = SumFunction(Stakes(ps2, u)) + ps[p].amount
        BY <1>4, <1>5, <3>2, <3>3, <4>1, StakeMade
      <4>3. balance'[u].locked = balance[u].locked + row.locked
        BY <1>1, <3>1, <3>3, LockedAfter
      <4>4. ps[p].amount \in Int
        <5>1. ps[p].status # "NONE"
          BY <2>4
        <5>2. ps[p] \in Payout
          BY <1>4, <5>1 DEF Requests, NoPayout
        <5> QED
          BY <5>2 DEF Payout
      <4> QED
        BY <1>5, <3>1, <4>2, <4>3, <4>4
    <3>4. CASE u # row.user
      <4>1. Staked(ps2, u) = Staked(ps, u) /\ Stakes(ps2, u) = Stakes(ps, u)
        BY <2>2, <3>2, <3>4, StakesStay
      <4>2. balance'[u].locked = balance[u].locked
        BY <1>1, <3>1, <3>4, LockedAfter
      <4> QED
        BY <1>5, <4>1, <4>2
    <3> QED
      BY <3>3, <3>4
  <2> QED
    BY <1>3, <1>9, <2>1, <2>3, <2>4, CommitWrites
<1> QED
  BY <1>6, <1>7, <1>8, <1>9, StepWrites

\* A user's locked points are exactly those of the requests still under way,
\* for any number of requests, administrators and movements beside them.
THEOREM LockedUnderWay == Spec => []LockedIsUnderWay
<1>1. LockedInv => LockedIsUnderWay
  BY DEF LockedInv, LockedIsUnderWay, UnderWay, Staked, Stakes
<1>2. Init => LockedInv
  BY LockedInit
<1>3. IInv /\ LockedInv /\ [Next]_vars => LockedInv'
  BY LockedStep
<1>4. Init => IInv
  BY InitInv
<1>5. IInv /\ [Next]_vars => IInv'
  BY NextInv
<1> QED
  BY <1>1, <1>2, <1>3, <1>4, <1>5, PTL DEF Spec
=============================================================================
