----------------------- MODULE RewardAccountingProofs -----------------------
(***************************************************************************)
(* What holds of RewardAccounting for every set of users, callers and      *)
(* amounts, and however the callers' checks and commits interleave.        *)
(***************************************************************************)
EXTENDS RewardAccounting, RewardLedgerProofs

\* The shape of a row on its own: what its buckets say about its type.
Shaped(row) ==
    /\ row.amount = row.pending + row.available + row.locked
    /\ row.amount > 0 => row.type = "CONVERSION_CREDIT"
    /\ row.type = "CONVERSION_CREDIT" => row.amount > 0
    /\ row.type = "PAYOUT_LOCK" => row.locked > 0

\* A row the history ll may go on with: well formed, and if it acts on another,
\* on an earlier one of its user that it matches.
Acting == {"CHARGEBACK_DEBIT", "REWARD_MATURATION"} \cup Resolutions

Justified(row, ll) ==
    /\ Shaped(row)
    /\ row.type \in Acting => /\ row.source \in 1 .. Len(ll)
                              /\ FaithfulTo(row, ll[row.source])

LedgerOK ==
    /\ \A j \in RowIds : Shaped(ledger[j])
    /\ ActionsMatchOrigin

\* A caller between its check and its commit holds a row of the right kind.
OpsOnTarget ==
    \A w \in Callers :
        /\ op[w].kind = "reverse" => ledger[op[w].row].amount > 0
        /\ op[w].kind = "mature" => ledger[op[w].row].type = "CONVERSION_CREDIT"
        /\ op[w].kind \in Resolutions => ledger[op[w].row].type = "PAYOUT_LOCK"

IInv == TypeOK /\ LedgerOK /\ OpsOnTarget

-----------------------------------------------------------------------------
\* write keeps the history sound when the new row is justified.
LEMMA WriteSound ==
    ASSUME LedgerTypeOK, LedgerOK, NEW row \in Row, Justified(row, ledger), Write(row)
    PROVE  LedgerOK'
<1>1. /\ ledger \in Seq(Row)
      /\ ledger' = Append(ledger, row)
      /\ Len(ledger') = Len(ledger) + 1
      /\ \A j \in RowIds : ledger'[j] = ledger[j]
      /\ ledger'[Len(ledger) + 1] = row
      /\ Len(ledger) \in Nat
  BY AppendRow DEF LedgerTypeOK, Write, RowIds
<1>2. \A j \in RowIds' : j \in RowIds \/ j = Len(ledger) + 1
  BY <1>1 DEF RowIds
<1>3. \A j \in RowIds' : Shaped(ledger'[j])
  BY <1>1, <1>2 DEF LedgerOK, Justified
<1>4. ActionsMatchOrigin'
  <2> SUFFICES ASSUME NEW j \in RowIds', ledger'[j].type \in Acting
               PROVE  /\ ledger'[j].source \in 1 .. (j - 1)
                      /\ FaithfulTo(ledger'[j], ledger'[ledger'[j].source])
    BY DEF ActionsMatchOrigin, Acting, FaithfulTo
  <2>1. CASE j \in RowIds
    <3>1. /\ ledger[j].source \in 1 .. (j - 1)
          /\ FaithfulTo(ledger[j], ledger[ledger[j].source])
      BY <1>1, <2>1 DEF LedgerOK, ActionsMatchOrigin, Acting
    <3>2. ledger[j].source \in RowIds
      BY <1>1, <2>1, <3>1 DEF RowIds
    <3> QED
      BY <1>1, <2>1, <3>1, <3>2
  <2>2. CASE j = Len(ledger) + 1
    <3>1. row.source \in RowIds /\ FaithfulTo(row, ledger[row.source])
      BY <1>1, <2>2 DEF Justified, RowIds
    <3> QED
      BY <1>1, <2>2, <3>1 DEF RowIds
  <2> QED
    BY <1>2, <2>1, <2>2
<1> QED
  BY <1>3, <1>4 DEF LedgerOK

\* Everything a step that writes row and leaves the callers' checks alone must
\* show: the checks in flight still point at the rows they were made for.
LEMMA WriteStep ==
    ASSUME IInv, NEW row \in Row, Justified(row, ledger), Write(row),
           \A w \in Callers : op'[w] = op[w] \/ op'[w] = Idle,
           op' \in [Callers -> {Idle} \cup [kind : Kinds, row : RowIds]]
    PROVE  IInv'
<1>1. LedgerTypeOK' /\ LedgerOK'
  BY WriteType, WriteSound DEF IInv, TypeOK
<1>2. /\ \A j \in RowIds : ledger'[j] = ledger[j] /\ j \in RowIds'
      /\ RowIds \subseteq RowIds'
  BY AppendRow DEF IInv, TypeOK, LedgerTypeOK, Write, RowIds
<1>3. TypeOK'
  BY <1>1, <1>2 DEF TypeOK
<1>4. OpsOnTarget'
  <2> SUFFICES ASSUME NEW w \in Callers, op'[w] # Idle
               PROVE  /\ op'[w].kind = "reverse" => ledger'[op'[w].row].amount > 0
                      /\ op'[w].kind = "mature" => ledger'[op'[w].row].type = "CONVERSION_CREDIT"
                      /\ op'[w].kind \in Resolutions => ledger'[op'[w].row].type = "PAYOUT_LOCK"
    BY DEF OpsOnTarget, Idle, Resolutions
  <2>1. op'[w] = op[w] /\ op[w].row \in RowIds
    BY DEF IInv, TypeOK
  <2> QED
    BY <1>2, <2>1 DEF IInv, OpsOnTarget
<1> QED
  BY <1>1, <1>3, <1>4 DEF IInv

\* A step that only opens or closes a caller's transaction.
LEMMA CallerStepType ==
    ASSUME IInv, UNCHANGED ledgerVars, NEW w \in Callers, NEW o,
           o = Idle \/ (o \in [kind : Kinds, row : RowIds]),
           o.kind = "reverse" => ledger[o.row].amount > 0,
           o.kind = "mature" => ledger[o.row].type = "CONVERSION_CREDIT",
           o.kind \in Resolutions => ledger[o.row].type = "PAYOUT_LOCK",
           op' = [op EXCEPT ![w] = o]
    PROVE  IInv'
<1>1. LedgerTypeOK' /\ LedgerOK' /\ RowIds' = RowIds /\ ledger' = ledger
  BY DEF IInv, TypeOK, ledgerVars, LedgerTypeOK, LedgerOK, ActionsMatchOrigin, RowIds,
         Shaped, FaithfulTo
<1>2. TypeOK'
  BY <1>1 DEF IInv, TypeOK
<1>3. OpsOnTarget'
  BY <1>1 DEF IInv, TypeOK, OpsOnTarget
<1> QED
  BY <1>1, <1>2, <1>3 DEF IInv

-----------------------------------------------------------------------------
(* The rows the service writes.                                            *)

LEMMA NewRows ==
    ASSUME NEW u \in Users, NEW a \in Amounts
    PROVE  /\ \A hold \in {"timed", "indefinite"} : Justified(CreditRow(u, a, hold), ledger)
           /\ Justified(DebitRow(u, a), ledger)
           /\ Justified(LockRow(u, a), ledger)
<1>1. a \in Nat \ {0}
  BY AmountsAssumption
<1> QED
  BY <1>1 DEF CreditRow, DebitRow, LockRow, Justified, Shaped, Acting, Resolutions

LEMMA ReversalRowOK ==
    ASSUME IInv, NEW i \in RowIds, ledger[i].amount > 0
    PROVE  Justified(ReversalRow(i), ledger)
<1>1. /\ ledger[i].user \in Users /\ ledger[i].amount \in Int
      /\ i \in Nat /\ ledger[i].type = "CONVERSION_CREDIT"
  BY RowIdIsPosition DEF IInv, TypeOK, LedgerOK, Shaped, Row
<1>2. balance[ledger[i].user].pending \in Int
  BY <1>1, BoundsAssumption DEF IInv, TypeOK, LedgerTypeOK, Columns, Int32
<1> DEFINE m == Lesser(balance[ledger[i].user].pending, ledger[i].amount)
<1>3. m \in Int
  BY <1>1, <1>2 DEF Lesser
<1>4. ReversalRow(i) =
        [user |-> ledger[i].user, type |-> "CHARGEBACK_DEBIT", amount |-> -ledger[i].amount,
         pending |-> -m, available |-> m - ledger[i].amount, locked |-> 0,
         source |-> i, hold |-> "none"]
  BY DEF ReversalRow
<1> HIDE DEF m
<1> QED
  BY <1>1, <1>3, <1>4 DEF Justified, Shaped, Acting, FaithfulTo, RowIds, Resolutions

LEMMA MaturationRowOK ==
    ASSUME IInv, NEW i \in RowIds, ledger[i].type = "CONVERSION_CREDIT"
    PROVE  Justified(MaturationRow(i), ledger)
<1>1. ledger[i].user \in Users /\ ledger[i].amount \in Int /\ i \in Nat
  BY RowIdIsPosition DEF IInv, TypeOK, Row
<1> QED
  BY <1>1 DEF MaturationRow, Justified, Shaped, Acting, FaithfulTo, RowIds, Resolutions

LEMMA ResolutionRowOK ==
    ASSUME IInv, NEW i \in RowIds, ledger[i].type = "PAYOUT_LOCK", NEW type \in Resolutions
    PROVE  Justified(ResolutionRow(i, type), ledger)
<1>1. ledger[i].user \in Users /\ ledger[i].locked \in Int /\ ledger[i].locked > 0 /\ i \in Nat
  BY RowIdIsPosition DEF IInv, TypeOK, LedgerOK, Shaped, Row
<1> QED
  BY <1>1 DEF ResolutionRow, Justified, Shaped, Acting, FaithfulTo, RowIds, Resolutions

-----------------------------------------------------------------------------
LEMMA InitInv == Init => IInv
<1> SUFFICES ASSUME Init PROVE IInv
  OBVIOUS
<1>1. LedgerTypeOK /\ RowIds = {}
  BY LedgerInitType DEF Init
<1>3. TypeOK
  BY <1>1 DEF Init, TypeOK
<1>4. LedgerOK
  BY <1>1 DEF LedgerOK, ActionsMatchOrigin
<1>5. OpsOnTarget
  BY DEF Init, OpsOnTarget, Idle, Resolutions
<1> QED
  BY <1>3, <1>4, <1>5 DEF IInv

\* A caller that commits the row its check was made for.
LEMMA CommitInv ==
    ASSUME IInv, NEW w \in Callers, NEW row \in Row, Justified(row, ledger), Committed(w, row)
    PROVE  IInv'
<1>1. /\ \A x \in Callers : op'[x] = op[x] \/ op'[x] = Idle
      /\ op' \in [Callers -> {Idle} \cup [kind : Kinds, row : RowIds]]
  BY DEF IInv, TypeOK, Committed
<1> QED
  BY <1>1, WriteStep DEF Committed

LEMMA NextInv == IInv /\ [Next]_vars => IInv'
<1> SUFFICES ASSUME IInv, [Next]_vars PROVE IInv'
  OBVIOUS
<1>1. ASSUME NEW u \in Users, OpenAccount(u), UNCHANGED op PROVE IInv'
  <2>1. LedgerTypeOK' /\ LedgerOK' /\ RowIds' = RowIds /\ ledger' = ledger
    BY <1>1 DEF OpenAccount, IInv, TypeOK, LedgerTypeOK, LedgerOK, ActionsMatchOrigin, RowIds,
                Shaped, FaithfulTo
  <2> QED
    BY <1>1, <2>1 DEF IInv, TypeOK, OpsOnTarget
<1>2. ASSUME NEW row \in Row, Justified(row, ledger), Write(row), UNCHANGED op PROVE IInv'
  BY <1>2, WriteStep DEF IInv, TypeOK
<1>3. ASSUME NEW u \in Users, NEW a \in Amounts, UNCHANGED op,
             (\E hold \in {"timed", "indefinite"} : Credit(u, a, hold)) \/ Debit(u, a) \/ Lock(u, a)
      PROVE  IInv'
  BY <1>2, <1>3, NewRows, NewRowTypes DEF Credit, Debit, Lock
<1>4. ASSUME NEW w \in Callers, NEW i \in RowIds, ReverseCheck(w, i) PROVE IInv'
  <2> DEFINE o == [kind |-> "reverse", row |-> i]
  <2>1. o \in [kind : Kinds, row : RowIds] /\ UNCHANGED ledgerVars /\ op' = [op EXCEPT ![w] = o]
    BY <1>4 DEF ReverseCheck, Passed, Kinds
  <2> QED
    BY <1>4, <2>1, CallerStepType DEF ReverseCheck, CanReverse, Resolutions
<1>5. ASSUME NEW w \in Callers, NEW i \in RowIds, MatureCheck(w, i) PROVE IInv'
  <2> DEFINE o == [kind |-> "mature", row |-> i]
  <2>1. o \in [kind : Kinds, row : RowIds] /\ UNCHANGED ledgerVars /\ op' = [op EXCEPT ![w] = o]
    BY <1>5 DEF MatureCheck, Passed, Kinds
  <2> QED
    BY <1>5, <2>1, CallerStepType DEF MatureCheck, CanMature, Resolutions
<1>6. ASSUME NEW w \in Callers, NEW i \in RowIds, NEW type \in Resolutions,
             ResolveCheck(w, i, type)
      PROVE  IInv'
  <2> DEFINE o == [kind |-> type, row |-> i]
  <2>1. o \in [kind : Kinds, row : RowIds] /\ UNCHANGED ledgerVars /\ op' = [op EXCEPT ![w] = o]
    BY <1>6 DEF ResolveCheck, Passed, Kinds
  <2> QED
    BY <1>6, <2>1, CallerStepType DEF ResolveCheck, CanResolve, Resolutions
<1>7. ASSUME NEW w \in Callers, Reverse(w) PROVE IInv'
  <2>1. op[w].row \in RowIds /\ ledger[op[w].row].amount > 0
    BY <1>7 DEF Reverse, IInv, TypeOK, OpsOnTarget, Idle
  <2> QED
    BY <1>7, <2>1, ReversalRowOK, ReversalRowType, CommitInv DEF Reverse, IInv, TypeOK
<1>8. ASSUME NEW w \in Callers, Mature(w) PROVE IInv'
  <2>1. op[w].row \in RowIds /\ ledger[op[w].row].type = "CONVERSION_CREDIT"
    BY <1>8 DEF Mature, IInv, TypeOK, OpsOnTarget, Idle
  <2> QED
    BY <1>8, <2>1, MaturationRowOK, MaturationRowType, CommitInv DEF Mature, IInv, TypeOK
<1>9. ASSUME NEW w \in Callers, ResolveLock(w) PROVE IInv'
  <2>1. op[w].row \in RowIds /\ ledger[op[w].row].type = "PAYOUT_LOCK" /\ op[w].kind \in Resolutions
    BY <1>9 DEF ResolveLock, IInv, TypeOK, OpsOnTarget, Idle, Resolutions
  <2> QED
    BY <1>9, <2>1, ResolutionRowOK, ResolutionRowType, CommitInv DEF ResolveLock, IInv, TypeOK
<1>10. ASSUME NEW w \in Callers, Abort(w) PROVE IInv'
  BY <1>10, CallerStepType DEF Abort, Idle, Resolutions
<1>11. CASE UNCHANGED vars
  BY <1>11 DEF vars, IInv, TypeOK, LedgerTypeOK, LedgerOK, ActionsMatchOrigin, OpsOnTarget, RowIds,
               Shaped, FaithfulTo
<1>12. ASSUME Movement, UNCHANGED op PROVE IInv'
  BY <1>1, <1>3, <1>12 DEF Movement
<1>13. ASSUME NEW w \in Callers, CallerStep(w) PROVE IInv'
  BY <1>4, <1>5, <1>6, <1>7, <1>8, <1>9, <1>10, <1>13 DEF CallerStep
<1> QED
  BY <1>11, <1>12, <1>13 DEF Next

\* RewardAccounting never leaves its types, for any users, callers and bounds:
\* every column of every balance fits the column's width at all times.
THEOREM TypeCorrect == Spec => []TypeOK
<1>1. IInv => TypeOK
  BY DEF IInv
<1> QED
  BY <1>1, InitInv, NextInv, PTL DEF Spec

\* However the callers interleave, every chargeback, maturation, settlement and
\* refund acts on an earlier row of the same user and moves exactly its points.
THEOREM ActionsMatch == Spec => []ActionsMatchOrigin
<1>1. IInv => ActionsMatchOrigin
  BY DEF IInv, LedgerOK
<1> QED
  BY <1>1, InitInv, NextInv, PTL DEF Spec

\* Every row of the history conserves points.
THEOREM RowsConserved == Spec => []RowsConserve
<1>1. IInv => RowsConserve
  BY DEF IInv, LedgerOK, Shaped, RowsConserve
<1> QED
  BY <1>1, InitInv, NextInv, PTL DEF Spec

-----------------------------------------------------------------------------
\* What a write does to the available points, and that its row comes last.
LEMMA WriteAvailable ==
    ASSUME LedgerTypeOK, NEW row \in Row, Write(row), NEW u \in Users
    PROVE  /\ balance[u].available \in Int
           /\ u = row.user => balance'[u].available = balance[u].available + row.available
           /\ u # row.user => balance'[u].available = balance[u].available
           /\ ledger'[Len(ledger')] = row
<1>1. balance[u].available \in Int
  BY BoundsAssumption DEF LedgerTypeOK, Columns, Int32
<1>2. ledger'[Len(ledger')] = row
  BY AppendRow DEF LedgerTypeOK, Write
<1> QED
  BY <1>1, <1>2 DEF LedgerTypeOK, Write, Applied

\* A row that takes nothing from available, or that leaves at least nothing in
\* it, or that is a chargeback or an adjustment, is no forbidden overdraft.
LEMMA WriteOverdraft ==
    ASSUME LedgerTypeOK, NEW row \in Row, Write(row),
           \/ row.available >= 0
           \/ balance[row.user].available + row.available >= 0
           \/ row.type \in {"CHARGEBACK_DEBIT", "MANUAL_ADJUSTMENT"}
    PROVE  OverdraftIsDebit
<1>1. row.available \in Int
  BY DEF Row
<1> QED
  BY <1>1, WriteAvailable DEF OverdraftIsDebit

LEMMA NextOverdraft == IInv /\ [Next]_vars => [OverdraftIsDebit]_vars
<1> SUFFICES ASSUME IInv, Next PROVE OverdraftIsDebit \/ UNCHANGED vars
  OBVIOUS
<1>0. LedgerTypeOK
  BY DEF IInv, TypeOK
<1>1. ASSUME UNCHANGED balance PROVE OverdraftIsDebit
  <2>1. \A u \in Users : balance[u].available \in Int
    BY <1>0, BoundsAssumption DEF LedgerTypeOK, Columns, Int32
  <2> QED
    BY <1>1, <2>1 DEF OverdraftIsDebit
<1>2. ASSUME NEW u \in Users, NEW a \in Amounts, NEW hold \in {"timed", "indefinite"},
             Credit(u, a, hold)
      PROVE  OverdraftIsDebit
  <2> DEFINE row == CreditRow(u, a, hold)
  <2>1. row \in Row /\ Write(row)
    BY <1>2, NewRowTypes DEF Credit
  <2>2. row.available >= 0
    BY DEF CreditRow
  <2> HIDE DEF row
  <2> QED
    BY <1>0, <2>1, <2>2, WriteOverdraft
<1>3. ASSUME NEW u \in Users, NEW a \in Amounts, Debit(u, a) PROVE OverdraftIsDebit
  BY <1>0, <1>3, NewRowTypes, WriteOverdraft DEF Debit, DebitRow
<1>4. ASSUME NEW u \in Users, NEW a \in Amounts, Lock(u, a) PROVE OverdraftIsDebit
  <2>1. LockRow(u, a) \in Row /\ Write(LockRow(u, a)) /\ LockRow(u, a).user = u
    BY <1>4, NewRowTypes DEF Lock, LockRow
  <2>2. balance[u].available + LockRow(u, a).available >= 0
    BY <1>0, <1>4, AmountsAssumption, BoundsAssumption
       DEF Lock, LockRow, LedgerTypeOK, Columns, Int32
  <2> QED
    BY <1>0, <2>1, <2>2, WriteOverdraft
<1>5. ASSUME NEW w \in Callers, Reverse(w) PROVE OverdraftIsDebit
  <2>1. op[w].row \in RowIds /\ ledger[op[w].row].amount > 0
    BY <1>5 DEF Reverse, IInv, TypeOK, OpsOnTarget, Idle
  <2>2. ReversalRow(op[w].row) \in Row /\ ReversalRow(op[w].row).type = "CHARGEBACK_DEBIT"
    BY <1>0, <2>1, ReversalRowType DEF ReversalRow
  <2> QED
    BY <1>0, <1>5, <2>2, WriteOverdraft DEF Reverse, Committed
<1>6. ASSUME NEW w \in Callers, Mature(w) PROVE OverdraftIsDebit
  <2>1. op[w].row \in RowIds /\ ledger[op[w].row].type = "CONVERSION_CREDIT"
    BY <1>6 DEF Mature, IInv, TypeOK, OpsOnTarget, Idle
  <2> DEFINE row == MaturationRow(op[w].row)
  <2>2. row \in Row
    BY <1>0, <2>1, MaturationRowType
  <2>3. ledger[op[w].row].amount > 0 /\ ledger[op[w].row].amount \in Int
    BY <1>0, <2>1, RowIdIsPosition DEF IInv, LedgerOK, Shaped, Row
  <2>4. row.available >= 0
    BY <2>3 DEF MaturationRow
  <2>5. Write(row)
    BY <1>6 DEF Mature, Committed
  <2> HIDE DEF row
  <2> QED
    BY <1>0, <2>2, <2>4, <2>5, WriteOverdraft
<1>7. ASSUME NEW w \in Callers, ResolveLock(w) PROVE OverdraftIsDebit
  <2>1. op[w].row \in RowIds /\ ledger[op[w].row].type = "PAYOUT_LOCK" /\ op[w].kind \in Resolutions
    BY <1>7 DEF ResolveLock, IInv, TypeOK, OpsOnTarget, Idle, Resolutions
  <2> DEFINE row == ResolutionRow(op[w].row, op[w].kind)
  <2>2. row \in Row
    BY <1>0, <2>1, ResolutionRowType
  <2>3. ledger[op[w].row].locked > 0 /\ ledger[op[w].row].locked \in Int
    BY <1>0, <2>1, RowIdIsPosition DEF IInv, LedgerOK, Shaped, Row
  <2>4. row.available >= 0
    BY <2>3 DEF ResolutionRow
  <2>5. Write(row)
    BY <1>7 DEF ResolveLock, Committed
  <2> HIDE DEF row
  <2> QED
    BY <1>0, <2>2, <2>4, <2>5, WriteOverdraft
<1>8. ASSUME NEW w \in Callers, CallerStep(w) PROVE OverdraftIsDebit
  BY <1>1, <1>5, <1>6, <1>7, <1>8
     DEF CallerStep, ReverseCheck, MatureCheck, ResolveCheck, Passed, Abort, ledgerVars
<1>9. ASSUME Movement PROVE OverdraftIsDebit
  BY <1>1, <1>2, <1>3, <1>4, <1>9 DEF Movement, OpenAccount
<1> QED
  BY <1>8, <1>9 DEF Next

\* No withdrawal leaves a negative available balance, whatever runs beside it:
\* only a chargeback or an adjustment overdraws.
THEOREM NoOverdraft == Spec => OnlyDebitsOverdraw
  BY InitInv, NextInv, NextOverdraft, PTL DEF Spec, OnlyDebitsOverdraw

-----------------------------------------------------------------------------
\* A step writes one row, or leaves balances and history alone.
LEMMA NextWrites ==
    ASSUME IInv, [Next]_vars
    PROVE  (\E row \in Row : Write(row)) \/ UNCHANGED <<balance, ledger>>
<1>0. LedgerTypeOK
  BY DEF IInv, TypeOK
<1>1. ASSUME Movement PROVE (\E row \in Row : Write(row)) \/ UNCHANGED <<balance, ledger>>
  BY <1>1, NewRowTypes DEF Movement, OpenAccount, Credit, Debit, Lock
<1>2. ASSUME NEW w \in Callers, Reverse(w) PROVE \E row \in Row : Write(row)
  <2>1. op[w].row \in RowIds
    BY <1>2 DEF Reverse, IInv, TypeOK, Idle
  <2> QED
    BY <1>0, <1>2, <2>1, ReversalRowType DEF Reverse, Committed
<1>3. ASSUME NEW w \in Callers, Mature(w) PROVE \E row \in Row : Write(row)
  <2>1. op[w].row \in RowIds
    BY <1>3 DEF Mature, IInv, TypeOK, Idle
  <2> QED
    BY <1>0, <1>3, <2>1, MaturationRowType DEF Mature, Committed
<1>4. ASSUME NEW w \in Callers, ResolveLock(w) PROVE \E row \in Row : Write(row)
  <2>1. op[w].row \in RowIds /\ op[w].kind \in Resolutions
    BY <1>4 DEF ResolveLock, IInv, TypeOK, Idle, Resolutions
  <2> QED
    BY <1>0, <1>4, <2>1, ResolutionRowType DEF ResolveLock, Committed
<1>5. ASSUME NEW w \in Callers, CallerStep(w)
      PROVE  (\E row \in Row : Write(row)) \/ UNCHANGED <<balance, ledger>>
  BY <1>2, <1>3, <1>4, <1>5
     DEF CallerStep, ReverseCheck, MatureCheck, ResolveCheck, Passed, Abort, ledgerVars
<1> QED
  BY <1>1, <1>5 DEF Next, vars

\* The nightly reconciliation never finds drift (reconcile): for any number of
\* users, callers and rows, each bucket of each balance is the sum of its
\* user's history, and so are the lifetime totals.
THEOREM Reconciled == Spec => []Reconciles
<1>1. Init => Reconciles
  BY LedgerInitType, EmptyReconciles DEF Init, LedgerInit
<1>2. ASSUME IInv, Reconciles, [Next]_vars PROVE Reconciles'
  <2>1. LedgerTypeOK
    BY <1>2 DEF IInv, TypeOK
  <2> QED
    BY <1>2, <2>1, NextWrites, WriteReconciles, StillReconciles
<1> QED
  BY <1>1, <1>2, InitInv, NextInv, PTL DEF Spec
=============================================================================
