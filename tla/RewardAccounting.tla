-------------------------- MODULE RewardAccounting --------------------------
(***************************************************************************)
(* RewardAccountingService as its concurrent callers drive it: the         *)
(* postback worker (credit, reverse), the maturation sweep (mature), the   *)
(* fraud review (mature, reverse) and the payout desk (lock, settleLock,   *)
(* releaseLock).                                                           *)
(*                                                                         *)
(* credit, debit and lock take the balance lock as the first statement of  *)
(* their transaction.  reverse, mature and resolveLock first read the row  *)
(* they act on and look for an earlier action on it, and only then lock    *)
(* the balance; under READ COMMITTED another caller can commit between the *)
(* two, so each is two steps here.                                         *)
(***************************************************************************)
EXTENDS RewardLedger

CONSTANT Callers  \* transactions that may be open at the same time

VARIABLE op       \* op[w]: the check caller w's open transaction has passed

vars == <<opened, balance, ledger, op>>

Idle == [kind |-> "idle", row |-> NoRow]

Kinds == {"reverse", "mature"} \cup Resolutions

\* Caller w's transaction has made its check for row i and goes on to lock.
Passed(w, kind, i) ==
    /\ op[w] = Idle
    /\ op' = [op EXCEPT ![w] = [kind |-> kind, row |-> i]]
    /\ UNCHANGED ledgerVars

\* It writes the row and commits, without looking at the ledger again.
Committed(w, row) ==
    /\ Write(row)
    /\ op' = [op EXCEPT ![w] = Idle]

-----------------------------------------------------------------------------
ReverseCheck(w, i) == CanReverse(i) /\ Passed(w, "reverse", i)

Reverse(w) ==
    /\ op[w].kind = "reverse"
    /\ Committed(w, ReversalRow(op[w].row))

MatureCheck(w, i) == CanMature(i) /\ Passed(w, "mature", i)

Mature(w) ==
    /\ op[w].kind = "mature"
    /\ Committed(w, MaturationRow(op[w].row))

ResolveCheck(w, i, type) == CanResolve(i) /\ Passed(w, type, i)

ResolveLock(w) ==
    /\ op[w].kind \in Resolutions
    /\ Committed(w, ResolutionRow(op[w].row, op[w].kind))

\* An error, a deadlock victim, a lost connection or a dead process: the
\* database rolls the open transaction back.
Abort(w) ==
    /\ op[w] # Idle
    /\ op' = [op EXCEPT ![w] = Idle]
    /\ UNCHANGED ledgerVars

Init == LedgerInit /\ op = [w \in Callers |-> Idle]

\* The movements that lock the balance before they look at anything.
Movement ==
    \E u \in Users :
        \/ OpenAccount(u)
        \/ \E a \in Amounts :
              \/ \E hold \in {"timed", "indefinite"} : Credit(u, a, hold)
              \/ Debit(u, a)
              \/ Lock(u, a)

CallerStep(w) ==
    \/ \E i \in RowIds :
          \/ ReverseCheck(w, i)
          \/ MatureCheck(w, i)
          \/ \E type \in Resolutions : ResolveCheck(w, i, type)
    \/ Reverse(w)
    \/ Mature(w)
    \/ ResolveLock(w)
    \/ Abort(w)

Next ==
    \/ Movement /\ UNCHANGED op
    \/ \E w \in Callers : CallerStep(w)

Spec == Init /\ [][Next]_vars

-----------------------------------------------------------------------------
(* Properties.                                                             *)

TypeOK ==
    /\ LedgerTypeOK
    /\ op \in [Callers -> {Idle} \cup [kind : Kinds, row : RowIds]]

\* What a row that acts on another must have in common with it: the user, the
\* kind of row it may act on, and exactly its size with the opposite sign.
FaithfulTo(row, origin) ==
    /\ row.user = origin.user
    /\ \/ /\ row.type = "CHARGEBACK_DEBIT"
          /\ origin.type = "CONVERSION_CREDIT"
          /\ row.pending + row.available = -origin.amount
          /\ row.locked = 0
       \/ /\ row.type = "REWARD_MATURATION"
          /\ origin.type = "CONVERSION_CREDIT"
          /\ row.pending = -origin.amount
          /\ row.available = origin.amount
       \/ /\ row.type \in Resolutions
          /\ origin.type = "PAYOUT_LOCK"
          /\ row.locked = -origin.locked
          /\ row.available \in {0, origin.locked}

\* Every chargeback, maturation, settlement and refund acts on a row that was
\* written before it, belongs to the same user, is of the kind that may be
\* acted on, and moves exactly that row's points: "an event that acts on an
\* earlier one is a new row pointing at it".  It holds however the checks and
\* the commits of different callers interleave.
ActionsMatchOrigin ==
    \A j \in RowIds :
        LET row == ledger[j] IN
        row.type \in {"CHARGEBACK_DEBIT", "REWARD_MATURATION"} \cup Resolutions
            => /\ row.source \in 1 .. (j - 1)
               /\ FaithfulTo(row, ledger[row.source])

\* The points a row adds to or takes from the user are the sum of what it does
\* to the three buckets, for every row: a movement between buckets earns
\* nothing, and nothing is earned or lost outside the buckets.
RowsConserve ==
    \A j \in RowIds :
        ledger[j].amount = ledger[j].pending + ledger[j].available + ledger[j].locked

\* A step that takes a user's available points below zero.
OverdraftIsDebit ==
    \A u \in Users :
        /\ balance'[u].available < 0
        /\ balance'[u].available < balance[u].available
        => ledger'[Len(ledger')].type \in {"CHARGEBACK_DEBIT", "MANUAL_ADJUSTMENT"}

\* Only a chargeback or an admin's adjustment may leave a user with a negative
\* available balance.  A withdrawal may not, whatever runs beside it.
OnlyDebitsOverdraw == [][OverdraftIsDebit]_vars
=============================================================================
