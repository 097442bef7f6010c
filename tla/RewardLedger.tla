---------------------------- MODULE RewardLedger ----------------------------
(***************************************************************************)
(* The two tables RewardAccountingService owns: user_balances, one row per *)
(* user, and reward_transactions, the append-only history of everything    *)
(* that ever moved a balance.  This module holds the state and the         *)
(* movements; who calls them, and how two callers interleave, is the       *)
(* subject of the modules that extend it (RewardAccounting, Payouts).      *)
(*                                                                         *)
(* A ledger row's id is its position in the ledger: ids are uuidv7, fresh  *)
(* and increasing.  source names the row a movement acts on                *)
(* (source_transaction_id), NoRow when it acts on none.  Labels, actors,   *)
(* reasons and the diagnostic version counter carry no decision and are    *)
(* left out.                                                               *)
(***************************************************************************)
EXTENDS Integers, Sequences, FiniteSets, Functions

CONSTANTS
    Users,      \* user ids
    Amounts,    \* point amounts a caller may name
    MaxPoints,  \* the largest value an INTEGER column holds (2^31 - 1)
    MaxRows     \* bound on the history kept by a model

ASSUME AmountsAssumption == Amounts \subseteq Nat \ {0}
ASSUME BoundsAssumption  == MaxPoints \in Nat /\ MaxRows \in Nat

VARIABLES
    opened,     \* users whose balance row exists
    balance,    \* user_balances, all zeros where no row exists
    ledger      \* reward_transactions, in commit order

ledgerVars == <<opened, balance, ledger>>

-----------------------------------------------------------------------------
NoRow == 0

RowTypes == {"CONVERSION_CREDIT", "REWARD_MATURATION", "CHARGEBACK_DEBIT",
             "MANUAL_ADJUSTMENT", "PAYOUT_LOCK", "PAYOUT_SETTLE", "PAYOUT_REFUND"}

\* maturesAt is a date, or null: an indefinite hold no clock will end.
Holds == {"timed", "indefinite", "none"}

Row == [user : Users, type : RowTypes, amount : Int, pending : Int,
        available : Int, locked : Int, source : Nat, hold : Holds]

Columns == {"pending", "available", "locked", "earned", "withdrawn", "reversed"}

\* A Postgres INTEGER: an update that leaves the range is an error, and the
\* transaction it belongs to is rolled back.
Int32 == (-MaxPoints - 1) .. MaxPoints

ZeroBalance == [c \in Columns |-> 0]
NoLifetime  == [earned |-> 0, withdrawn |-> 0, reversed |-> 0]

RowIds == 1 .. Len(ledger)

\* Some row of one of these types acts on row i.
ActedOn(i, types) ==
    \E j \in RowIds : ledger[j].source = i /\ ledger[j].type \in types

\* The smaller of two integers, Math.min.
Lesser(m, n) == IF m <= n THEN m ELSE n

-----------------------------------------------------------------------------
(* The rows the service writes, one operator per movement.                 *)

CreditRow(u, a, hold) ==
    [user |-> u, type |-> "CONVERSION_CREDIT", amount |-> a, pending |-> a,
     available |-> 0, locked |-> 0, source |-> NoRow, hold |-> hold]

DebitRow(u, a) ==
    [user |-> u, type |-> "MANUAL_ADJUSTMENT", amount |-> -a, pending |-> 0,
     available |-> -a, locked |-> 0, source |-> NoRow, hold |-> "none"]

\* A chargeback of credit i takes from pending first, then from available; it
\* reads pending under the balance lock and never touches locked.
ReversalRow(i) ==
    LET credit == ledger[i]
        fromPending == Lesser(balance[credit.user].pending, credit.amount)
    IN  [user |-> credit.user, type |-> "CHARGEBACK_DEBIT", amount |-> -credit.amount,
         pending |-> -fromPending, available |-> fromPending - credit.amount,
         locked |-> 0, source |-> i, hold |-> "none"]

MaturationRow(i) ==
    [user |-> ledger[i].user, type |-> "REWARD_MATURATION", amount |-> 0,
     pending |-> -ledger[i].amount, available |-> ledger[i].amount,
     locked |-> 0, source |-> i, hold |-> "none"]

LockRow(u, a) ==
    [user |-> u, type |-> "PAYOUT_LOCK", amount |-> 0, pending |-> 0,
     available |-> -a, locked |-> a, source |-> NoRow, hold |-> "none"]

\* A settle is where points leave the user; a refund moves them back.
ResolutionRow(i, type) ==
    LET a == ledger[i].locked
    IN  [user |-> ledger[i].user, type |-> type,
         amount |-> IF type = "PAYOUT_SETTLE" THEN -a ELSE 0, pending |-> 0,
         available |-> IF type = "PAYOUT_SETTLE" THEN 0 ELSE a,
         locked |-> -a, source |-> i, hold |-> "none"]

\* Mutant of LifetimeOf: a chargeback is not counted as reversed.
LifetimeOfUnreversed(row) ==
    CASE row.type = "CONVERSION_CREDIT" -> [NoLifetime EXCEPT !.earned = row.amount]
      [] row.type = "PAYOUT_SETTLE"     -> [NoLifetime EXCEPT !.withdrawn = -row.amount]
      [] OTHER                          -> NoLifetime

\* The increments of the lifetime columns that go with a row.
LifetimeOf(row) ==
    CASE row.type = "CONVERSION_CREDIT" -> [NoLifetime EXCEPT !.earned = row.amount]
      [] row.type = "CHARGEBACK_DEBIT"  -> [NoLifetime EXCEPT !.reversed = -row.amount]
      [] row.type = "PAYOUT_SETTLE"     -> [NoLifetime EXCEPT !.withdrawn = -row.amount]
      [] OTHER                          -> NoLifetime

-----------------------------------------------------------------------------
(* lockBalance followed by write: the balance row is taken FOR UPDATE, the *)
(* history row inserted, the balance incremented, and the transaction      *)
(* commits.  Other transactions of the same user wait on the row lock, so  *)
(* the whole of it is one step; what a caller read BEFORE it is not.       *)

Applied(b, row) ==
    LET life == LifetimeOf(row)
    IN  [pending   |-> b.pending + row.pending,
         available |-> b.available + row.available,
         locked    |-> b.locked + row.locked,
         earned    |-> b.earned + life.earned,
         withdrawn |-> b.withdrawn + life.withdrawn,
         reversed  |-> b.reversed + life.reversed]

\* Mutant of Write: the balance may leave the range of its columns.
WriteUnbounded(row) ==
    /\ row.user \in opened
    /\ Len(ledger) < MaxRows
    /\ ledger' = Append(ledger, row)
    /\ balance' = [balance EXCEPT ![row.user] = Applied(@, row)]
    /\ UNCHANGED opened

Write(row) ==
    /\ row.user \in opened
    /\ Len(ledger) < MaxRows
    /\ \A c \in Columns : Applied(balance[row.user], row)[c] \in Int32
    /\ ledger' = Append(ledger, row)
    /\ balance' = [balance EXCEPT ![row.user] = Applied(@, row)]
    /\ UNCHANGED opened

\* openAccount: the row is created at zero, a second call changes nothing.
OpenAccount(u) ==
    /\ opened' = opened \cup {u}
    /\ UNCHANGED <<balance, ledger>>

Credit(u, a, hold) == Write(CreditRow(u, a, hold))

Debit(u, a) == Write(DebitRow(u, a))

\* Mutant of Lock: the available points are not looked at.
LockUnchecked(u, a) == Write(LockRow(u, a))

\* The one movement that refuses on insufficient funds, decided under the lock.
Lock(u, a) ==
    /\ balance[u].available >= a
    /\ Write(LockRow(u, a))

\* The checks reverse, mature and resolveLock make before they lock the balance.
CanReverse(i) ==
    /\ ledger[i].amount > 0
    /\ ~ActedOn(i, {"CHARGEBACK_DEBIT"})

\* mature takes any id; its two callers only ever pass a credit's.
CanMature(i) ==
    /\ ledger[i].type = "CONVERSION_CREDIT"
    /\ ~ActedOn(i, {"REWARD_MATURATION", "CHARGEBACK_DEBIT"})

CanResolve(i) ==
    /\ ledger[i].type = "PAYOUT_LOCK"
    /\ ~ActedOn(i, {"PAYOUT_SETTLE", "PAYOUT_REFUND"})

Resolutions == {"PAYOUT_SETTLE", "PAYOUT_REFUND"}

LedgerInit ==
    /\ opened = {}
    /\ balance = [u \in Users |-> ZeroBalance]
    /\ ledger = <<>>

LedgerTypeOK ==
    /\ opened \subseteq Users
    /\ balance \in [Users -> [Columns -> Int32]]
    /\ ledger \in Seq(Row)
    /\ Len(ledger) <= MaxRows

-----------------------------------------------------------------------------
(* Reconciliation.                                                         *)

\* The rows of a user of these types, and what a column of them adds up to.
RowsOf(u, types) == {j \in RowIds : ledger[j].user = u /\ ledger[j].type \in types}

Total(u, types, column) == SumFunction([j \in RowsOf(u, types) |-> ledger[j][column]])

\* reconcile: a balance against its own history, bucket by bucket, as one
\* snapshot sees them.
Drift(u) == [c \in {"pending", "available", "locked"} |-> balance[u][c] - Total(u, RowTypes, c)]

\* The nightly reconciliation never finds drift: the three deltas of a user's
\* rows sum to the three buckets, and the lifetime totals are what the credits,
\* chargebacks and settlements in the history add up to.
Reconciles ==
    \A u \in Users :
        /\ Drift(u) = [pending |-> 0, available |-> 0, locked |-> 0]
        /\ balance[u].earned = Total(u, {"CONVERSION_CREDIT"}, "amount")
        /\ balance[u].reversed = -Total(u, {"CHARGEBACK_DEBIT"}, "amount")
        /\ balance[u].withdrawn = -Total(u, {"PAYOUT_SETTLE"}, "amount")
=============================================================================
