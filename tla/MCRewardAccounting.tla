------------------------- MODULE MCRewardAccounting -------------------------
(***************************************************************************)
(* RewardAccounting on a small instance, and what its comments say of the  *)
(* credits that were charged back and matured.                             *)
(***************************************************************************)
EXTENDS RewardAccounting, TLC

Symmetry == Permutations(Callers)

ActionsOn(i, types) ==
    Cardinality({j \in RowIds : ledger[j].source = i /\ ledger[j].type \in types})

\* "Two concurrent chargebacks for one conversion cannot both pass it", and mature
\* is "idempotent by construction": at most one chargeback and one maturation act
\* on a credit, and none matures after it was charged back.
ActedOnOnce ==
    \A i \in RowIds :
        /\ ActionsOn(i, {"CHARGEBACK_DEBIT"}) <= 1
        /\ ActionsOn(i, {"REWARD_MATURATION"}) <= 1
        /\ \A j, k \in RowIds :
              /\ ledger[j].source = i /\ ledger[j].type = "CHARGEBACK_DEBIT"
              /\ ledger[k].source = i /\ ledger[k].type = "REWARD_MATURATION"
              => k < j
=============================================================================
