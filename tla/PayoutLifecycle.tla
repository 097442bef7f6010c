--------------------------- MODULE PayoutLifecycle ---------------------------
(***************************************************************************)
(* What the payout state machine promises: a request moves through         *)
(*                                                                         *)
(*      PENDING_REVIEW --> APPROVED --> PAID                               *)
(*            |               |                                            *)
(*         REJECTED         FAILED                                         *)
(*                                                                         *)
(* and the points it reserved move with it, in the same step: locked at    *)
(* submission, spent when it is paid, returned when it is rejected or the  *)
(* payment failed, and never both or twice.  Payouts implements it.        *)
(***************************************************************************)
CONSTANT PayoutIds

VARIABLES
    status,  \* the request's status, "NONE" before it exists
    funds    \* where the points it reserved are

vars == <<status, funds>>

Init ==
    /\ status = [p \in PayoutIds |-> "NONE"]
    /\ funds = [p \in PayoutIds |-> "none"]

Become(p, from, to, where) ==
    /\ status[p] = from
    /\ status' = [status EXCEPT ![p] = to]
    /\ funds' = [funds EXCEPT ![p] = where]

Submit(p)  == Become(p, "NONE", "PENDING_REVIEW", "locked")
Approve(p) == Become(p, "PENDING_REVIEW", "APPROVED", "locked")
Reject(p)  == Become(p, "PENDING_REVIEW", "REJECTED", "returned")
Settle(p)  == Become(p, "APPROVED", "PAID", "spent")
Fail(p)    == Become(p, "APPROVED", "FAILED", "returned")

Next ==
    \E p \in PayoutIds : Submit(p) \/ Approve(p) \/ Reject(p) \/ Settle(p) \/ Fail(p)

Spec == Init /\ [][Next]_vars
=============================================================================
