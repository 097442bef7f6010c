---------------------------- MODULE MCConversions ----------------------------
(***************************************************************************)
(* Conversions on a small instance, and the statements of the repository   *)
(* that the code does not keep.                                            *)
(***************************************************************************)
EXTENDS Conversions, TLC

CONSTANTS Customer, Earned, Reversal, SecondReversal, Unconfirmed

Symmetry == Permutations(Workers)

\* Events of one click of one user: one that earns, two chargebacks of it, and
\* one of the same payout that the provider has not confirmed.
Event(points, status, isReversal) ==
    [user |-> Customer, click |-> 1, points |-> points, status |-> status,
     isReversal |-> isReversal]

Events ==
    [p \in PostbackIds |->
        CASE p = Earned      -> Event(1, "approved", FALSE)
          [] p = Unconfirmed -> Event(1, "pending", FALSE)
          [] p \in {Reversal, SecondReversal} -> Event(1, "approved", TRUE)]

\* No job is "marked completed while the postback sat unprocessed".
CompletedIsProcessed ==
    \A p \in PostbackIds :
        jobs[p].state = "done" => postbacks[p] \in {"PROCESSED", "QUARANTINED"}

\* "A consistent lock order across every path is what prevents deadlocks".
LocksInOrder == \A w \in Workers, a \in Admins : ~Deadlocked(w, a)
=============================================================================
