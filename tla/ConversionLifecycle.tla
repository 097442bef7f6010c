------------------------- MODULE ConversionLifecycle -------------------------
(***************************************************************************)
(* What a conversion's status promises about its points.  A postback       *)
(* becomes at most one conversion, which enters at one of six standings    *)
(*                                                                         *)
(*      PENDING   ATTRIBUTED   REJECTED   HELD      earning nothing        *)
(*      CREDITED, waiting for its clock             earning                *)
(*      HELD,     waiting for a reviewer            earning                *)
(*                                                                         *)
(* and from there its points and its status move together: a reviewer      *)
(* frees what was held or takes it away, the clock frees what was          *)
(* credited, and a chargeback, in the step that records it, takes back     *)
(* whatever is left.  What was rejected or reversed never earns again.     *)
(*                                                                         *)
(* Where the points are is told, not how often a ledger was written: see   *)
(* ActedOnOnce for the chargeback that is booked twice.  Conversions       *)
(* implements it.                                                          *)
(***************************************************************************)
CONSTANT PostbackIds

VARIABLES
    status,  \* the status of a postback's conversion, "NONE" before it has one
    points   \* where the points are that it earned

vars == <<status, points>>

Unpaid == {"PENDING", "ATTRIBUTED", "HELD", "REJECTED"}

Init ==
    /\ status = [p \in PostbackIds |-> "NONE"]
    /\ points = [p \in PostbackIds |-> "none"]

Enter(p, to, where) ==
    /\ status[p] = "NONE"
    /\ status' = [status EXCEPT ![p] = to]
    /\ points' = [points EXCEPT ![p] = where]

Credit(p) == \E to \in {"CREDITED", "HELD"} : Enter(p, to, "waiting")
Note(p)   == \E to \in Unpaid : Enter(p, to, "none")

\* The chargeback p enters as it takes back the conversion of q.
TakeBack(p, q) ==
    /\ status[p] = "NONE" /\ status[q] # "NONE"
    /\ \E to \in Unpaid : status' = [status EXCEPT ![p] = to, ![q] = "REVERSED"]
    /\ points' = [points EXCEPT ![q] = IF @ = "none" THEN "none" ELSE "taken"]

\* A reviewer decides what is held, with the points it withholds if it has any.
Decide(p, to, where) ==
    /\ status[p] = "HELD"
    /\ points[p] \in {"none", "waiting"}
    /\ status' = [status EXCEPT ![p] = to]
    /\ points' = [points EXCEPT ![p] = IF @ = "none" THEN "none" ELSE where]

Clear(p)   == Decide(p, "CREDITED", "free")
Confirm(p) == Decide(p, "REJECTED", "taken")

\* The hold of a credited conversion has run out.
Mature(p) ==
    /\ status[p] = "CREDITED" /\ points[p] = "waiting"
    /\ points' = [points EXCEPT ![p] = "free"]
    /\ UNCHANGED status

Next ==
    \E p \in PostbackIds :
        \/ Credit(p) \/ Note(p)
        \/ \E q \in PostbackIds : TakeBack(p, q)
        \/ Clear(p) \/ Confirm(p) \/ Mature(p)

Spec == Init /\ [][Next]_vars
=============================================================================
