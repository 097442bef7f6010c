-------------------------------- MODULE Clicks --------------------------------
(***************************************************************************)
(* Clicks on the offers of a catalog: ClicksService.create.                *)
(*                                                                         *)
(* A request reads the offer, requires the provider, counts the user's and *)
(* the address's clicks of the last hour and inserts its own, each in a    *)
(* statement of its own and under no lock.                                 *)
(***************************************************************************)
EXTENDS Catalog

CONSTANTS
    Handler,        \* requests in progress
    Clicker,        \* users
    Address,
    Nowhere,        \* an address that is not known
    PerUser,        \* clicks.max_per_user_per_hour
    PerAddress      \* clicks.max_per_ip_per_hour

ASSUME ClicksAssumption ==
    /\ IsFiniteSet(Handler)
    /\ Nowhere \notin Address
    /\ PerUser \in Nat \ {0} /\ PerAddress \in Nat \ {0}

VARIABLES
    clicks,         \* clicks, and whether each is of the last hour
    creating        \* where each request stands

clickVars == <<clicks, creating>>

-----------------------------------------------------------------------------
Resting == [op |-> "resting"]

Creating(h, state) == creating' = [creating EXCEPT ![h] = state]

RecentOf(column, value) == {i \in DOMAIN clicks : clicks[i].recent /\ clicks[i][column] = value}

-----------------------------------------------------------------------------
\* create: the offer is required active,
RequireOffer(h, u, a, o) ==
    /\ creating[h] = Resting
    /\ Charge("clicks")
    /\ offers[o].standing = "active"
    /\ Creating(h, [op |-> "requiring", user |-> u, address |-> a, offer |-> o])
    /\ UNCHANGED <<offers, runs, health, enabled, waiting, scheduled, sync, pull, clock, clicks>>

\* and its provider enabled.
RequireProvider(h) ==
    /\ creating[h].op = "requiring"
    /\ Creating(h, IF enabled THEN [creating[h] EXCEPT !.op = "countingUser"] ELSE Resting)
    /\ UNCHANGED <<catalogVars, clicks>>

\* Mutant of WithinLimit: the limit itself is passed.
WithinLimitLoose(count, limit) == count <= limit

WithinLimit(count, limit) == count < limit

\* assertWithinRateLimits: the user's clicks, then the address's if it is known.
CountUser(h) ==
    LET c == creating[h] IN
    /\ c.op = "countingUser"
    /\ Creating(h, IF ~WithinLimit(Cardinality(RecentOf("user", c.user)), PerUser) THEN Resting
                   ELSE [c EXCEPT !.op = IF c.address = Nowhere THEN "inserting" ELSE "countingAddress"])
    /\ UNCHANGED <<catalogVars, clicks>>

CountAddress(h) ==
    LET c == creating[h] IN
    /\ c.op = "countingAddress"
    /\ Creating(h, IF WithinLimit(Cardinality(RecentOf("address", c.address)), PerAddress)
                   THEN [c EXCEPT !.op = "inserting"] ELSE Resting)
    /\ UNCHANGED <<catalogVars, clicks>>

\* The insert, before the redirect is answered.
Insert(h) ==
    LET c == creating[h] IN
    /\ c.op = "inserting"
    /\ clicks' = Append(clicks, [user |-> c.user, address |-> c.address, offer |-> c.offer, recent |-> TRUE])
    /\ Creating(h, Resting)
    /\ UNCHANGED catalogVars

\* An hour has passed since the oldest recent click.
HourPasses ==
    \E i \in DOMAIN clicks :
        /\ clicks[i].recent
        /\ \A j \in 1..(i - 1) : ~clicks[j].recent
        /\ clicks' = [clicks EXCEPT ![i].recent = FALSE]
        /\ UNCHANGED <<catalogVars, creating>>

ClicksInit ==
    /\ clicks = <<>>
    /\ creating = [h \in Handler |-> Resting]

ClicksNext ==
    \/ \E h \in Handler :
          \/ \E u \in Clicker, a \in Address \cup {Nowhere}, o \in Offer : RequireOffer(h, u, a, o)
          \/ RequireProvider(h) \/ CountUser(h) \/ CountAddress(h) \/ Insert(h)
    \/ HourPasses

\* Clicks, and the catalog they are on.
ClickingNext == (CatalogNext /\ UNCHANGED clickVars) \/ ClicksNext

ClicksSpec == CatalogInit /\ ClicksInit /\ [][ClickingNext]_<<catalogVars, clickVars>>

-----------------------------------------------------------------------------
(* Properties *)

\* The limits are passed by no more than the requests that were in progress
\* together: whoever counts later is refused (assertWithinRateLimits, which
\* accepts "one extra click" for a race of two).
OvershootIsBounded ==
    /\ \A u \in Clicker : Cardinality(RecentOf("user", u)) < PerUser + Cardinality(Handler)
    /\ \A a \in Address : Cardinality(RecentOf("address", a)) < PerAddress + Cardinality(Handler)
=============================================================================
