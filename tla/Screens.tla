-------------------------------- MODULE Screens --------------------------------
(***************************************************************************)
(* What is done in the web application, on small instances: accounts and   *)
(* the sessions of a browser, asking for a withdrawal, lists that are      *)
(* paged through, with the sweep that pages over the balances, the         *)
(* administrators' consoles, and the offer wall with its clicks.           *)
(*                                                                         *)
(* These share no state, so a behaviour has one part that moves, chosen at *)
(* the start, and the rest of the state stands still.                      *)
(***************************************************************************)
EXTENDS WebSession, Withdrawals, Lists, Consoles, Wall

VARIABLE part   \* the part that moves

screenVars == <<part, webVars, withdrawalVars, listVars, consoleVars, wallVars>>

-----------------------------------------------------------------------------
(* Instances *)

\* One point or two are typed, or a destination that nobody can read; two are taken
\* back at a time, and one is credited.
MCTyped ==
    {[amount |-> n, method |-> "m1", legible |-> TRUE] : n \in 1..2} \cup
    {[amount |-> 1, method |-> "m1", legible |-> FALSE]}
MCMovements == {-2, 1}

\* The methods, the minimum and the rate can be edited so that what the form
\* allowed is refused, or worth something else.
MCFirstSettings ==
    [methods |-> {"m1"}, minimum |-> 1, maximum |-> 2, rate |-> 3, currency |-> "c1", cap |-> 1]
MCSettings ==
    [methods |-> {{"m2"}}, minimum |-> {2}, maximum |-> {}, rate |-> {2}, currency |-> {}, cap |-> {}]

\* One provider and two offers; the second process lacks a credential that some
\* builds of the adapter need, and other builds cannot bring it up at all.
MCSlugOf == [d \in Deal |-> "p1"]
MCDeployed ==
    [s \in Server \cup {Syncer} |->
        [p \in Slug |-> IF s = "web2" THEN {"secret"} ELSE {"secret", "affiliate_id"}]]
MCAdapter ==
    [slug |-> "p1", scheme |-> "hmac_sha256", ranges |-> FALSE, declares |-> Capabilities,
     needs |-> {"secret", "affiliate_id"}, constructs |-> TRUE, implements |-> Capabilities]
MCBuilds ==
    [Slug -> {None, MCAdapter, [MCAdapter EXCEPT !.needs = {"secret"}],
              [MCAdapter EXCEPT !.scheme = "ip_allowlist"]}]

\* An offer that may come to be worth nothing, whose tracking URL asks for more
\* than there is; one that is worth more than the catalog has; one in another
\* currency; and one whose tracking URL lacks what is needed.
MCCampaign ==
    {[payout |-> c[1], currency |-> c[2], template |-> c[3], devices |-> {"mobile"}] :
        c \in {<<1, "USD", "partial">>, <<4, "USD", "whole">>, <<4, "EUR", "whole">>, <<4, "USD", "without sub id">>}}
MCRateValues ==
    [pointsPerMinorUnit |-> {1}, rewardSharePercent |-> {50, 100}, accountingCurrency |-> {"USD"}]

\* The tabs of a withdrawal and of a console are the callers of the accounts: one
\* permutation serves all.
Symmetry == Permutations(Caller) \cup Permutations(User)

-----------------------------------------------------------------------------
ScreensInit ==
    /\ WebInit /\ WithdrawalsInit /\ ListsInit /\ ConsolesInit /\ WallInit
    /\ part \in {"session", "withdrawal", "lists", "sweep", "consoles", "wall"}
    /\ part # "lists" => kind.list = "queue"
    /\ part # "wall" => adapters \in [Slug -> {MCAdapter}]

ScreensNext ==
    /\ UNCHANGED part
    /\ \/ part = "session" /\ WebNext /\ UNCHANGED <<withdrawalVars, listVars, consoleVars, wallVars>>
       \/ part = "withdrawal" /\ WithdrawalsNext /\ UNCHANGED <<webVars, listVars, consoleVars, wallVars>>
       \/ part = "lists" /\ ListsNext /\ UNCHANGED <<webVars, withdrawalVars, consoleVars, wallVars>>
       \/ part = "sweep" /\ SweepNext /\ UNCHANGED <<webVars, withdrawalVars, consoleVars, wallVars>>
       \/ part = "consoles" /\ ConsolesNext /\ UNCHANGED <<webVars, withdrawalVars, listVars, wallVars>>
       \/ part = "wall" /\ WallNext /\ UNCHANGED <<webVars, withdrawalVars, listVars, consoleVars>>

ScreensSpec == ScreensInit /\ [][ScreensNext]_screenVars
=============================================================================
