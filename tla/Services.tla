------------------------------- MODULE Services -------------------------------
(***************************************************************************)
(* The smaller services of the API, on small instances: the catalog with   *)
(* the clicks on it, the scoring of conversions, the throttles, the ranges *)
(* of sources, the intake of postbacks, the backups, and the screens of    *)
(* the administrators.                                                     *)
(*                                                                         *)
(* Catalog and Clicks share the offers and run together; Scoring runs over *)
(* clicks that were made before.  The others share no state with these or  *)
(* with each other, so a behaviour has one part that moves, chosen at the  *)
(* start, and the rest of the state stands still.                          *)
(***************************************************************************)
EXTENDS Scoring, Throttles, SourceRanges, Intake, Backups, Desk

VARIABLE part   \* the part that moves

vars == <<part, catalogVars, scoringVars, throttleVars, sourceVars, intakeVars, backupVars, deskVars>>

-----------------------------------------------------------------------------
(* Instances *)

\* What a behaviour of the catalog may spend: two runs; a run and administrators;
\* a run with faults; clicks, or fewer clicks and an administrator.
Budgets == { [syncs |-> 2, pulls |-> 0, clicks |-> 0, faults |-> 0],
             [syncs |-> 1, pulls |-> 2, clicks |-> 0, faults |-> 0],
             [syncs |-> 1, pulls |-> 0, clicks |-> 0, faults |-> 2],
             [syncs |-> 0, pulls |-> 0, clicks |-> 4, faults |-> 0],
             [syncs |-> 0, pulls |-> 1, clicks |-> 3, faults |-> 0] }
Nothing == [syncs |-> 0, pulls |-> 0, clicks |-> 0, faults |-> 0]

\* Two users click from one address; or one of them does so once more, and then
\* there is one click more than a scan returns; or one clicks from nowhere.
ClickBy(u, a) == [user |-> u, address |-> a, offer |-> CHOOSE o \in Offer : TRUE, recent |-> TRUE]
ClickPairs ==
    {clicked \in {<<ClickBy(u, a), ClickBy(v, a)>> : u \in Clicker, v \in Clicker, a \in Address} :
        clicked[1] # clicked[2]}
ClicksMade ==
    ClickPairs \cup {clicked \o <<clicked[1]>> : clicked \in ClickPairs}
               \cup {<<ClickBy(u, Nowhere)>> : u \in Clicker}

\* Of three clicks, only the first converts: a bound.
FewConvert ==
    Len(clicks) > 2 => \A w \in Worker : scoring[w] # Unemployed => scoring[w].click = 1

\* The settings of the rules: both velocities act at once, the others now and then.
Setting(threshold, action) == [enabled |-> TRUE, threshold |-> threshold, action |-> action]
MCSettings ==
    [enabled |-> TRUE, minimum |-> 2, disposable |-> {"listed"},
     rules |-> [USER_CONVERSION_VELOCITY |-> Setting(0, "HOLD"), IP_CONVERSION_VELOCITY |-> Setting(0, "REVIEW"),
                SHARED_IP_ACCOUNTS |-> Setting(1, "ALLOW"), IMPOSSIBLE_TIMING |-> Setting(30, "BLOCK"),
                CHARGEBACK_RATE |-> Setting(40, "BLOCK"), DISPOSABLE_EMAIL |-> Setting(1, "BLOCK")]]

\* The workers of different parts are the same model values, so one permutation
\* serves them all.
Symmetry == Permutations(Worker) \cup Permutations(Offer) \cup Permutations(Clicker)

-----------------------------------------------------------------------------
Init ==
    /\ CatalogInit /\ ScoringInit /\ ThrottlesInit /\ SourcesInit /\ IntakeInit /\ BackupsInit /\ DeskInit
    /\ creating = [h \in Handler |-> Resting]
    /\ part \in {"catalog", "scoring", "throttles", "sources", "intake", "backups", "desk"}
    /\ IF part = "catalog" THEN budget \in Budgets ELSE budget = Nothing
    /\ IF part = "scoring" THEN clicks \in ClicksMade ELSE clicks = <<>>

\* The steps of each part, and what it leaves alone.
Catalogs == /\ ClickingNext
            /\ UNCHANGED <<recorded, scoring, throttleVars, sourceVars, intakeVars, backupVars, deskVars>>

Scorings == /\ \/ ScoringNext /\ UNCHANGED catalogVars
               \/ HourPasses /\ UNCHANGED <<recorded, scoring>>
            /\ FewConvert'
            /\ UNCHANGED <<throttleVars, sourceVars, intakeVars, backupVars, deskVars>>

\* A list is emptied before another is set: a bound, and every list is reached.
Allowlists == IF ranges = {} THEN SourcesNext ELSE SetRanges({})

Rest(mine) == UNCHANGED <<catalogVars, scoringVars, mine>>

Next ==
    /\ UNCHANGED part
    /\ \/ part = "catalog" /\ Catalogs
       \/ part = "scoring" /\ Scorings
       \/ part = "throttles" /\ ThrottlesNext /\ Rest(<<sourceVars, intakeVars, backupVars, deskVars>>)
       \/ part = "sources" /\ Allowlists /\ Rest(<<throttleVars, intakeVars, backupVars, deskVars>>)
       \/ part = "intake" /\ IntakeNext /\ Rest(<<throttleVars, sourceVars, backupVars, deskVars>>)
       \/ part = "backups" /\ BackupsNext /\ Rest(<<throttleVars, sourceVars, intakeVars, deskVars>>)
       \/ part = "desk" /\ DeskNext /\ Rest(<<throttleVars, sourceVars, intakeVars, backupVars>>)

Spec == Init /\ [][Next]_vars
=============================================================================
