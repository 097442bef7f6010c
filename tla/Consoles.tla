------------------------------- MODULE Consoles -------------------------------
(***************************************************************************)
(* Two consoles of the administrators: one setting with its value for      *)
(* everyone and for each provider, and the providers with their switches.  *)
(*                                                                         *)
(* Each is a form over what was loaded.  A setting is written with the     *)
(* version that was shown as its precondition; a provider is registered,   *)
(* switched or synchronized by what its card offered.  Two tabs, or two    *)
(* administrators, work at once.  There is one API process, whose registry *)
(* is a snapshot of the providers it has read; how others hear of a change *)
(* is Propagation, and what a synchronization does is Catalog.             *)
(***************************************************************************)
EXTENDS Integers, FiniteSets

CONSTANTS
    Desktop,        \* tabs of administrators
    Provider,       \* adapters this build has
    Broken,         \* those it cannot bring up: a credential is missing
    Value,          \* what the setting may be
    Bad,            \* what its schema refuses, and
    Garbled,        \* what is no JSON
    Nothing,        \* no row, no page, no call
    MaxPresses,     \* buttons pressed
    MaxFaults       \* reloads and enqueueings that fail

ASSUME ConsolesAssumption ==
    /\ Broken \subseteq Provider
    /\ {MaxPresses, MaxFaults} \subseteq Nat
    /\ Nothing \notin Nat    \* no row is no version

VARIABLES
    stored,     \* configuration_values of the key, by scope
    edits,      \* how often each of them was written or removed
    provider,   \* the rows of providers
    known,      \* the providers the registry has read
    sync,       \* of each provider: jobs in the queue, and how the last run ended
    sheet,      \* what each tab shows
    errand,     \* what the API does for it
    tally       \* presses and faults so far

consoleVars == <<stored, edits, provider, known, sync, sheet, errand, tally>>

-----------------------------------------------------------------------------
Global == "GLOBAL"
Scopes == Provider \cup {Global}

\* A call of the tab's form, with what the tab showed when it was pressed.
Press(t, op, request) ==
    /\ errand[t] = Nothing
    /\ tally.presses < MaxPresses
    /\ tally' = [tally EXCEPT !.presses = @ + 1]
    /\ errand' = [errand EXCEPT ![t] = [pc |-> op, form |-> sheet[t], request |-> request, code |-> "none", found |-> Nothing]]

Goes(t, pc) == errand' = [errand EXCEPT ![t].pc = pc]
Replies(t, code) == errand' = [errand EXCEPT ![t].pc = "answering", ![t].code = code]

Faults == tally.faults < MaxFaults /\ tally' = [tally EXCEPT !.faults = @ + 1]

-----------------------------------------------------------------------------
(* The setting *)

\* The page of one scope.  All rows of the key are on it.
SettingSheet(scope) == [screen |-> "setting", scope |-> scope, rows |-> stored, edits |-> edits]

\* A link, a reload, or what follows a success.  There is a page for every
\* provider that has a row.
OpenSetting(t, scope) ==
    /\ errand[t] = Nothing
    /\ scope # Global => provider[scope].registered
    /\ sheet' = [sheet EXCEPT ![t] = SettingSheet(scope)]
    /\ UNCHANGED <<stored, edits, provider, known, sync, errand, tally>>

OnSetting(t) == sheet[t] # Nothing /\ sheet[t].screen = "setting"

\* Mutant of VersionFor: the version is that of the value for everyone.
VersionForGlobal(rows, scope) == IF rows[Global] = Nothing THEN Nothing ELSE rows[Global].version

\* The version of the row being edited; none is a version too.
VersionFor(rows, scope) == IF rows[scope] = Nothing THEN Nothing ELSE rows[scope].version

\* parseValue: what is no JSON is stopped before anything is sent, whatever else
\* it may be is for the key's schema.
Parses(value) == value # Garbled

PressSet(t, value) ==
    /\ OnSetting(t) /\ Parses(value)
    /\ Press(t, "checking", [scope |-> sheet[t].scope, value |-> value,
                             expected |-> VersionFor(sheet[t].rows, sheet[t].scope)])
    /\ UNCHANGED <<stored, edits, provider, known, sync, sheet>>

\* There is something to remove at this scope.
PressReset(t) ==
    /\ OnSetting(t) /\ sheet[t].rows[sheet[t].scope] # Nothing
    /\ Press(t, "checking", [scope |-> sheet[t].scope, value |-> Nothing,
                             expected |-> VersionFor(sheet[t].rows, sheet[t].scope)])
    /\ UNCHANGED <<stored, edits, provider, known, sync, sheet>>

Locked(scope) == \E t \in Desktop : errand[t] # Nothing /\ errand[t].pc = "writing" /\ errand[t].request.scope = scope

\* assertNotStale: under the lock of the row, if there is one.
AssertNotStaleVersion(t) ==
    LET r == errand[t].request IN
    /\ errand[t] # Nothing /\ errand[t].pc = "checking"
    /\ stored[r.scope] # Nothing => ~Locked(r.scope)
    /\ IF VersionFor(stored, r.scope) # r.expected THEN Replies(t, "stale")
       ELSE IF r.value = Bad THEN Replies(t, "invalid")
       ELSE Goes(t, "writing")
    /\ UNCHANGED <<stored, edits, provider, known, sync, sheet, tally>>

\* Done, with what the write found stored before it.
Written(t) ==
    errand' = [errand EXCEPT ![t].pc = "answering", ![t].code = "done",
                             ![t].found = stored[errand[t].request.scope]]

\* set: the row is there with the value.
WriteSetting(t) ==
    LET r == errand[t].request IN
    /\ errand[t] # Nothing /\ errand[t].pc = "writing" /\ r.value # Nothing
    /\ edits' = [edits EXCEPT ![r.scope] = @ + 1]
    /\ stored' = [stored EXCEPT ![r.scope] = [value |-> r.value, version |-> edits'[r.scope]]]
    /\ Written(t)
    /\ UNCHANGED <<provider, known, sync, sheet, tally>>

\* reset: the row is gone; a reset of what is not set is done, and changes nothing.
ResetSetting(t) ==
    LET r == errand[t].request IN
    /\ errand[t] # Nothing /\ errand[t].pc = "writing" /\ r.value = Nothing
    /\ edits' = [edits EXCEPT ![r.scope] = IF stored[r.scope] = Nothing THEN @ ELSE @ + 1]
    /\ stored' = [stored EXCEPT ![r.scope] = Nothing]
    /\ Written(t)
    /\ UNCHANGED <<provider, known, sync, sheet, tally>>

-----------------------------------------------------------------------------
(* The providers *)

\* The cards, and whether the adapters could be listed for the form.
ProvidersSheet(listed) == [screen |-> "providers", rows |-> provider, listed |-> listed]

OpenProviders(t) ==
    /\ errand[t] = Nothing
    /\ \E listed \in BOOLEAN : sheet' = [sheet EXCEPT ![t] = ProvidersSheet(listed)]
    /\ UNCHANGED <<stored, edits, provider, known, sync, errand, tally>>

OnProviders(t) == sheet[t] # Nothing /\ sheet[t].screen = "providers"

\* The form lists the adapters that have no row.
PressRegister(t, p) ==
    /\ OnProviders(t) /\ sheet[t].listed /\ ~sheet[t].rows[p].registered
    /\ Press(t, "looking", [of |-> p])
    /\ UNCHANGED <<stored, edits, provider, known, sync, sheet>>

\* A card has the one switch its provider is not at.
PressSwitch(t, p) ==
    /\ OnProviders(t) /\ sheet[t].rows[p].registered
    /\ Press(t, "reading", [of |-> p, enabled |-> ~sheet[t].rows[p].enabled, sure |-> provider[p].announced])
    /\ UNCHANGED <<stored, edits, provider, known, sync, sheet>>

\* create: looked for, then inserted under the unique slug.
FindSlug(t) ==
    /\ errand[t] # Nothing /\ errand[t].pc = "looking"
    /\ IF provider[errand[t].request.of].registered THEN Replies(t, "conflict") ELSE Goes(t, "inserting")
    /\ UNCHANGED <<stored, edits, provider, known, sync, sheet, tally>>

InsertProvider(t) ==
    LET p == errand[t].request.of IN
    /\ errand[t] # Nothing /\ errand[t].pc = "inserting"
    /\ IF provider[p].registered
       THEN Replies(t, "broken") /\ UNCHANGED provider
       ELSE /\ provider' = [provider EXCEPT ![p].registered = TRUE]
            /\ Goes(t, "reloading")
    /\ UNCHANGED <<stored, edits, known, sync, sheet, tally>>

\* What the registry could not bring up, of what it has read.
Failures == known \cap Broken

\* setEnabled reads the row and holds it to the request.
ReadProvider(t) ==
    LET r == errand[t].request IN
    /\ errand[t] # Nothing /\ errand[t].pc = "reading"
    /\ IF provider[r.of].enabled = r.enabled \/ (r.enabled /\ r.of \in Failures)
       THEN Replies(t, "conflict")
       ELSE Goes(t, "switching")
    /\ UNCHANGED <<stored, edits, provider, known, sync, sheet, tally>>

WriteProvider(t) ==
    LET r == errand[t].request IN
    /\ errand[t] # Nothing /\ errand[t].pc = "switching"
    /\ provider' = [provider EXCEPT ![r.of].enabled = r.enabled, ![r.of].sure = r.sure,
                                    ![r.of].switches = @ + 1]
    /\ Goes(t, "reloading")
    /\ UNCHANGED <<stored, edits, known, sync, sheet, tally>>

\* After the commit the registry reads every row; if it cannot, the answer is an
\* error though the change is in.
ReloadRegistry(t) ==
    LET p == errand[t].request.of IN
    /\ errand[t] # Nothing /\ errand[t].pc = "reloading"
    /\ \/ /\ known' = {q \in Provider : provider[q].registered}
          /\ provider' = [provider EXCEPT ![p].announced = TRUE]
          /\ Replies(t, "done")
          /\ UNCHANGED tally
       \/ /\ Faults /\ Replies(t, "broken")
          /\ UNCHANGED <<known, provider>>
    /\ UNCHANGED <<stored, edits, sync, sheet>>

-----------------------------------------------------------------------------
(* Sync now *)

Syncable(row) == row.registered /\ row.enabled

PressSync(t, p) ==
    /\ OnProviders(t) /\ Syncable(sheet[t].rows[p])
    /\ Press(t, "queueing", [of |-> p])
    /\ UNCHANGED <<stored, edits, provider, known, sync, sheet>>

\* requestSync: audited, then queued, whatever the switch says by now.
QueueSync(t) ==
    LET p == errand[t].request.of IN
    /\ errand[t] # Nothing /\ errand[t].pc = "queueing"
    /\ \/ /\ sync' = [sync EXCEPT ![p].jobs = @ \cup {errand[t].form.rows[p].switches}]
          /\ Replies(t, "done")
          /\ UNCHANGED tally
       \/ Faults /\ Replies(t, "broken") /\ UNCHANGED sync
    /\ UNCHANGED <<stored, edits, provider, known, sheet>>

\* The worker reads the rows anew and refuses what is disabled or has no adapter,
\* which is a failed run; whether the network answers is Catalog.
RunSync(p, job) ==
    /\ job \in sync[p].jobs
    /\ sync' = [sync EXCEPT ![p].jobs = @ \ {job},
                            ![p].last = IF provider[p].enabled /\ p \notin Broken THEN "ran" ELSE "refused",
                            ![p].seen = job]
    /\ UNCHANGED <<stored, edits, provider, known, sheet, errand, tally>>

-----------------------------------------------------------------------------
(* The answer *)

\* A success loads the page again, in its time; a refusal leaves it, or has it
\* loaded in a browser without scripts.
HearAnswer(t) ==
    /\ errand[t] # Nothing /\ errand[t].pc = "answering"
    /\ errand' = [errand EXCEPT ![t] = Nothing]
    /\ sheet' \in {sheet, [sheet EXCEPT ![t] =
          IF sheet[t].screen = "setting" THEN SettingSheet(sheet[t].scope) ELSE ProvidersSheet(TRUE)]}
    /\ UNCHANGED <<stored, edits, provider, known, sync, tally>>

ConsolesInit ==
    /\ stored = [s \in Scopes |-> Nothing]
    /\ edits = [s \in Scopes |-> 0]
    /\ provider = [p \in Provider |-> [registered |-> FALSE, enabled |-> FALSE, switches |-> 0,
                                       announced |-> FALSE, sure |-> FALSE]]
    /\ known = {}
    /\ sync = [p \in Provider |-> [jobs |-> {}, last |-> "none", seen |-> 0]]
    /\ sheet = [t \in Desktop |-> Nothing]
    /\ errand = [t \in Desktop |-> Nothing]
    /\ tally = [presses |-> 0, faults |-> 0]

ConsolesNext ==
    \/ \E t \in Desktop :
          \/ \E scope \in Scopes : OpenSetting(t, scope)
          \/ \E value \in Value \cup {Bad, Garbled} : PressSet(t, value)
          \/ PressReset(t) \/ AssertNotStaleVersion(t) \/ WriteSetting(t) \/ ResetSetting(t)
          \/ OpenProviders(t)
          \/ \E p \in Provider : PressRegister(t, p) \/ PressSwitch(t, p) \/ PressSync(t, p)
          \/ FindSlug(t) \/ InsertProvider(t) \/ ReadProvider(t) \/ WriteProvider(t) \/ ReloadRegistry(t)
          \/ QueueSync(t) \/ HearAnswer(t)
    \/ \E p \in Provider : \E job \in sync[p].jobs : RunSync(p, job)

ConsolesSpec == ConsolesInit /\ [][ConsolesNext]_consoleVars

-----------------------------------------------------------------------------
(* Properties *)

\* What a console did and said is about what it showed (versionFor,
\* assertNotStale, setEnabled, requestSync, ProviderCard.svelte).  A value that
\* was stored replaced the row its form showed, at the scope of the form, unless
\* the form showed none; only a setting that was edited since is called stale; a
\* switch is refused only if it was turned since the card was loaded, or the
\* provider cannot be brought up; an adapter that cannot is never enabled by
\* someone who has heard that it is registered; and a synchronization that
\* could be asked for is refused only if the provider was switched since.
ConsolesTellTheTruth ==
    /\ \A t \in Desktop :
          errand[t] # Nothing /\ errand[t].pc = "answering" =>
             LET form == errand[t].form
                 r == errand[t].request IN
             IF form.screen = "setting"
             THEN /\ errand[t].code = "done" =>
                        r.scope = form.scope /\ (form.rows[r.scope] # Nothing => errand[t].found = form.rows[r.scope])
                  /\ errand[t].code = "stale" => edits[r.scope] > form.edits[r.scope]
             ELSE errand[t].code = "conflict" =>
                     \/ provider[r.of].registered # form.rows[r.of].registered
                     \/ provider[r.of].switches > form.rows[r.of].switches
                     \/ r.of \in Broken
    /\ \A p \in Provider :
          /\ p \in Broken /\ provider[p].enabled => ~provider[p].sure
          /\ sync[p].last = "refused" => p \in Broken \/ provider[p].switches > sync[p].seen
=============================================================================
