------------------------------ MODULE Withdrawals ------------------------------
(***************************************************************************)
(* Asking for a withdrawal: the page with its form, what it says, and      *)
(* PayoutsService.options and submit behind it.                            *)
(*                                                                         *)
(* The page is loaded from the balance and the settings, and the form      *)
(* holds to what it was loaded with.  A submission reads the settings      *)
(* again, counts the requests of the last day, and locks the points and    *)
(* creates the request in one transaction; administrators edit the         *)
(* settings meanwhile, and other tabs submit.                              *)
(*                                                                         *)
(* Nothing crosses users, so one is enough.  What becomes of a request is  *)
(* Payouts; that a process may read a setting from a cache that is         *)
(* outdated is Propagation: a read here yields a value of its own time.    *)
(***************************************************************************)
EXTENDS Integers, Sequences, FiniteSets, SequencesExt

CONSTANTS
    Tab,            \* submissions that may be under way at once
    Typed,          \* what is typed: points, a method, a destination that is legible or not
    FirstSettings,  \* payouts.*: the value of each key,
    Settings,       \* and the values an administrator may give it
    Unknown,        \* what could not be loaded
    Shut,           \* a tab with no form: no page, the error page, or a page that has none
    MaxAvailable,
    Movements,      \* points that are credited, or taken back
    MaxHappenings   \* presses, edits of settings, movements of points, and faults

ASSUME WithdrawalsAssumption ==
    /\ \A typed \in Typed : typed.amount \in Nat /\ typed.legible \in BOOLEAN
    /\ MaxAvailable \in Nat /\ MaxHappenings \in Nat /\ Movements \subseteq Int
    /\ IsFiniteSet(Tab) /\ Tab # {}

\* What the schemas of the keys let them be.
ASSUME SettingsAssumption ==
    \A key \in {"minimum", "maximum", "rate", "cap"} :
        {FirstSettings[key]} \cup Settings[key] \subseteq Nat \ {0}

VARIABLES
    settings,   \* the values each key has had, the one in force last
    funds,      \* the user's available points, and how often they fell
    requests,   \* payout_requests
    screen,     \* what each tab shows
    call,       \* what the web server does for each tab
    spent       \* the presses, edits, movements and faults so far

withdrawalVars == <<settings, funds, requests, screen, call, spent>>

-----------------------------------------------------------------------------
(* Settings *)

OptionKeys == {"methods", "minimum", "maximum", "rate", "currency"}
SettingKeys == OptionKeys \cup {"cap"}

\* How often each key was edited, and what a read that began then may find: each
\* key is read by itself, before what happened since or after it, so values may
\* come together that were never in force together.
Marks == [k \in SettingKeys |-> Len(settings[k])]

Since(marks) == {k \in SettingKeys : Len(settings[k]) > marks[k]}

Reads(marks, keys) ==
    {[k \in keys |-> IF k \in late THEN Last(settings[k]) ELSE settings[k][marks[k]]] :
        late \in SUBSET (keys \cap Since(marks))}

Happens == spent < MaxHappenings /\ spent' = spent + 1

\* An administrator gives a key another value.
EditSetting(k, value) ==
    /\ Happens
    /\ value # Last(settings[k])
    /\ settings' = [settings EXCEPT ![k] = Append(@, value)]
    /\ UNCHANGED <<funds, requests, screen, call>>

-----------------------------------------------------------------------------
(* The page *)

Waiting == [pc |-> "waiting"]

\* toCashMinor: whole minor units, rounded down.
CashMinor(points, rate) == (points * 100) \div rate

\* cashMinorFor, the form's own copy of it: nothing for what is no amount or rate.
CashMinorFor(points, rate) ==
    IF points <= 0 \/ rate <= 0 THEN 0 ELSE (points * 100) \div rate

BelowMinimum(s) == s.available # Unknown /\ s.available < s.options.minimum

\* The form is there when the rules are known and the minimum is within reach.
HasForm(s) == s.options # Unknown /\ ~BelowMinimum(s)

\* Mutant of EffectiveMax: the ceiling alone.
EffectiveMaxOf(s) == s.options.maximum

EffectiveMax(s) ==
    IF s.available # Unknown /\ s.available < s.options.maximum THEN s.available ELSE s.options.maximum

\* What the form lets through in a browser that heeds its attributes.
Fits(s, typed) ==
    /\ typed.method \in s.options.methods
    /\ typed.amount \in s.options.minimum..EffectiveMax(s)

Loading == [pc |-> "loading", marks |-> Marks, available |-> funds.available, falls |-> funds.falls]

\* The page, or what it shows, is loaded: the layout asks for the options and
\* the balance, and either may fail.
Load(t) ==
    /\ call[t] = Waiting
    /\ call' = [call EXCEPT ![t] = Loading]
    /\ UNCHANGED <<settings, funds, requests, screen, spent>>

Loaded(t) ==
    /\ call[t].pc = "loading"
    /\ \E options \in Reads(call[t].marks, OptionKeys) \cup {Unknown}, available \in {call[t].available, funds.available, Unknown} :
          LET page == [options |-> options, available |-> available,
                       marks |-> call[t].marks, falls |-> call[t].falls] IN
          screen' = [screen EXCEPT ![t] = IF HasForm(page) THEN page ELSE Shut]
    /\ call' = [call EXCEPT ![t] = Waiting]
    /\ UNCHANGED <<settings, funds, requests, spent>>

\* The form is submitted; it is open again before what follows a success is loaded.
PressSubmit(t, typed) ==
    /\ call[t].pc \in {"waiting", "loading"} /\ screen[t] # Shut
    /\ Happens
    /\ call' = [call EXCEPT ![t] =
          [pc |-> "reading", marks |-> Marks, press |-> spent', typed |-> typed, form |-> screen[t]]]
    /\ UNCHANGED <<settings, funds, requests, screen>>

-----------------------------------------------------------------------------
(* submit *)

\* The submission goes on with something in hand: rules, or an answer.
GoesOn(t, pc, in) ==
    call' = [call EXCEPT ![t] = [pc |-> pc, in |-> in, press |-> @.press, typed |-> @.typed, form |-> @.form]]

Answers(t, code) == GoesOn(t, "answering", code)

\* The pipe, then the method, the amount and the destination against the settings.
RefusalOf(typed, rules) ==
    CASE typed.amount < 1 -> "VALIDATION_FAILED"
      [] typed.amount >= 1 /\ typed.method \notin rules.methods -> "PAYOUT_METHOD_UNSUPPORTED"
      [] typed.amount >= 1 /\ typed.method \in rules.methods /\ typed.amount \notin rules.minimum..rules.maximum ->
            "PAYOUT_AMOUNT_OUT_OF_RANGE"
      [] OTHER -> IF typed.legible THEN "none" ELSE "PAYOUT_DESTINATION_INVALID"

ReadSettings(t) ==
    /\ call[t].pc = "reading"
    /\ \E rules \in Reads(call[t].marks, SettingKeys) :
          LET refusal == RefusalOf(call[t].typed, rules) IN
          IF refusal = "none"
          THEN GoesOn(t, "counting", [k \in {"cap", "rate", "currency"} |-> rules[k]])
          ELSE Answers(t, refusal)
    /\ UNCHANGED <<settings, funds, requests, screen, spent>>

RecentRequests == {i \in DOMAIN requests : requests[i].recent}

\* Mutant of WithinCap: the cap itself is passed.
WithinCapLoose(count, cap) == count <= cap

WithinCap(count, cap) == count < cap

\* assertWithinDailyCap, on no lock.
CountRequests(t) ==
    /\ call[t].pc = "counting"
    /\ IF WithinCap(Cardinality(RecentRequests), call[t].in.cap)
       THEN GoesOn(t, "locking", [k \in {"rate", "currency"} |-> call[t].in[k]])
       ELSE Answers(t, "PAYOUT_DAILY_LIMIT_REACHED")
    /\ UNCHANGED <<settings, funds, requests, screen, spent>>

RequestRow(c) ==
    [press |-> c.press, amount |-> c.typed.amount, method |-> c.typed.method, recent |-> TRUE,
     cash |-> CashMinor(c.typed.amount, c.in.rate), rate |-> c.in.rate, currency |-> c.in.currency]

\* The transaction: the points are locked under the balance's row lock and the
\* request created, or there are too few.
LockAndCreate(t) ==
    LET c == call[t] IN
    /\ c.pc = "locking"
    /\ IF funds.available >= c.typed.amount
       THEN /\ funds' = [available |-> funds.available - c.typed.amount, falls |-> funds.falls + 1]
            /\ requests' = Append(requests, RequestRow(c))
            /\ Answers(t, "done")
       ELSE /\ Answers(t, "INSUFFICIENT_BALANCE")
            /\ UNCHANGED <<funds, requests>>
    /\ UNCHANGED <<settings, screen, spent>>

\* A statement fails, or the answer to the commit is lost: the filter makes it an
\* internal error, whether or not the transaction is in.
BreakSubmission(t) ==
    /\ \/ call[t].pc \in {"reading", "counting", "locking"}
       \/ call[t].pc = "answering" /\ call[t].in = "done"
    /\ Happens
    /\ Answers(t, "INTERNAL_ERROR")
    /\ UNCHANGED <<settings, funds, requests, screen>>

-----------------------------------------------------------------------------
(* The answer *)

\* describe: the control a refusal is about, or the form as a whole.
FieldFor(code) ==
    CASE code \in {"VALIDATION_FAILED", "PAYOUT_AMOUNT_OUT_OF_RANGE"} -> "amountPoints"
      [] code = "PAYOUT_METHOD_UNSUPPORTED" -> "method"
      [] code = "PAYOUT_DESTINATION_INVALID" -> "destination"
      [] OTHER -> "form"

\* A success loads everything again; a refusal leaves what was loaded, except in
\* a browser without scripts.  The error page hears no answer.
ShowAnswer(t) ==
    /\ call[t].pc = "answering"
    /\ call' \in {[call EXCEPT ![t] = IF screen[t] = Shut THEN Waiting ELSE Loading]} \cup
                 (IF call[t].in = "done" THEN {} ELSE {[call EXCEPT ![t] = Waiting]})
    /\ UNCHANGED <<settings, funds, requests, screen, spent>>

\* The web server cannot reach the API any more: the tab shows the error page, and
\* the submission goes on without it.
LoseContact(t) ==
    /\ call[t].pc \in {"reading", "counting", "locking", "answering"}
    /\ Happens
    /\ screen' = [screen EXCEPT ![t] = Shut]
    /\ UNCHANGED <<settings, funds, requests, call>>

-----------------------------------------------------------------------------
\* Points become available, or are taken back.
MovePoints(points) ==
    /\ Happens
    /\ funds.available + points \in 0..MaxAvailable
    /\ funds' = [available |-> funds.available + points, falls |-> funds.falls + (IF points < 0 THEN 1 ELSE 0)]
    /\ UNCHANGED <<settings, requests, screen, call>>

\* A day has passed since the oldest request of the last day.
DayPasses ==
    \E i \in RecentRequests :
        /\ \A j \in RecentRequests : i <= j
        /\ requests' = [requests EXCEPT ![i].recent = FALSE]
        /\ UNCHANGED <<settings, funds, screen, call, spent>>

WithdrawalsInit ==
    /\ settings = [k \in SettingKeys |-> <<FirstSettings[k]>>]
    /\ funds = [available |-> MaxAvailable, falls |-> 0]
    /\ requests = <<>>
    /\ screen = [t \in Tab |-> Shut]
    /\ call = [t \in Tab |-> Waiting]
    /\ spent = 0

WithdrawalsNext ==
    \/ \E t \in Tab :
          \/ Load(t) \/ Loaded(t)
          \/ \E typed \in Typed : PressSubmit(t, typed)
          \/ ReadSettings(t) \/ CountRequests(t) \/ LockAndCreate(t) \/ BreakSubmission(t)
          \/ ShowAnswer(t) \/ LoseContact(t)
    \/ \E k \in SettingKeys : \E value \in Settings[k] : EditSetting(k, value)
    \/ \E points \in Movements : MovePoints(points)
    \/ DayPasses

WithdrawalsSpec == WithdrawalsInit /\ [][WithdrawalsNext]_withdrawalVars

-----------------------------------------------------------------------------
(* Properties *)

\* An account keeps to the daily cap, but for the submissions that were under
\* way together: the count is read on no lock (assertWithinDailyCap).
CapIsKept ==
    \E i \in 1..Len(settings["cap"]) :
        Cardinality(RecentRequests) < settings["cap"][i] + Cardinality(Tab)

\* What a submission is answered, and what the form had promised (submit,
\* options, describe, WithdrawForm.svelte): a request that is said to be
\* received is recorded as it was typed, and worth what the form said unless
\* the rate was edited since the page was loaded; a refusal leaves nothing
\* behind, but an internal error may; and what the form lets through is refused
\* only for something that has changed since, which is where the message stands.
FormsTellTheTruth ==
    \A t \in Tab :
        LET c == call[t]
            mine == {row \in Range(requests) : row.press = c.press}
            edited == Since(c.form.marks) IN
        c.pc = "answering" =>
           /\ c.in = "done" =>
                 \E row \in mine :
                    /\ row.amount = c.typed.amount /\ row.method = c.typed.method
                    /\ row.cash = CashMinorFor(c.typed.amount, c.form.options.rate) \/ "rate" \in edited
           /\ c.in \notin {"done", "INTERNAL_ERROR"} => mine = {}
           /\ c.in # "done" /\ Fits(c.form, c.typed) =>
                 CASE FieldFor(c.in) = "method" -> "methods" \in edited
                   [] FieldFor(c.in) = "amountPoints" -> edited \cap {"minimum", "maximum"} # {}
                   [] FieldFor(c.in) = "destination" -> ~c.typed.legible
                   [] FieldFor(c.in) = "form" ->
                         c.in = "INSUFFICIENT_BALANCE" => c.form.available = Unknown \/ funds.falls > c.form.falls
=============================================================================
