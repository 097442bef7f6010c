------------------------------- MODULE Scoring -------------------------------
(***************************************************************************)
(* How a conversion is scored before it is credited: FraudContextBuilder,  *)
(* FraudService.evaluate, the rule engine, and what score and persist do   *)
(* with the answer.                                                        *)
(*                                                                         *)
(* The counts the rules compare are read from the database one by one,     *)
(* before the transaction that records the conversion, so conversions that *)
(* are scored together do not see each other.  Only what the rules measure *)
(* is kept of a click and of a conversion; a window is "recent".           *)
(***************************************************************************)
EXTENDS Clicks

CONSTANTS
    Worker,         \* jobs that are processed at a time
    Null,
    Settings,       \* what the rules are configured to
    IpVelocityScanLimit,        \* clicks of an address whose ids are read
    SharedIdentityScanLimit,    \* strangers at an address who are counted
    MaxConversions  \* how many conversions there are

\* SHARED_DEVICE_ACCOUNTS is left out: SHARED_IP_ACCOUNTS, of another column.
Rules == {"USER_CONVERSION_VELOCITY", "IP_CONVERSION_VELOCITY", "SHARED_IP_ACCOUNTS",
          "IMPOSSIBLE_TIMING", "CHARGEBACK_RATE", "DISPOSABLE_EMAIL"}

\* A threshold is compared with integers only, and so is as good as its floor.
ASSUME ScoringAssumption ==
    /\ IsFiniteSet(Worker)
    /\ Null \notin Nat /\ Null # "ALLOW"
    /\ {IpVelocityScanLimit, SharedIdentityScanLimit} \subseteq Nat \ {0}
    /\ Settings.enabled \in BOOLEAN /\ Settings.minimum \in Nat \ {0}
    /\ Settings.rules \in [Rules -> [enabled : BOOLEAN, threshold : Nat,
                                     action : {"ALLOW", "HOLD", "REVIEW", "BLOCK"}]]

VARIABLES
    recorded,   \* the conversions, in the order they were persisted
    scoring     \* where each job stands

scoringVars == <<clickVars, recorded, scoring>>

-----------------------------------------------------------------------------
Severity == [ALLOW |-> 0, HOLD |-> 1, REVIEW |-> 2, BLOCK |-> 3]

\* The two counts that are velocities, and the three of the account, which are
\* read here in one step.
Reads == {"user", "address", "account"}

\* How long after the click the provider says it was, and the account's domain, of
\* which one at a time is out of the ordinary.
Facts == [elapsed : {-1, 0, 60}, domain : {"other"}] \cup [elapsed : {60}, domain : {"listed", Null}]

Unemployed == [op |-> "unemployed"]

Scores(w, state) == scoring' = [scoring EXCEPT ![w] = state]

\* The conversions of a user, and those within the window.
OfUser(u)        == {i \in DOMAIN recorded : clicks[recorded[i].click].user = u}
RecentlyRecorded == {i \in DOMAIN recorded : recorded[i].recent}

-----------------------------------------------------------------------------
(* The context *)

\* findIdsByIpSince: conversions are counted by the ids of these clicks, which
\* beyond the limit of the scan are any of them.
IdsByIp(a) ==
    LET all == RecentOf("address", a) IN
    IF Cardinality(all) <= IpVelocityScanLimit THEN {all}
    ELSE {ids \in SUBSET all : Cardinality(ids) = IpVelocityScanLimit}

\* countUserConversionsSince.
CountOfUser(u) == Cardinality(OfUser(u) \cap RecentlyRecorded)

\* countIpConversionsSince: of the clicks of the window, not of the conversions'.
CountOfAddress(a, ids) ==
    IF a = Nowhere THEN Null
    ELSE Cardinality({i \in RecentlyRecorded : recorded[i].click \in ids})

\* countOtherAccountsSharingIp: strangers, and so never the user scored.
Sharing(a, u) ==
    LET strangers == {clicks[i].user : i \in RecentOf("address", a)} \ {u} IN
    IF Cardinality(strangers) <= SharedIdentityScanLimit THEN Cardinality(strangers)
    ELSE SharedIdentityScanLimit

\* The address's strangers, countLifetimeConversions, countLifetimeChargebacks.
Account(a, u) ==
    [sharing |-> IF a = Nowhere THEN Null ELSE Sharing(a, u),
     lifetime |-> Cardinality(OfUser(u)),
     chargebacks |-> Cardinality({i \in OfUser(u) : recorded[i].status = "REVERSED"})]

Count(read, click, ids) ==
    CASE read = "user" -> CountOfUser(click.user)
      [] read = "address" -> CountOfAddress(click.address, ids)
      [] read = "account" -> Account(click.address, click.user)

-----------------------------------------------------------------------------
(* The rules *)

\* Math.round of a percentage.
Rate(chargebacks, lifetime) == (200 * chargebacks + lifetime) \div (2 * lifetime)

\* What a rule measures, and Null where it cannot be evaluated.
Measure(rule, context) ==
    CASE rule = "USER_CONVERSION_VELOCITY" -> context.user
      [] rule = "IP_CONVERSION_VELOCITY" -> context.address
      [] rule = "SHARED_IP_ACCOUNTS" -> context.account.sharing
      [] rule = "IMPOSSIBLE_TIMING" -> IF context.elapsed < 0 THEN Null ELSE context.elapsed
      [] rule = "CHARGEBACK_RATE" ->
            IF context.account.lifetime < Settings.minimum THEN Null
            ELSE Rate(context.account.chargebacks, context.account.lifetime)
      [] rule = "DISPOSABLE_EMAIL" ->
            IF context.domain = Null \/ Settings.disposable = {} THEN Null
            ELSE IF context.domain \in Settings.disposable THEN 1 ELSE 0

\* Mutant of Beyond: a measure of one more is not above the threshold.
BeyondByOne(rule, measure, threshold) ==
    IF rule = "IMPOSSIBLE_TIMING" THEN measure < threshold
    ELSE IF rule = "DISPOSABLE_EMAIL" THEN measure = 1 ELSE measure > threshold + 1

\* Too fast is below, everything else above; the blocklist has no threshold.
Beyond(rule, measure, threshold) ==
    IF rule = "IMPOSSIBLE_TIMING" THEN measure < threshold
    ELSE IF rule = "DISPOSABLE_EMAIL" THEN measure = 1 ELSE measure > threshold

Fires(rule, context) ==
    LET measure == Measure(rule, context) IN
    /\ Settings.enabled /\ Settings.rules[rule].enabled
    /\ measure # Null
    /\ Beyond(rule, measure, Settings.rules[rule].threshold)

\* combineActions: the most severe that a triggered rule asks for.
CombineActions(triggered) ==
    LET asked == {"ALLOW"} \cup {Settings.rules[rule].action : rule \in triggered} IN
    CHOOSE action \in asked : \A other \in asked : Severity[other] <= Severity[action]

EvaluateRules(context) == CombineActions({rule \in Rules : Fires(rule, context)})

-----------------------------------------------------------------------------
(* A job *)

\* attribute: the click is resolved, and scoring begins.
Score(w, i) ==
    /\ scoring[w] = Unemployed
    /\ Len(recorded) + Cardinality({v \in Worker : scoring[v] # Unemployed}) < MaxConversions
    /\ Scores(w, [op |-> "building", click |-> i, todo |-> Reads, scan |-> "whole",
                  context |-> [read \in Reads |-> Null]])
    /\ UNCHANGED <<clickVars, recorded>>

\* Whether the clicks of the address were scanned whole, kept for VelocityHolds alone.
Scanned(job, read, ids) ==
    IF read = "address" /\ ids # RecentOf("address", clicks[job.click].address) THEN "cut" ELSE job.scan

\* build: each count is a query of its own, but for the clicks of the address and
\* their conversions, which are read here in one step.
Build(w, read) ==
    LET job   == scoring[w]
        click == clicks[job.click]
    IN
    /\ job.op = "building" /\ read \in job.todo
    /\ \E ids \in IdsByIp(click.address) :
          Scores(w, [job EXCEPT !.todo = @ \ {read},
                                !.scan = Scanned(job, read, ids),
                                !.context = [@ EXCEPT ![read] = Count(read, click, ids)]])
    /\ UNCHANGED <<clickVars, recorded>>

\* evaluate, with what the click and the account tell of themselves.
Evaluate(w, facts) ==
    LET job == scoring[w] IN
    /\ job.op = "building" /\ job.todo = {}
    /\ Scores(w, [op |-> "scored", click |-> job.click, scan |-> job.scan,
                  action |-> EvaluateRules([user |-> job.context.user, address |-> job.context.address,
                                            account |-> job.context.account,
                                            elapsed |-> facts.elapsed, domain |-> facts.domain])])
    /\ UNCHANGED <<clickVars, recorded>>

\* A query fails: the conversion proceeds unscored.
ScoringFails(w) ==
    /\ scoring[w].op = "building" /\ scoring[w].todo = {}
    /\ Scores(w, [op |-> "scored", click |-> scoring[w].click, scan |-> scoring[w].scan, action |-> Null])
    /\ UNCHANGED <<clickVars, recorded>>

\* resolveStatus: only what nothing speaks against is credited without a review.
StatusFor(action) ==
    IF action \in {"ALLOW", Null} THEN "CREDITED" ELSE IF action = "BLOCK" THEN "REJECTED" ELSE "HELD"

\* The conversion, with what FraudService.record keeps of its evaluation, and of
\* one that is allowed whether the scan for it was whole.
Recorded(job) == [click |-> job.click, action |-> job.action, status |-> StatusFor(job.action),
                  recent |-> TRUE, scan |-> IF job.action = "ALLOW" THEN job.scan ELSE "moot"]

Persist(w) ==
    LET job == scoring[w] IN
    /\ job.op = "scored"
    /\ recorded' = Append(recorded, Recorded(job))
    /\ Scores(w, Unemployed)
    /\ UNCHANGED clickVars

\* A chargeback of a conversion that was credited.
ChargeBack(i) ==
    /\ recorded[i].status \in {"CREDITED", "HELD"}
    /\ recorded' = [recorded EXCEPT ![i].status = "REVERSED"]
    /\ UNCHANGED <<clickVars, scoring>>

\* The window has passed over the oldest conversion it had; its click was older.
AgeConversion(i) ==
    /\ recorded[i].recent /\ ~clicks[recorded[i].click].recent
    /\ \A j \in 1..(i - 1) : ~recorded[j].recent
    /\ recorded' = [recorded EXCEPT ![i].recent = FALSE]
    /\ UNCHANGED <<clickVars, scoring>>

ScoringInit ==
    /\ recorded = <<>>
    /\ scoring = [w \in Worker |-> Unemployed]

Job(w) ==
    \/ \E i \in DOMAIN clicks : Score(w, i)
    \/ \E read \in Reads : Build(w, read)
    \/ \E facts \in Facts : Evaluate(w, facts)
    \/ ScoringFails(w) \/ Persist(w)

ScoringNext ==
    \/ \E w \in Worker : Job(w)
    \/ \E i \in DOMAIN recorded : ChargeBack(i) \/ AgeConversion(i)

\* Conversions are scored while clicks are made, and offers come and go.
ScoringSpec ==
    /\ CatalogInit /\ ClicksInit /\ ScoringInit
    /\ [][\/ ScoringNext /\ UNCHANGED catalogVars
          \/ ClickingNext /\ UNCHANGED <<recorded, scoring>>]_<<catalogVars, scoringVars>>

-----------------------------------------------------------------------------
(* Properties *)

Acts(rule) == /\ Settings.enabled /\ Settings.rules[rule].enabled
              /\ Settings.rules[rule].action # "ALLOW"

Passed(i) == recorded[i].recent /\ recorded[i].action = "ALLOW"

\* Where a velocity rule is on and asks for more than to be told, no more than
\* its threshold, and one for each job at work, are credited without a review
\* within the window: to a user, and, of those for which every recent click of
\* their address was scanned, through the recent clicks of an address.  A scan that
\* was cut off at its limit bounds nothing, however low the threshold; and what
\* could not be scored is excepted (score, findIdsByIpSince).
VelocityHolds ==
    /\ Acts("USER_CONVERSION_VELOCITY") =>
          \A u \in Clicker :
             Cardinality({i \in OfUser(u) : Passed(i)})
                <= Settings.rules["USER_CONVERSION_VELOCITY"].threshold + Cardinality(Worker)
    /\ Acts("IP_CONVERSION_VELOCITY") =>
          \A a \in Address :
             Cardinality({i \in DOMAIN recorded : /\ Passed(i) /\ recorded[i].scan = "whole"
                                                  /\ recorded[i].click \in RecentOf("address", a)})
                <= Settings.rules["IP_CONVERSION_VELOCITY"].threshold + Cardinality(Worker)
=============================================================================
