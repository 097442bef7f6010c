--------------------------------- MODULE Wall ---------------------------------
(***************************************************************************)
(* The offer wall and a click on it: what ProviderRegistry makes of the    *)
(* adapters of a build, what RatesService and mapOffer make of what a      *)
(* provider lists, OfferWallService, ClicksService.create, and the pages   *)
(* between them.                                                           *)
(*                                                                         *)
(* A process has a registry of its own and an environment that may lack    *)
(* what another has; it reloads when it hears of a change (Propagation).   *)
(* One run at a time writes the catalog, a row at a statement (Catalog has *)
(* several, and the pruning).  An offer is what the properties tell apart: *)
(* whether it is on the wall, what it pays and whether a link can be made  *)
(* of its tracking URL.                                                    *)
(***************************************************************************)
EXTENDS Integers, FiniteSets

CONSTANTS
    Slug,           \* providers, whose rows exist
    Deal,           \* offers
    SlugOf,         \* whose they are
    Builds,         \* what the adapters of a build may be: a definition or none to each slug
    Server,         \* processes of the API, and
    Syncer,         \* the worker's
    Deployed,       \* of each process: the credentials its environment has, by slug
    Campaign,       \* what a provider may list for one of its offers
    RateValues,     \* what each of the three rates may be set to
    Visitor,
    None,           \* no adapter, no offer, no page before
    MaxChanges,     \* what administrators change
    MaxRuns,
    MaxStarts      \* clicks

ASSUME WallAssumption ==
    /\ SlugOf \in [Deal -> Slug]
    /\ {MaxChanges, MaxRuns, MaxStarts} \subseteq Nat
    /\ \A c \in Campaign : c.payout \in Int /\ c.template \in {"whole", "partial", "without sub id"}

VARIABLES
    adapters,   \* the adapters of this build
    switched,   \* is_enabled of each provider
    registry,   \* of each process: what it has made of each provider
    rates,      \* the three keys, as they resolve for a provider
    catalog,    \* offers
    run,        \* the synchronization under way
    clicks,     \* what clicks promised
    view,       \* what each visitor has before him
    happened    \* changes, runs and clicks so far

wallVars == <<adapters, switched, registry, rates, catalog, run, clicks, view, happened>>

-----------------------------------------------------------------------------
(* The registry *)

MandatoryCapabilities == {"FETCH_OFFERS", "BUILD_CLICK_URL", "VERIFY_POSTBACK", "PARSE_POSTBACK"}
Capabilities == MandatoryCapabilities \cup {"REVERSALS", "OFFER_TARGETING"}
SigningSchemes == {"hmac_sha256", "ip_allowlist"}

\* ProviderAdapterDefinition: what is declared, and what the instance has.
Definition == [slug : Slug, scheme : SigningSchemes \cup {"other"}, ranges : BOOLEAN,
               declares : SUBSET Capabilities, needs : SUBSET {"secret", "affiliate_id"},
               constructs : BOOLEAN, implements : SUBSET Capabilities]

ASSUME BuildsAssumption == Builds \subseteq [Slug -> Definition \cup {None}]

CapabilitiesDeclared(d) == MandatoryCapabilities \subseteq d.declares

MetadataValid(p, d) ==
    /\ d.slug = p
    /\ d.scheme \in SigningSchemes
    /\ CapabilitiesDeclared(d)
    /\ d.scheme = "ip_allowlist" => d.ranges

ImplementationValid(d) == MandatoryCapabilities \subseteq d.implements

\* resolve: exactly the variables that are declared.
Missing(s, p, d) == d.needs \ Deployed[s][p]

\* build, in this order: what is constructed has been declared well.
Comes(s, p) ==
    LET d == adapters[p] IN
    /\ d # None
    /\ MetadataValid(p, d)
    /\ Missing(s, p, d) = {}
    /\ d.constructs
    /\ ImplementationValid(d)

\* load: a new snapshot, whole.
Snapshot(s) == [p \in Slug |-> IF ~Comes(s, p) THEN "failed" ELSE IF switched[p] THEN "on" ELSE "off"]

LoadRegistry(s) ==
    /\ registry[s] # Snapshot(s)
    /\ registry' = [registry EXCEPT ![s] = Snapshot(s)]
    /\ UNCHANGED <<adapters, switched, rates, catalog, run, clicks, view, happened>>

\* Mutant of Enabled: whatever has come up.
EnabledAll(s) == {p \in Slug : registry[s][p] # "failed"}

\* enabled, and require.
Enabled(s) == {p \in Slug : registry[s][p] = "on"}
Required(s, p) == registry[s][p] = "on"

-----------------------------------------------------------------------------
(* What administrators change *)

Changes == happened.changes < MaxChanges /\ happened' = [happened EXCEPT !.changes = @ + 1]

SwitchProvider(p) ==
    /\ Changes
    /\ switched' = [switched EXCEPT ![p] = ~@]
    /\ UNCHANGED <<adapters, registry, rates, catalog, run, clicks, view>>

SetRate(key, value) ==
    /\ Changes
    /\ rates[key] # value
    /\ rates' = [rates EXCEPT ![key] = value]
    /\ UNCHANGED <<adapters, switched, registry, catalog, run, clicks, view>>

PullOffer(d) ==
    /\ Changes
    /\ catalog' = [catalog EXCEPT ![d].standing = IF @ = "active" THEN "ADMIN" ELSE "active"]
    /\ UNCHANGED <<adapters, switched, registry, rates, run, clicks, view>>

-----------------------------------------------------------------------------
(* A run: rates, campaigns, rows *)

RateKeys == {"pointsPerMinorUnit", "rewardSharePercent", "accountingCurrency"}

\* What the schemas of the keys let them be.
ASSUME RatesAssumption ==
    /\ DOMAIN RateValues = RateKeys
    /\ \A key \in RateKeys : RateValues[key] # {}
    /\ RateValues["pointsPerMinorUnit"] \cup RateValues["rewardSharePercent"] \subseteq Nat

IdleRun == [pc |-> "idle"]

\* sync: the worker's registry is read anew,
StartRun(p) ==
    /\ run = IdleRun
    /\ happened.runs < MaxRuns
    /\ happened' = [happened EXCEPT !.runs = @ + 1]
    /\ registry' = [registry EXCEPT ![Syncer] = Snapshot(Syncer)]
    /\ run' = [pc |-> "requiring", of |-> p]
    /\ UNCHANGED <<adapters, switched, rates, catalog, clicks, view>>

\* and has to have the provider.
RequireForRun ==
    /\ run.pc = "requiring"
    /\ run' = IF Required(Syncer, run.of) THEN [pc |-> "resolving", of |-> run.of, rates |-> <<>>] ELSE IdleRun
    /\ UNCHANGED <<adapters, switched, registry, rates, catalog, clicks, view, happened>>

\* resolve: three reads side by side, once for the whole run.
ResolveRate(key) ==
    /\ run.pc = "resolving" /\ key \notin DOMAIN run.rates
    /\ run' = [run EXCEPT !.rates = [k \in DOMAIN @ \cup {key} |-> IF k = key THEN rates[key] ELSE @[k]]]
    /\ UNCHANGED <<adapters, switched, registry, rates, catalog, clicks, view, happened>>

\* toRewardPoints: whole points, rounded down.
ToRewardPoints(payout, r) == (payout * r.pointsPerMinorUnit * r.rewardSharePercent) \div 100

\* normalizeCampaign of the adapter: a payout that can be read and is one, somewhere
\* to put our sub id, and a device.
Normalizes(c) == c.payout > 0 /\ c.template # "without sub id" /\ c.devices # {}

\* mapOffer: what is refused, after what an adapter has refused.
Maps(c, r) ==
    /\ c.payout > 0
    /\ c.currency = r.accountingCurrency
    /\ c.devices # {}
    /\ ToRewardPoints(c.payout, r) >= 1

\* fetchOffers and mapOffer: of whatever the provider lists, what there is to write.
FetchOffers ==
    /\ run.pc = "resolving" /\ DOMAIN run.rates = RateKeys
    /\ \E listed \in SUBSET {d \in Deal : SlugOf[d] = run.of} : \E campaign \in [listed -> Campaign] :
          run' = [pc |-> "writing", of |-> run.of, rates |-> run.rates, written |-> {},
                  todo |-> LET good == {d \in listed : Normalizes(campaign[d]) /\ Maps(campaign[d], run.rates)}
                           IN [d \in good |-> [payout |-> campaign[d].payout, template |-> campaign[d].template]]]
    /\ UNCHANGED <<adapters, switched, registry, rates, catalog, clicks, view, happened>>

\* Mutant of PricingOf: the rates are asked for row by row.
PricingOfNow(r) == rates

PricingOf(r) == r.rates

\* upsertFromSync: everything but a standing that an administrator has decided.
WriteOffer(d) ==
    /\ run.pc = "writing" /\ d \in DOMAIN run.todo \ run.written
    /\ catalog' = [catalog EXCEPT ![d] =
          [standing |-> IF @.standing = "ADMIN" THEN "ADMIN" ELSE "active",
           payout   |-> run.todo[d].payout,
           points   |-> ToRewardPoints(run.todo[d].payout, PricingOf(run)),
           template |-> run.todo[d].template,
           by       |-> happened.runs]]
    /\ run' = [run EXCEPT !.written = @ \cup {d}]
    /\ UNCHANGED <<adapters, switched, registry, rates, clicks, view, happened>>

\* The run ends, with the pruning of what it did not see or without, or breaks.
EndRun ==
    /\ run # IdleRun
    /\ run' = IdleRun
    /\ \/ UNCHANGED catalog
       \/ /\ run.pc = "writing" /\ run.written = DOMAIN run.todo
          /\ catalog' = [d \in Deal |->
                IF SlugOf[d] = run.of /\ d \notin run.written /\ catalog[d].standing = "active"
                THEN [catalog[d] EXCEPT !.standing = "SYNC"] ELSE catalog[d]]
    /\ UNCHANGED <<adapters, switched, registry, rates, clicks, view, happened>>

-----------------------------------------------------------------------------
(* The wall and its pages *)

See(v, page) ==
    /\ view' = [view EXCEPT ![v] = page]
    /\ UNCHANGED <<adapters, switched, registry, rates, catalog, run, clicks, happened>>

Away == [on |-> "away"]

\* The offer and its provider, as they were read.
Card(d, row, verdict) == [deal |-> d, row |-> row, verdict |-> verdict]

\* list: who is eligible,
OpenWall(v, s) ==
    /\ view[v].on # "clicking"
    /\ See(v, [on |-> "listing", eligible |-> [p \in Enabled(s) |-> registry[s][p]]])

\* then the active offers of those.  The page keeps the card that is followed.
FindForWall(v) ==
    LET eligible == view[v].eligible IN
    /\ view[v].on = "listing"
    /\ \E d \in Deal :
          /\ catalog[d].standing = "active"
          /\ SlugOf[d] \in DOMAIN eligible
          /\ See(v, [on |-> "wall", shown |-> Card(d, catalog[d], eligible[SlugOf[d]])])

\* detail: the row is read first, whether a card led here or a link.
OpenOffer(v, s, d) ==
    /\ view[v].on \in {"away", "wall"}
    /\ view[v].on = "wall" => d = view[v].shown.deal
    /\ See(v, [on |-> "detailing", server |-> s, deal |-> d, row |-> catalog[d],
               shown |-> IF view[v].on = "wall" THEN view[v].shown ELSE None])

\* One answer for an offer that is not active and for a provider that is not usable.
ReadOffer(v) ==
    LET w == view[v]
        met == Card(w.deal, w.row, registry[w.server][SlugOf[w.deal]]) IN
    /\ w.on = "detailing"
    /\ See(v, IF w.row.standing = "active" /\ SlugOf[w.deal] \in Enabled(w.server)
              THEN [on |-> "offer", shown |-> met]
              ELSE [on |-> "missing", shown |-> w.shown, met |-> met])

\* The catalog cannot be reached, or the visitor turns away.
Leave(v) ==
    /\ view[v].on \notin {"away", "clicking"}
    /\ See(v, Away)

-----------------------------------------------------------------------------
(* The click *)

Clicking(v, pc) == view[v].on = "clicking" /\ view[v].pc = pc

Refused(v, why) == [on |-> "refused", why |-> why, shown |-> view[v].shown, met |-> view[v].met]

\* The button, from a page that stays as it was; any process may answer.
PressStart(v, s) ==
    /\ view[v].on = "offer"
    /\ happened.starts < MaxStarts
    /\ happened' = [happened EXCEPT !.starts = @ + 1]
    /\ view' = [view EXCEPT ![v] = [on |-> "clicking", pc |-> "offer", server |-> s, shown |-> @.shown,
                                   met |-> Card(@.shown.deal, catalog[@.shown.deal], "unread")]]
    /\ UNCHANGED <<adapters, switched, registry, rates, catalog, run, clicks>>

RequireActive(v) ==
    /\ Clicking(v, "offer")
    /\ See(v, IF view[v].met.row.standing = "active" THEN [view[v] EXCEPT !.pc = "provider"]
              ELSE Refused(v, "offer"))

RequireRegistered(v) ==
    LET w == view[v]
        p == SlugOf[w.met.deal]
        met == [w.met EXCEPT !.verdict = registry[w.server][p]] IN
    /\ Clicking(v, "provider")
    /\ See(v, IF Required(w.server, p) THEN [w EXCEPT !.pc = "limits", !.met = met]
              ELSE [Refused(v, "provider") EXCEPT !.met = met])

\* assertWithinRateLimits (Clicks).
CheckLimits(v) ==
    /\ Clicking(v, "limits")
    /\ See(v, [view[v] EXCEPT !.pc = "linking"]) \/ See(v, Refused(v, "limits"))

\* buildClickUrl throws when a placeholder is left.
BuildClickUrl(v) ==
    /\ Clicking(v, "linking")
    /\ See(v, IF view[v].met.row.template = "whole" THEN [view[v] EXCEPT !.pc = "inserting"]
              ELSE Refused(v, "link"))

\* rewardPointsSnapshot.
PromiseOf(w) == w.met.row.points

InsertClick(v) ==
    LET w == view[v] IN
    /\ Clicking(v, "inserting")
    /\ clicks' = clicks \cup {[visitor |-> v, deal |-> w.met.deal, points |-> PromiseOf(w), by |-> w.met.row.by]}
    /\ view' = [view EXCEPT ![v].pc = "answering"]
    /\ UNCHANGED <<adapters, switched, registry, rates, catalog, run, happened>>

\* The redirect.
Redirect(v) ==
    /\ Clicking(v, "answering")
    /\ See(v, [on |-> "left", shown |-> view[v].shown, met |-> view[v].met])

\* Something fails on the way: a click that was recorded may never be followed.
LoseClick(v) ==
    /\ view[v].on = "clicking"
    /\ See(v, Refused(v, "unanswered"))

-----------------------------------------------------------------------------
FirstRates == [key \in RateKeys |-> CHOOSE value \in RateValues[key] : TRUE]

\* The offers there are at first pay 2, which mapOffer let through.
ASSUME FirstOffersAssumption == ToRewardPoints(2, FirstRates) >= 1

\* A catalog that was synchronized, at rates that were in force.
WallInit ==
    /\ adapters \in Builds
    /\ switched = [p \in Slug |-> TRUE]
    /\ registry = [s \in Server \cup {Syncer} |-> Snapshot(s)]
    /\ rates = FirstRates
    /\ catalog = [d \in Deal |-> [standing |-> "active", payout |-> 2, points |-> ToRewardPoints(2, rates),
                                  template |-> "whole", by |-> 0]]
    /\ run = IdleRun
    /\ clicks = {}
    /\ view = [v \in Visitor |-> Away]
    /\ happened = [changes |-> 0, runs |-> 0, starts |-> 0]

RunNext ==
    \/ \E p \in Slug : StartRun(p)
    \/ RequireForRun \/ \E key \in RateKeys : ResolveRate(key)
    \/ FetchOffers \/ \E d \in Deal : WriteOffer(d)
    \/ EndRun

VisitNext(v) ==
    \/ \E s \in Server : OpenWall(v, s) \/ PressStart(v, s) \/ \E d \in Deal : OpenOffer(v, s, d)
    \/ FindForWall(v) \/ ReadOffer(v) \/ Leave(v)
    \/ RequireActive(v) \/ RequireRegistered(v) \/ CheckLimits(v) \/ BuildClickUrl(v)
    \/ InsertClick(v) \/ Redirect(v) \/ LoseClick(v)

WallNext ==
    \/ \E s \in Server : LoadRegistry(s)
    \/ \E p \in Slug : SwitchProvider(p)
    \/ \E key \in RateKeys : \E value \in RateValues[key] : SetRate(key, value)
    \/ \E d \in Deal : PullOffer(d)
    \/ RunNext
    \/ \E v \in Visitor : VisitNext(v)

WallSpec == WallInit /\ [][WallNext]_wallVars

-----------------------------------------------------------------------------
(* Properties *)

\* What the wall shows has a page, and what a page shows can be started, unless
\* the offer or what a process holds of its provider was otherwise by then; who
\* is sent to a provider has a click behind him, which promises what his page
\* said unless a run had written the offer again (OfferWallService, which says
\* that "every offer this returns is one ClicksService.create would accept").
\* Two refusals are left to the click: the limits, and a tracking URL that
\* cannot be filled in.
WallKeepsItsWord ==
    \A v \in Visitor :
        LET w == view[v] IN
        /\ w.on = "missing" /\ w.shown # None =>
              w.met.row.standing # w.shown.row.standing \/ w.met.verdict # w.shown.verdict
        /\ w.on = "refused" =>
              /\ w.why = "offer" => w.met.row.standing # w.shown.row.standing
              /\ w.why = "provider" => w.met.verdict # w.shown.verdict
              /\ w.why = "link" => w.met.row.template = "partial"
        /\ w.on = "left" =>
              \E c \in clicks :
                 /\ c.visitor = v /\ c.deal = w.shown.deal
                 /\ c.by = w.shown.row.by => c.points = w.shown.row.points

\* Whenever rates are changed, the offers that one run wrote are priced with one
\* set of rates, and none of them pays nothing; and a click promises what its
\* offer paid, as some run wrote it (RatesService.resolve, toRewardPoints).
PricedTogether ==
    /\ \A written \in 0..MaxRuns :
          \E unit \in RateValues["pointsPerMinorUnit"], share \in RateValues["rewardSharePercent"] :
             \A d \in Deal :
                catalog[d].by = written =>
                   catalog[d].points = ToRewardPoints(catalog[d].payout,
                                          [pointsPerMinorUnit |-> unit, rewardSharePercent |-> share])
    /\ \A d \in Deal : catalog[d].points >= 1
    /\ \A c \in clicks : catalog[c.deal].by = c.by => catalog[c.deal].points = c.points
=============================================================================
