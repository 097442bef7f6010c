---------------------------- MODULE ScreensProofs ----------------------------
(***************************************************************************)
(* Of pages and what is done with them, for any number of tabs, visitors,  *)
(* settings and offers: the wall and the click keep the word of the page,  *)
(* a withdrawal is answered truly and held to the daily cap, the consoles  *)
(* of administrators replace what they showed, and whoever pages through a *)
(* list, as the sweep does by key, passes over no more than moved.         *)
(* Last, all of it, with the sessions, as Screens runs it.                 *)
(***************************************************************************)
EXTENDS Screens, WebSessionProofs, SequenceTheorems, FiniteSetTheorems,
        WellFoundedInduction, TLAPS

-----------------------------------------------------------------------------
(* The wall.                                                               *)

OfferRow == [standing : {"active", "ADMIN", "SYNC"}, payout : Int, points : Int,
             template : {"whole", "partial"}, by : Nat]

\* A row as it was read: the same write says the same, and later ones count on.
AsWas(d, row, cat) ==
    /\ row \in OfferRow
    /\ row.by <= cat[d].by
    /\ row.by = cat[d].by => row.points = cat[d].points

\* What a page shows as there to be clicked.
Offered(card) == card.row.standing = "active" /\ card.verdict = "on"

HasClick(v, card, made) ==
    \E c \in made :
        /\ c.visitor = v /\ c.deal = card.deal
        /\ c.by = card.row.by => c.points = card.row.points

PageOK(v, w, cat, made) ==
    /\ w.on = "listing" => \A p \in DOMAIN w.eligible : w.eligible[p] = "on"
    /\ w.on = "wall" => Offered(w.shown)
    /\ w.on = "detailing" =>
          /\ w.deal \in Deal /\ AsWas(w.deal, w.row, cat)
          /\ w.shown # None => Offered(w.shown)
    /\ w.on = "missing" /\ w.shown # None =>
          /\ Offered(w.shown)
          /\ w.met.row.standing # "active" \/ w.met.verdict # "on"
    /\ w.on = "offer" => Offered(w.shown) /\ w.shown.deal \in Deal /\ AsWas(w.shown.deal, w.shown.row, cat)
    /\ w.on = "clicking" =>
          /\ w = [on |-> "clicking", pc |-> w.pc, server |-> w.server, shown |-> w.shown, met |-> w.met]
          /\ w.met = Card(w.met.deal, w.met.row, w.met.verdict)
          /\ Offered(w.shown) /\ w.shown.deal \in Deal /\ w.met.deal = w.shown.deal
          /\ AsWas(w.met.deal, w.met.row, cat)
          /\ w.met.row.by = w.shown.row.by => w.met.row.points = w.shown.row.points
          /\ w.pc = "answering" => HasClick(v, w.shown, made)
    /\ w.on = "refused" =>
          /\ Offered(w.shown)
          /\ w.why = "offer" => w.met.row.standing # "active"
          /\ w.why = "provider" => w.met.verdict # "on"
          /\ w.why = "link" => w.met.row.template = "partial"
    /\ w.on = "left" => HasClick(v, w.shown, made)

RatesOK(r) ==
    /\ r.pointsPerMinorUnit \in RateValues["pointsPerMinorUnit"]
    /\ r.rewardSharePercent \in RateValues["rewardSharePercent"]

\* What there is to write is worth writing.
Mapped(todo, r) ==
    /\ DOMAIN todo \subseteq Deal
    /\ \A d \in DOMAIN todo :
          /\ todo[d].payout \in Int /\ todo[d].template \in {"whole", "partial"}
          /\ ToRewardPoints(todo[d].payout, r) \in Int /\ ToRewardPoints(todo[d].payout, r) >= 1

\* A run writes each row once, at its own rates, and its number is new.
RunOK ==
    /\ run.pc \in {"requiring", "resolving"} => \A d \in Deal : catalog[d].by < happened.runs
    /\ run.pc = "resolving" =>
          /\ run = [pc |-> "resolving", of |-> run.of, rates |-> run.rates]
          /\ DOMAIN run.rates \subseteq RateKeys
          /\ \A key \in DOMAIN run.rates : run.rates[key] \in RateValues[key]
    /\ run.pc = "writing" =>
          /\ run = [pc |-> "writing", of |-> run.of, rates |-> run.rates, written |-> run.written, todo |-> run.todo]
          /\ RatesOK(run.rates) /\ Mapped(run.todo, run.rates)
          /\ \A d \in Deal \ run.written : catalog[d].by < happened.runs
          /\ \A d \in Deal : catalog[d].by = happened.runs =>
                catalog[d].points = ToRewardPoints(catalog[d].payout, run.rates)

PricedBy(written, cat) ==
    \E unit \in RateValues["pointsPerMinorUnit"], share \in RateValues["rewardSharePercent"] :
        \A d \in Deal :
            cat[d].by = written =>
                cat[d].points = ToRewardPoints(cat[d].payout,
                                       [pointsPerMinorUnit |-> unit, rewardSharePercent |-> share])

CatalogOK ==
    /\ happened \in [changes : Nat, runs : Nat, starts : Nat]
    /\ rates = [key \in RateKeys |-> rates[key]]
    /\ \A key \in RateKeys : rates[key] \in RateValues[key]
    /\ catalog \in [Deal -> OfferRow]
    /\ \A d \in Deal : catalog[d].by <= happened.runs /\ catalog[d].points >= 1
    /\ \A written \in Nat : PricedBy(written, catalog)

ClicksOK ==
    \A c \in clicks :
        /\ c.deal \in Deal /\ c.by \in Nat /\ c.by <= catalog[c.deal].by
        /\ c.by = catalog[c.deal].by => c.points = catalog[c.deal].points

WallInv ==
    /\ CatalogOK /\ RunOK /\ ClicksOK
    /\ DOMAIN view = Visitor
    /\ \A v \in Visitor : PageOK(v, view[v], catalog, clicks)

\* What later states make of rows: written again, or as they were priced.
Grows(cat, cat2) ==
    \A d \in Deal : cat[d].by < cat2[d].by \/ (cat2[d].by = cat[d].by /\ cat2[d].points = cat[d].points)

SamePrices(cat, cat2) ==
    \A d \in Deal : cat2[d].by = cat[d].by /\ cat2[d].points = cat[d].points /\ cat2[d].payout = cat[d].payout

\* What a page says goes on being so while rows are written and clicks are made.
LEMMA PageStays ==
    ASSUME NEW v, NEW w, NEW cat \in [Deal -> OfferRow], NEW cat2 \in [Deal -> OfferRow], NEW made, NEW made2,
           PageOK(v, w, cat, made), Grows(cat, cat2), made \subseteq made2
    PROVE  PageOK(v, w, cat2, made2)
<1>1. ASSUME NEW d \in Deal, NEW row, AsWas(d, row, cat)
      PROVE  AsWas(d, row, cat2)
    BY <1>1 DEF AsWas, Grows, OfferRow
<1>2. ASSUME NEW card, HasClick(v, card, made)
      PROVE  HasClick(v, card, made2)
    BY <1>2 DEF HasClick
<1>3. CASE w.on = "detailing"
    BY <1>1, <1>3 DEF PageOK
<1>4. CASE w.on = "offer"
    BY <1>1, <1>4 DEF PageOK
<1>5. CASE w.on = "clicking"
  <2>1. w.met.deal \in Deal
    BY <1>5 DEF PageOK
  <2>2. AsWas(w.met.deal, w.met.row, cat2)
    BY <1>1, <1>5, <2>1 DEF PageOK
  <2>3. w.pc = "answering" => HasClick(v, w.shown, made2)
    BY <1>2, <1>5 DEF PageOK
  <2> QED
    BY <1>5, <2>2, <2>3 DEF PageOK
<1>6. CASE w.on = "left"
    BY <1>2, <1>6 DEF PageOK
<1> QED
    BY <1>3, <1>4, <1>5, <1>6 DEF PageOK

\* Points are a number whatever is listed at whatever rates.
LEMMA PointsAreInt ==
    ASSUME NEW payout \in Int, NEW r, RatesOK(r)
    PROVE  ToRewardPoints(payout, r) \in Int
<1>1. r.pointsPerMinorUnit \in Int /\ r.rewardSharePercent \in Int
    BY RatesAssumption DEF RatesOK
<1>2. payout * r.pointsPerMinorUnit \in Int
    BY <1>1
<1>3. payout * r.pointsPerMinorUnit * r.rewardSharePercent \in Int
    BY <1>1, <1>2
<1> QED
    BY <1>3 DEF ToRewardPoints

\* A catalog in which only standings changed is priced as it was.
LEMMA PricesStay ==
    ASSUME NEW cat, NEW cat2, SamePrices(cat, cat2), NEW written, PricedBy(written, cat)
    PROVE  PricedBy(written, cat2)
    BY DEF PricedBy, SamePrices

-----------------------------------------------------------------------------
(* Pages move and nothing else does. *)

LEMMA MovedKeeps ==
    ASSUME WallInv, NEW v \in Visitor,
           DOMAIN view' = Visitor,
           \A u \in Visitor \ {v} : view'[u] = view[u],
           UNCHANGED <<rates, catalog, run>>,
           happened' \in [changes : Nat, runs : Nat, starts : Nat], happened'.runs = happened.runs,
           clicks \subseteq clicks', ClicksOK',
           PageOK(v, view'[v], catalog, clicks')
    PROVE  WallInv'
<1>1. CatalogOK'
    BY DEF WallInv, CatalogOK
<1>2. RunOK'
    BY DEF WallInv, RunOK
<1>3. catalog \in [Deal -> OfferRow] /\ Grows(catalog, catalog)
    BY DEF WallInv, CatalogOK, Grows
<1>4. ASSUME NEW u \in Visitor
      PROVE  PageOK(u, view'[u], catalog', clicks')
  <2>1. CASE u = v
    BY <2>1
  <2>2. CASE u # v
    <3>1. PageOK(u, view[u], catalog, clicks)
      BY <1>4 DEF WallInv
    <3>2. PICK w : w = view[u]
      OBVIOUS
    <3>3. PICK made : made = clicks'
      OBVIOUS
    <3>4. PageOK(u, w, catalog, made)
      BY <1>3, <3>1, <3>2, <3>3, PageStays
    <3> QED
      BY <1>4, <2>2, <3>2, <3>3, <3>4
  <2> QED
    BY <2>1, <2>2
<1> QED
    BY <1>1, <1>2, <1>4 DEF WallInv

LEMMA SeenKeeps ==
    ASSUME WallInv, NEW v \in Visitor,
           DOMAIN view' = Visitor,
           \A u \in Visitor \ {v} : view'[u] = view[u],
           UNCHANGED <<rates, catalog, run, clicks, happened>>,
           PageOK(v, view'[v], catalog, clicks)
    PROVE  WallInv'
<1>1. ClicksOK'
    BY DEF WallInv, ClicksOK
<1>2. happened' \in [changes : Nat, runs : Nat, starts : Nat] /\ happened'.runs = happened.runs
    BY DEF WallInv, CatalogOK
<1>3. PageOK(v, view'[v], catalog, clicks')
    OBVIOUS
<1> QED
    BY <1>1, <1>2, <1>3, MovedKeeps

\* What See leaves, and that only one page moves.
LEMMA SeeMoves ==
    ASSUME WallInv, NEW v \in Visitor, NEW w, See(v, w)
    PROVE  /\ DOMAIN view' = Visitor
           /\ \A u \in Visitor \ {v} : view'[u] = view[u]
           /\ view'[v] = w
           /\ UNCHANGED <<rates, catalog, run, clicks, happened>>
    BY DEF WallInv, See

LEMMA SeenWell ==
    ASSUME WallInv, NEW v \in Visitor, NEW w, See(v, w), PageOK(v, w, catalog, clicks)
    PROVE  WallInv'
<1>1. /\ DOMAIN view' = Visitor
      /\ \A u \in Visitor \ {v} : view'[u] = view[u]
      /\ view'[v] = w
      /\ UNCHANGED <<rates, catalog, run, clicks, happened>>
    BY SeeMoves
<1> QED
    BY <1>1, SeenKeeps

LEMMA OpenWallKeeps ==
    ASSUME WallInv, NEW v \in Visitor, NEW s \in Server, OpenWall(v, s)
    PROVE  WallInv'
<1>1. PICK w : w = [on |-> "listing", eligible |-> [p \in Enabled(s) |-> registry[s][p]]]
    OBVIOUS
<1>2. See(v, w)
    BY <1>1 DEF OpenWall
<1>3. PageOK(v, w, catalog, clicks)
    BY <1>1 DEF PageOK, Enabled
<1> QED
    BY <1>2, <1>3, SeenWell

LEMMA FindForWallKeeps ==
    ASSUME WallInv, NEW v \in Visitor, FindForWall(v)
    PROVE  WallInv'
<1>1. PICK d \in Deal :
          /\ catalog[d].standing = "active"
          /\ SlugOf[d] \in DOMAIN view[v].eligible
          /\ See(v, [on |-> "wall", shown |-> Card(d, catalog[d], view[v].eligible[SlugOf[d]])])
    BY DEF FindForWall
<1>2. PICK w : w = [on |-> "wall", shown |-> Card(d, catalog[d], view[v].eligible[SlugOf[d]])]
    OBVIOUS
<1>3. PageOK(v, view[v], catalog, clicks) /\ view[v].on = "listing"
    BY DEF WallInv, FindForWall
<1>4. view[v].eligible[SlugOf[d]] = "on"
    BY <1>1, <1>3 DEF PageOK
<1>5. PageOK(v, w, catalog, clicks)
    BY <1>1, <1>2, <1>4 DEF PageOK, Offered, Card
<1> QED
    BY <1>1, <1>2, <1>5, SeenWell

\* A row that is read is as it is.
LEMMA ReadNow ==
    ASSUME WallInv, NEW d \in Deal
    PROVE  AsWas(d, catalog[d], catalog)
    BY DEF WallInv, CatalogOK, AsWas, OfferRow

LEMMA OpenOfferKeeps ==
    ASSUME WallInv, NEW v \in Visitor, NEW s \in Server, NEW d \in Deal, OpenOffer(v, s, d)
    PROVE  WallInv'
<1>1. PICK w : w = [on |-> "detailing", server |-> s, deal |-> d, row |-> catalog[d],
                    shown |-> IF view[v].on = "wall" THEN view[v].shown ELSE None]
    OBVIOUS
<1>2. See(v, w)
    BY <1>1 DEF OpenOffer
<1>3. PageOK(v, view[v], catalog, clicks)
    BY DEF WallInv
<1>4. w.shown # None => Offered(w.shown)
    BY <1>1, <1>3 DEF PageOK
<1>5. PageOK(v, w, catalog, clicks)
    BY <1>1, <1>4, ReadNow DEF PageOK
<1> QED
    BY <1>2, <1>5, SeenWell

LEMMA ReadOfferKeeps ==
    ASSUME WallInv, NEW v \in Visitor, ReadOffer(v)
    PROVE  WallInv'
<1>1. PICK w : w = view[v]
    OBVIOUS
<1>2. PICK met : met = Card(w.deal, w.row, registry[w.server][SlugOf[w.deal]])
    OBVIOUS
<1>3. /\ w.on = "detailing" /\ w.deal \in Deal
      /\ AsWas(w.deal, w.row, catalog)
      /\ w.shown # None => Offered(w.shown)
    BY <1>1 DEF WallInv, ReadOffer, PageOK
<1>4. /\ met.deal = w.deal /\ met.row = w.row
      /\ met.verdict = registry[w.server][SlugOf[w.deal]]
    BY <1>2 DEF Card
<1>5. CASE w.row.standing = "active" /\ SlugOf[w.deal] \in Enabled(w.server)
  <2>1. PICK u : u = [on |-> "offer", shown |-> met]
    OBVIOUS
  <2>2. See(v, u)
    BY <1>1, <1>2, <1>5, <2>1 DEF ReadOffer
  <2>3. Offered(met)
    BY <1>4, <1>5 DEF Offered, Enabled
  <2>4. PageOK(v, u, catalog, clicks)
    BY <1>3, <1>4, <2>1, <2>3 DEF PageOK
  <2> QED
    BY <2>2, <2>4, SeenWell
<1>6. CASE ~(w.row.standing = "active" /\ SlugOf[w.deal] \in Enabled(w.server))
  <2>1. PICK u : u = [on |-> "missing", shown |-> w.shown, met |-> met]
    OBVIOUS
  <2>2. See(v, u)
    BY <1>1, <1>2, <1>6, <2>1 DEF ReadOffer
  <2>3. SlugOf[w.deal] \in Slug
    BY <1>3, WallAssumption
  <2>4. met.row.standing # "active" \/ met.verdict # "on"
    BY <1>4, <1>6, <2>3 DEF Enabled
  <2>5. PageOK(v, u, catalog, clicks)
    BY <1>3, <2>1, <2>4 DEF PageOK
  <2> QED
    BY <2>2, <2>5, SeenWell
<1> QED
    BY <1>5, <1>6

LEMMA LeaveKeeps ==
    ASSUME WallInv, NEW v \in Visitor, Leave(v)
    PROVE  WallInv'
<1>1. PageOK(v, Away, catalog, clicks)
    BY DEF PageOK, Away
<1>2. See(v, Away)
    BY DEF Leave
<1> QED
    BY <1>1, <1>2, SeenWell

-----------------------------------------------------------------------------
(* The click *)

\* What is known of a page while its click is on the way.
ClickOK(v, w) ==
    /\ w = [on |-> "clicking", pc |-> w.pc, server |-> w.server, shown |-> w.shown, met |-> w.met]
    /\ w.met = Card(w.met.deal, w.met.row, w.met.verdict)
    /\ Offered(w.shown) /\ w.shown.deal \in Deal /\ w.met.deal = w.shown.deal
    /\ AsWas(w.met.deal, w.met.row, catalog)
    /\ w.met.row.by = w.shown.row.by => w.met.row.points = w.shown.row.points

LEMMA ClicksAreOK ==
    ASSUME WallInv, NEW v \in Visitor, view[v].on = "clicking"
    PROVE  /\ ClickOK(v, view[v])
           /\ view[v].pc = "answering" => HasClick(v, view[v].shown, clicks)
    BY DEF WallInv, PageOK, ClickOK

LEMMA ClickStays ==
    ASSUME NEW v, NEW w, ClickOK(v, w), w.pc = "answering" => HasClick(v, w.shown, clicks)
    PROVE  PageOK(v, w, catalog, clicks)
<1>1. w.on = "clicking"
    BY DEF ClickOK
<1> QED
    BY <1>1 DEF PageOK, ClickOK

\* A refusal is of what the click met.
LEMMA RefusalIsOK ==
    ASSUME WallInv, NEW v \in Visitor, view[v].on = "clicking", NEW why,
           why = "offer" => view[v].met.row.standing # "active",
           why = "provider" => view[v].met.verdict # "on",
           why = "link" => view[v].met.row.template = "partial",
           NEW w, w = Refused(v, why)
    PROVE  PageOK(v, w, catalog, clicks)
<1>1. /\ w.on = "refused" /\ w.why = why
      /\ w.shown = view[v].shown /\ w.met = view[v].met
    BY DEF Refused
<1>2. Offered(w.shown)
    BY <1>1, ClicksAreOK DEF ClickOK
<1> QED
    BY <1>1, <1>2 DEF PageOK

LEMMA RequireActiveKeeps ==
    ASSUME WallInv, NEW v \in Visitor, RequireActive(v)
    PROVE  WallInv'
<1>1. view[v].on = "clicking" /\ ClickOK(v, view[v])
    BY ClicksAreOK DEF RequireActive, Clicking
<1>2. CASE view[v].met.row.standing = "active"
  <2>1. PICK w : w = [view[v] EXCEPT !.pc = "provider"]
    OBVIOUS
  <2>2. See(v, w)
    BY <1>2, <2>1 DEF RequireActive
  <2>3. w.pc = "provider" /\ ClickOK(v, w)
    BY <1>1, <2>1 DEF ClickOK
  <2>4. PageOK(v, w, catalog, clicks)
    BY <2>3, ClickStays
  <2> QED
    BY <2>2, <2>4, SeenWell
<1>3. CASE view[v].met.row.standing # "active"
  <2>1. PICK w : w = Refused(v, "offer")
    OBVIOUS
  <2>2. See(v, w)
    BY <1>3, <2>1 DEF RequireActive
  <2>3. PageOK(v, w, catalog, clicks)
    BY <1>1, <1>3, <2>1, RefusalIsOK
  <2> QED
    BY <2>2, <2>3, SeenWell
<1> QED
    BY <1>2, <1>3

LEMMA RequireRegisteredKeeps ==
    ASSUME WallInv, NEW v \in Visitor, RequireRegistered(v)
    PROVE  WallInv'
<1>1. view[v].on = "clicking" /\ ClickOK(v, view[v])
    BY ClicksAreOK DEF RequireRegistered, Clicking
<1>2. PICK w : w = view[v]
    OBVIOUS
<1>3. PICK met : met = [w.met EXCEPT !.verdict = registry[w.server][SlugOf[w.met.deal]]]
    OBVIOUS
<1>4. met = Card(w.met.deal, w.met.row, registry[w.server][SlugOf[w.met.deal]])
    BY <1>1, <1>2, <1>3 DEF ClickOK, Card
<1>5. /\ met = Card(met.deal, met.row, met.verdict)
      /\ met.deal = w.met.deal /\ met.row = w.met.row
      /\ met.verdict = registry[w.server][SlugOf[w.met.deal]]
    BY <1>4 DEF Card
<1>6. CASE Required(w.server, SlugOf[w.met.deal])
  <2>1. PICK u : u = [w EXCEPT !.pc = "limits", !.met = met]
    OBVIOUS
  <2>2. See(v, u)
    BY <1>2, <1>3, <1>6, <2>1 DEF RequireRegistered
  <2>3. u = [on |-> "clicking", pc |-> "limits", server |-> w.server, shown |-> w.shown, met |-> met]
    BY <1>1, <1>2, <2>1 DEF ClickOK
  <2>4. ClickOK(v, u) /\ u.pc = "limits"
    BY <1>1, <1>2, <1>5, <2>3 DEF ClickOK
  <2>5. PageOK(v, u, catalog, clicks)
    BY <2>4, ClickStays
  <2> QED
    BY <2>2, <2>5, SeenWell
<1>7. CASE ~Required(w.server, SlugOf[w.met.deal])
  <2>1. PICK u : u = [Refused(v, "provider") EXCEPT !.met = met]
    OBVIOUS
  <2>2. See(v, u)
    BY <1>2, <1>3, <1>7, <2>1 DEF RequireRegistered
  <2>3. /\ u.on = "refused" /\ u.why = "provider"
        /\ u.shown = w.shown /\ u.met = met
    BY <1>2, <2>1 DEF Refused
  <2>4. met.verdict # "on"
    BY <1>5, <1>7 DEF Required
  <2>5. PageOK(v, u, catalog, clicks)
    BY <1>1, <1>2, <2>3, <2>4 DEF PageOK, ClickOK
  <2> QED
    BY <2>2, <2>5, SeenWell
<1> QED
    BY <1>6, <1>7

LEMMA CheckLimitsKeeps ==
    ASSUME WallInv, NEW v \in Visitor, CheckLimits(v)
    PROVE  WallInv'
<1>1. view[v].on = "clicking" /\ ClickOK(v, view[v])
    BY ClicksAreOK DEF CheckLimits, Clicking
<1>2. PICK w : w = [view[v] EXCEPT !.pc = "linking"]
    OBVIOUS
<1>3. PICK u : u = Refused(v, "limits")
    OBVIOUS
<1>4. See(v, w) \/ See(v, u)
    BY <1>2, <1>3 DEF CheckLimits
<1>5. w.pc = "linking" /\ ClickOK(v, w)
    BY <1>1, <1>2 DEF ClickOK
<1>6. PageOK(v, w, catalog, clicks)
    BY <1>5, ClickStays
<1>7. PageOK(v, u, catalog, clicks)
    BY <1>1, <1>3, RefusalIsOK
<1> QED
    BY <1>4, <1>6, <1>7, SeenWell

LEMMA BuildClickUrlKeeps ==
    ASSUME WallInv, NEW v \in Visitor, BuildClickUrl(v)
    PROVE  WallInv'
<1>1. view[v].on = "clicking" /\ ClickOK(v, view[v])
    BY ClicksAreOK DEF BuildClickUrl, Clicking
<1>2. CASE view[v].met.row.template = "whole"
  <2>1. PICK w : w = [view[v] EXCEPT !.pc = "inserting"]
    OBVIOUS
  <2>2. See(v, w)
    BY <1>2, <2>1 DEF BuildClickUrl
  <2>3. w.pc = "inserting" /\ ClickOK(v, w)
    BY <1>1, <2>1 DEF ClickOK
  <2>4. PageOK(v, w, catalog, clicks)
    BY <2>3, ClickStays
  <2> QED
    BY <2>2, <2>4, SeenWell
<1>3. CASE view[v].met.row.template # "whole"
  <2>1. PICK w : w = Refused(v, "link")
    OBVIOUS
  <2>2. See(v, w)
    BY <1>3, <2>1 DEF BuildClickUrl
  <2>3. view[v].met.row.template = "partial"
    BY <1>1, <1>3 DEF ClickOK, AsWas, OfferRow
  <2>4. PageOK(v, w, catalog, clicks)
    BY <1>1, <2>1, <2>3, RefusalIsOK
  <2> QED
    BY <2>2, <2>4, SeenWell
<1> QED
    BY <1>2, <1>3

LEMMA PressStartKeeps ==
    ASSUME WallInv, NEW v \in Visitor, NEW s \in Server, PressStart(v, s)
    PROVE  WallInv'
<1>1. PageOK(v, view[v], catalog, clicks) /\ view[v].on = "offer"
    BY DEF WallInv, PressStart
<1>2. PICK shown : shown = view[v].shown
    OBVIOUS
<1>3. Offered(shown) /\ shown.deal \in Deal /\ AsWas(shown.deal, shown.row, catalog)
    BY <1>1, <1>2 DEF PageOK
<1>4. PICK w : w = [on |-> "clicking", pc |-> "offer", server |-> s, shown |-> shown,
                    met |-> Card(shown.deal, catalog[shown.deal], "unread")]
    OBVIOUS
<1>5. /\ DOMAIN view' = Visitor /\ view'[v] = w
      /\ \A u \in Visitor \ {v} : view'[u] = view[u]
    BY <1>2, <1>4 DEF WallInv, PressStart
<1>6. ClickOK(v, w) /\ w.pc = "offer"
    BY <1>3, <1>4, ReadNow DEF ClickOK, Card, AsWas
<1>7. PageOK(v, w, catalog, clicks)
    BY <1>6, ClickStays
<1>8. happened' \in [changes : Nat, runs : Nat, starts : Nat] /\ happened'.runs = happened.runs
    BY DEF WallInv, CatalogOK, PressStart
<1>9. UNCHANGED <<rates, catalog, run, clicks>>
    BY DEF PressStart
<1>10. ClicksOK'
    BY <1>9 DEF WallInv, ClicksOK
<1> QED
    BY <1>5, <1>7, <1>8, <1>9, <1>10, MovedKeeps

LEMMA InsertClickKeeps ==
    ASSUME WallInv, NEW v \in Visitor, InsertClick(v)
    PROVE  WallInv'
<1>1. view[v].on = "clicking" /\ ClickOK(v, view[v])
    BY ClicksAreOK DEF InsertClick, Clicking
<1>2. PICK w : w = view[v]
    OBVIOUS
<1>3. PICK c : c = [visitor |-> v, deal |-> w.met.deal, points |-> w.met.row.points, by |-> w.met.row.by]
    OBVIOUS
<1>4. clicks' = clicks \cup {c}
    BY <1>2, <1>3 DEF InsertClick, PromiseOf
<1>5. PICK u : u = [w EXCEPT !.pc = "answering"]
    OBVIOUS
<1>6. /\ DOMAIN view' = Visitor /\ view'[v] = u
      /\ \A x \in Visitor \ {v} : view'[x] = view[x]
    BY <1>2, <1>5 DEF WallInv, InsertClick
<1>7. /\ UNCHANGED <<rates, catalog, run, happened>>
      /\ happened' \in [changes : Nat, runs : Nat, starts : Nat] /\ happened'.runs = happened.runs
    BY DEF WallInv, CatalogOK, InsertClick
<1>8. ClicksOK'
  <2>1. /\ c.deal \in Deal /\ c.by \in Nat /\ c.by <= catalog[c.deal].by
        /\ c.by = catalog[c.deal].by => c.points = catalog[c.deal].points
    BY <1>1, <1>2, <1>3 DEF ClickOK, AsWas, OfferRow
  <2> QED
    BY <1>4, <1>7, <2>1 DEF WallInv, ClicksOK
<1>9. ClickOK(v, u) /\ u.shown = w.shown
    BY <1>1, <1>2, <1>5 DEF ClickOK
<1>10. HasClick(v, u.shown, clicks')
  <2>1. /\ c.visitor = v /\ c.deal = w.shown.deal
        /\ c.by = w.shown.row.by => c.points = w.shown.row.points
    BY <1>1, <1>2, <1>3 DEF ClickOK
  <2> QED
    BY <1>4, <1>9, <2>1 DEF HasClick
<1>11. PageOK(v, u, catalog, clicks')
    BY <1>9, <1>10 DEF PageOK, ClickOK
<1> QED
    BY <1>4, <1>6, <1>7, <1>8, <1>11, MovedKeeps

LEMMA RedirectKeeps ==
    ASSUME WallInv, NEW v \in Visitor, Redirect(v)
    PROVE  WallInv'
<1>1. HasClick(v, view[v].shown, clicks)
    BY ClicksAreOK DEF Redirect, Clicking
<1>2. PICK w : w = [on |-> "left", shown |-> view[v].shown, met |-> view[v].met]
    OBVIOUS
<1>3. See(v, w)
    BY <1>2 DEF Redirect
<1>4. PageOK(v, w, catalog, clicks)
    BY <1>1, <1>2 DEF PageOK
<1> QED
    BY <1>3, <1>4, SeenWell

LEMMA LoseClickKeeps ==
    ASSUME WallInv, NEW v \in Visitor, LoseClick(v)
    PROVE  WallInv'
<1>1. PICK w : w = Refused(v, "unanswered")
    OBVIOUS
<1>2. See(v, w) /\ view[v].on = "clicking"
    BY <1>1 DEF LoseClick
<1>3. PageOK(v, w, catalog, clicks)
    BY <1>1, <1>2, RefusalIsOK
<1> QED
    BY <1>2, <1>3, SeenWell

-----------------------------------------------------------------------------
(* The catalog and its runs *)

LEMMA WrittenKeeps ==
    ASSUME WallInv, UNCHANGED <<view, clicks>>, CatalogOK', RunOK', Grows(catalog, catalog')
    PROVE  WallInv'
<1>1. catalog \in [Deal -> OfferRow] /\ catalog' \in [Deal -> OfferRow]
    BY DEF WallInv, CatalogOK
<1>2. ASSUME NEW c \in clicks
      PROVE  /\ c.deal \in Deal /\ c.by \in Nat /\ c.by <= catalog'[c.deal].by
             /\ c.by = catalog'[c.deal].by => c.points = catalog'[c.deal].points
  <2>1. /\ c.deal \in Deal /\ c.by \in Nat /\ c.by <= catalog[c.deal].by
        /\ c.by = catalog[c.deal].by => c.points = catalog[c.deal].points
    BY <1>2 DEF WallInv, ClicksOK
  <2>2. catalog[c.deal].by \in Nat /\ catalog'[c.deal].by \in Nat
    BY <1>1, <2>1 DEF OfferRow
  <2> QED
    BY <2>1, <2>2 DEF Grows
<1>3. ClicksOK'
    BY <1>2 DEF ClicksOK
<1>4. ASSUME NEW v \in Visitor
      PROVE  PageOK(v, view'[v], catalog', clicks')
  <2>1. PICK w : w = view[v]
    OBVIOUS
  <2>2. PICK cat : cat = catalog'
    OBVIOUS
  <2>3. PageOK(v, w, catalog, clicks)
    BY <1>4, <2>1 DEF WallInv
  <2>4. PageOK(v, w, cat, clicks)
    BY <1>1, <2>2, <2>3, PageStays
  <2> QED
    BY <2>1, <2>2, <2>4
<1> QED
    BY <1>3, <1>4 DEF WallInv

LEMMA UnwrittenKeeps ==
    ASSUME WallInv, UNCHANGED <<view, clicks, catalog>>, CatalogOK', RunOK'
    PROVE  WallInv'
    BY WrittenKeeps DEF Grows

\* Only standings move.
LEMMA StandingsKeep ==
    ASSUME WallInv, UNCHANGED <<view, clicks, rates>>,
           happened' \in [changes : Nat, runs : Nat, starts : Nat], happened'.runs = happened.runs,
           catalog' \in [Deal -> OfferRow], SamePrices(catalog, catalog'), RunOK'
    PROVE  WallInv'
<1>1. PICK cat : cat = catalog'
    OBVIOUS
<1>2. ASSUME NEW written \in Nat
      PROVE  PricedBy(written, cat)
    BY <1>1, <1>2, PricesStay DEF WallInv, CatalogOK
<1>3. CatalogOK'
    BY <1>1, <1>2 DEF WallInv, CatalogOK, SamePrices
<1>4. Grows(catalog, catalog')
    BY DEF SamePrices, Grows
<1> QED
    BY <1>3, <1>4, WrittenKeeps

LEMMA PullOfferKeeps ==
    ASSUME WallInv, NEW d \in Deal, PullOffer(d)
    PROVE  WallInv'
<1>1. PICK row \in OfferRow : row = catalog[d]
    BY DEF WallInv, CatalogOK
<1>2. PICK row2 : row2 = [row EXCEPT !.standing = IF @ = "active" THEN "ADMIN" ELSE "active"]
    OBVIOUS
<1>3. row2 \in OfferRow /\ row2.by = row.by /\ row2.points = row.points /\ row2.payout = row.payout
    BY <1>1, <1>2 DEF OfferRow
<1>4. catalog \in [Deal -> OfferRow] /\ catalog' = [catalog EXCEPT ![d] = row2]
    BY <1>1, <1>2 DEF WallInv, CatalogOK, PullOffer
<1>5. catalog' \in [Deal -> OfferRow] /\ SamePrices(catalog, catalog')
    BY <1>1, <1>3, <1>4 DEF SamePrices
<1>6. happened' \in [changes : Nat, runs : Nat, starts : Nat] /\ happened'.runs = happened.runs
    BY DEF WallInv, CatalogOK, PullOffer, Changes
<1>7. UNCHANGED <<view, clicks, rates, run>>
    BY DEF PullOffer
<1>8. RunOK'
    BY <1>5, <1>6, <1>7 DEF WallInv, RunOK, SamePrices
<1> QED
    BY <1>5, <1>6, <1>7, <1>8, StandingsKeep

LEMMA EndRunKeeps ==
    ASSUME WallInv, EndRun
    PROVE  WallInv'
<1>1. UNCHANGED <<view, clicks, rates, happened>> /\ run'.pc = "idle"
    BY DEF EndRun, IdleRun
<1>2. RunOK'
    BY <1>1 DEF RunOK
<1>3. catalog \in [Deal -> OfferRow]
    BY DEF WallInv, CatalogOK
<1>4. catalog' \in [Deal -> OfferRow] /\ SamePrices(catalog, catalog')
  <2>1. CASE UNCHANGED catalog
    BY <1>3, <2>1 DEF SamePrices
  <2>2. CASE catalog' = [d \in Deal |->
                IF SlugOf[d] = run.of /\ d \notin run.written /\ catalog[d].standing = "active"
                THEN [catalog[d] EXCEPT !.standing = "SYNC"] ELSE catalog[d]]
    <3>1. ASSUME NEW d \in Deal
          PROVE  /\ catalog'[d] \in OfferRow
                 /\ catalog'[d].by = catalog[d].by /\ catalog'[d].points = catalog[d].points
                 /\ catalog'[d].payout = catalog[d].payout
      <4>1. PICK row \in OfferRow : row = catalog[d]
        BY <1>3, <3>1
      <4>2. catalog'[d] = row \/ catalog'[d] = [row EXCEPT !.standing = "SYNC"]
        BY <2>2, <3>1, <4>1
      <4> QED
        BY <4>1, <4>2 DEF OfferRow
    <3> QED
      BY <2>2, <3>1 DEF SamePrices
  <2> QED
    BY <2>1, <2>2 DEF EndRun
<1>5. happened' \in [changes : Nat, runs : Nat, starts : Nat] /\ happened'.runs = happened.runs
    BY <1>1 DEF WallInv, CatalogOK
<1> QED
    BY <1>1, <1>2, <1>4, <1>5, StandingsKeep

LEMMA StartRunKeeps ==
    ASSUME WallInv, NEW p \in Slug, StartRun(p)
    PROVE  WallInv'
<1>1. UNCHANGED <<view, clicks, rates, catalog>> /\ run'.pc = "requiring"
    BY DEF StartRun
<1>2. happened' \in [changes : Nat, runs : Nat, starts : Nat] /\ happened'.runs = happened.runs + 1
    BY DEF WallInv, CatalogOK, StartRun
<1>3. ASSUME NEW d \in Deal
      PROVE  catalog[d].by <= happened'.runs /\ catalog[d].by < happened'.runs
  <2>1. catalog[d].by \in Nat /\ happened.runs \in Nat /\ catalog[d].by <= happened.runs
    BY <1>3 DEF WallInv, CatalogOK, OfferRow
  <2> QED
    BY <1>2, <2>1
<1>4. CatalogOK'
    BY <1>1, <1>2, <1>3 DEF WallInv, CatalogOK
<1>5. RunOK'
    BY <1>1, <1>3 DEF RunOK
<1> QED
    BY <1>1, <1>4, <1>5, UnwrittenKeeps

LEMMA RequireForRunKeeps ==
    ASSUME WallInv, RequireForRun
    PROVE  WallInv'
<1>1. UNCHANGED <<view, clicks, rates, catalog, happened>>
    BY DEF RequireForRun
<1>2. CatalogOK'
    BY <1>1 DEF WallInv, CatalogOK
<1>3. \A d \in Deal : catalog[d].by < happened.runs
    BY DEF WallInv, RunOK, RequireForRun
<1>4. run' = [pc |-> "resolving", of |-> run.of, rates |-> <<>>] \/ run'.pc = "idle"
    BY DEF RequireForRun, IdleRun
<1>5. RunOK'
    BY <1>1, <1>3, <1>4 DEF RunOK
<1> QED
    BY <1>1, <1>2, <1>5, UnwrittenKeeps

LEMMA ResolveRateKeeps ==
    ASSUME WallInv, NEW key \in RateKeys, ResolveRate(key)
    PROVE  WallInv'
<1>1. UNCHANGED <<view, clicks, rates, catalog, happened>>
    BY DEF ResolveRate
<1>2. CatalogOK'
    BY <1>1 DEF WallInv, CatalogOK
<1>3. /\ run.pc = "resolving"
      /\ \A d \in Deal : catalog[d].by < happened.runs
      /\ run = [pc |-> "resolving", of |-> run.of, rates |-> run.rates]
      /\ DOMAIN run.rates \subseteq RateKeys
      /\ \A k \in DOMAIN run.rates : run.rates[k] \in RateValues[k]
    BY DEF WallInv, RunOK, ResolveRate
<1>4. PICK read : read = [k \in DOMAIN run.rates \cup {key} |-> IF k = key THEN rates[key] ELSE run.rates[k]]
    OBVIOUS
<1>5. run' = [pc |-> "resolving", of |-> run.of, rates |-> read]
    BY <1>3, <1>4 DEF ResolveRate
<1>6. rates[key] \in RateValues[key]
    BY DEF WallInv, CatalogOK
<1>7. /\ DOMAIN read \subseteq RateKeys
      /\ \A k \in DOMAIN read : read[k] \in RateValues[k]
    BY <1>3, <1>4, <1>6
<1>8. RunOK'
    BY <1>1, <1>3, <1>5, <1>7 DEF RunOK
<1> QED
    BY <1>1, <1>2, <1>8, UnwrittenKeeps

LEMMA FetchOffersKeeps ==
    ASSUME WallInv, FetchOffers
    PROVE  WallInv'
<1>1. UNCHANGED <<view, clicks, rates, catalog, happened>>
    BY DEF FetchOffers
<1>2. CatalogOK'
    BY <1>1 DEF WallInv, CatalogOK
<1>3. /\ run.pc = "resolving" /\ DOMAIN run.rates = RateKeys
      /\ \A d \in Deal : catalog[d].by < happened.runs
      /\ \A k \in DOMAIN run.rates : run.rates[k] \in RateValues[k]
    BY DEF WallInv, RunOK, FetchOffers
<1>4. PICK r : r = run.rates
    OBVIOUS
<1>5. RatesOK(r)
    BY <1>3, <1>4 DEF RatesOK, RateKeys
<1>6. PICK listed \in SUBSET {d \in Deal : SlugOf[d] = run.of} : \E campaign \in [listed -> Campaign] :
          run' = [pc |-> "writing", of |-> run.of, rates |-> run.rates, written |-> {},
                  todo |-> LET good == {d \in listed : Normalizes(campaign[d]) /\ Maps(campaign[d], run.rates)}
                           IN [d \in good |-> [payout |-> campaign[d].payout, template |-> campaign[d].template]]]
    BY DEF FetchOffers
<1>7. PICK campaign \in [listed -> Campaign] :
          run' = [pc |-> "writing", of |-> run.of, rates |-> run.rates, written |-> {},
                  todo |-> LET good == {d \in listed : Normalizes(campaign[d]) /\ Maps(campaign[d], run.rates)}
                           IN [d \in good |-> [payout |-> campaign[d].payout, template |-> campaign[d].template]]]
    BY <1>6
<1>8. PICK good : good = {d \in listed : Normalizes(campaign[d]) /\ Maps(campaign[d], r)}
    OBVIOUS
<1>9. PICK todo : todo = [d \in good |-> [payout |-> campaign[d].payout, template |-> campaign[d].template]]
    OBVIOUS
<1>10. run' = [pc |-> "writing", of |-> run.of, rates |-> r, written |-> {}, todo |-> todo]
    BY <1>4, <1>7, <1>8, <1>9
<1>11. Mapped(todo, r)
  <2>1. DOMAIN todo \subseteq Deal
    BY <1>6, <1>8, <1>9
  <2>2. ASSUME NEW d \in DOMAIN todo
        PROVE  /\ todo[d].payout \in Int /\ todo[d].template \in {"whole", "partial"}
               /\ ToRewardPoints(todo[d].payout, r) >= 1
    <3>1. PICK c \in Campaign : c = campaign[d] /\ Normalizes(c) /\ Maps(c, r)
      BY <1>8, <1>9, <2>2
    <3>2. todo[d].payout = c.payout /\ todo[d].template = c.template
      BY <1>9, <2>2, <3>1
    <3>3. c.payout \in Int /\ c.template \in {"whole", "partial", "without sub id"}
      BY WallAssumption
    <3> QED
      BY <3>1, <3>2, <3>3 DEF Normalizes, Maps
  <2>3. ASSUME NEW d \in DOMAIN todo
        PROVE  ToRewardPoints(todo[d].payout, r) \in Int
    BY <1>5, <2>2, <2>3, PointsAreInt
  <2> QED
    BY <2>1, <2>2, <2>3 DEF Mapped
<1>12. RunOK'
  <2>1. ASSUME NEW d \in Deal
        PROVE  catalog[d].by # happened.runs
    <3>1. catalog[d].by \in Nat /\ happened.runs \in Nat
      BY <2>1 DEF WallInv, CatalogOK, OfferRow
    <3> QED
      BY <1>3, <2>1, <3>1
  <2> QED
    BY <1>1, <1>3, <1>5, <1>10, <1>11, <2>1 DEF RunOK
<1> QED
    BY <1>1, <1>2, <1>12, UnwrittenKeeps

LEMMA WriteOfferKeeps ==
    ASSUME WallInv, NEW d \in Deal, WriteOffer(d)
    PROVE  WallInv'
<1>1. UNCHANGED <<view, clicks, rates, happened>> /\ run.pc = "writing" /\ d \in DOMAIN run.todo \ run.written
    BY DEF WriteOffer
<1>2. /\ run = [pc |-> "writing", of |-> run.of, rates |-> run.rates, written |-> run.written, todo |-> run.todo]
      /\ RatesOK(run.rates) /\ Mapped(run.todo, run.rates)
      /\ \A x \in Deal \ run.written : catalog[x].by < happened.runs
      /\ \A x \in Deal : catalog[x].by = happened.runs =>
            catalog[x].points = ToRewardPoints(catalog[x].payout, run.rates)
    BY <1>1 DEF WallInv, RunOK
<1>3. PICK r : r = run.rates
    OBVIOUS
<1>4. PICK new : new = [standing |-> IF catalog[d].standing = "ADMIN" THEN "ADMIN" ELSE "active",
                        payout |-> run.todo[d].payout, points |-> ToRewardPoints(run.todo[d].payout, r),
                        template |-> run.todo[d].template, by |-> happened.runs]
    OBVIOUS
<1>5. /\ catalog \in [Deal -> OfferRow]
      /\ happened \in [changes : Nat, runs : Nat, starts : Nat]
      /\ \A x \in Deal : catalog[x].by <= happened.runs /\ catalog[x].points >= 1
      /\ \A written \in Nat : PricedBy(written, catalog)
    BY DEF WallInv, CatalogOK
<1>6. catalog' = [catalog EXCEPT ![d] = new]
    BY <1>3, <1>4, <1>5 DEF WriteOffer, PricingOf
<1>7. /\ new \in OfferRow /\ new.points >= 1 /\ new.by = happened.runs
      /\ new.points = ToRewardPoints(new.payout, r)
    BY <1>1, <1>2, <1>3, <1>4, <1>5 DEF Mapped, OfferRow
<1>8. PICK cat \in [Deal -> OfferRow] : cat = catalog'
    BY <1>5, <1>6, <1>7
<1>9. cat[d] = new /\ \A x \in Deal \ {d} : cat[x] = catalog[x]
    BY <1>5, <1>6, <1>8
<1>10. \A x \in Deal : cat[x].by = happened.runs => cat[x].points = ToRewardPoints(cat[x].payout, r)
    BY <1>2, <1>3, <1>7, <1>9
<1>11. \A x \in Deal \ (run.written \cup {d}) : cat[x].by < happened.runs
    BY <1>2, <1>9
<1>12. ASSUME NEW written \in Nat
       PROVE  PricedBy(written, cat)
  <2>1. CASE written = happened.runs
    <3>1. PICK unit \in RateValues["pointsPerMinorUnit"] : unit = r.pointsPerMinorUnit
      BY <1>2, <1>3 DEF RatesOK
    <3>2. PICK share \in RateValues["rewardSharePercent"] : share = r.rewardSharePercent
      BY <1>2, <1>3 DEF RatesOK
    <3>3. ASSUME NEW payout
          PROVE  ToRewardPoints(payout, r) =
                     ToRewardPoints(payout, [pointsPerMinorUnit |-> unit, rewardSharePercent |-> share])
      BY <3>1, <3>2 DEF ToRewardPoints
    <3>4. \A x \in Deal : cat[x].by = written =>
              cat[x].points = ToRewardPoints(cat[x].payout, [pointsPerMinorUnit |-> unit, rewardSharePercent |-> share])
      BY <1>10, <2>1, <3>3
    <3> QED
      BY <3>4 DEF PricedBy
  <2>2. CASE written # happened.runs
    <3>1. PricedBy(written, catalog)
      BY <1>5, <1>12
    <3>2. cat[d].by # written
      BY <1>7, <1>9, <2>2
    <3> QED
      BY <1>9, <3>1, <3>2 DEF PricedBy
  <2> QED
    BY <2>1, <2>2
<1>13. \A x \in Deal : cat[x].by <= happened.runs /\ cat[x].points >= 1
    BY <1>5, <1>7, <1>9
<1>14. CatalogOK'
    BY <1>1, <1>5, <1>8, <1>12, <1>13 DEF WallInv, CatalogOK
<1>15. run' = [pc |-> "writing", of |-> run.of, rates |-> r, written |-> run.written \cup {d}, todo |-> run.todo]
    BY <1>2, <1>3 DEF WriteOffer
<1>16. RunOK'
    BY <1>1, <1>2, <1>3, <1>8, <1>10, <1>11, <1>15 DEF RunOK
<1>17. Grows(catalog, catalog')
  <2>1. catalog[d].by < happened.runs
    BY <1>1, <1>2
  <2> QED
    BY <1>7, <1>8, <1>9, <2>1 DEF Grows
<1> QED
    BY <1>1, <1>14, <1>16, <1>17, WrittenKeeps

LEMMA SetRateKeeps ==
    ASSUME WallInv, NEW key \in RateKeys, NEW value \in RateValues[key], SetRate(key, value)
    PROVE  WallInv'
<1>1. UNCHANGED <<view, clicks, catalog, run>> /\ rates' = [rates EXCEPT ![key] = value]
    BY DEF SetRate
<1>2. happened' \in [changes : Nat, runs : Nat, starts : Nat] /\ happened'.runs = happened.runs
    BY DEF WallInv, CatalogOK, SetRate, Changes
<1>3. rates = [k \in RateKeys |-> rates[k]] /\ \A k \in RateKeys : rates[k] \in RateValues[k]
    BY DEF WallInv, CatalogOK
<1>4. rates' = [k \in RateKeys |-> rates'[k]] /\ \A k \in RateKeys : rates'[k] \in RateValues[k]
    BY <1>1, <1>3
<1>5. CatalogOK'
    BY <1>1, <1>2, <1>4 DEF WallInv, CatalogOK
<1>6. RunOK'
    BY <1>1, <1>2 DEF WallInv, RunOK
<1> QED
    BY <1>1, <1>5, <1>6, UnwrittenKeeps

\* Registries and switches, which no page or row depends on.
LEMMA ElsewhereKeeps ==
    ASSUME WallInv, UNCHANGED <<view, clicks, catalog, run, rates>>,
           happened' \in [changes : Nat, runs : Nat, starts : Nat], happened'.runs = happened.runs
    PROVE  WallInv'
<1>1. CatalogOK'
    BY DEF WallInv, CatalogOK
<1>2. RunOK'
    BY DEF WallInv, RunOK
<1> QED
    BY <1>1, <1>2, UnwrittenKeeps

LEMMA WallInitially == WallInit => WallInv
<1> SUFFICES ASSUME WallInit PROVE WallInv
    OBVIOUS
<1>1. \A key \in RateKeys : FirstRates[key] \in RateValues[key]
    BY RatesAssumption DEF FirstRates
<1>2. rates = FirstRates /\ rates = [key \in RateKeys |-> rates[key]]
    BY DEF WallInit, FirstRates
<1>3. RatesOK(rates)
    BY <1>1, <1>2 DEF RatesOK, RateKeys
<1>4. PICK points \in Int : points = ToRewardPoints(2, rates)
    BY <1>3, PointsAreInt
<1>5. points >= 1
    BY <1>2, <1>4, FirstOffersAssumption
<1>6. catalog = [d \in Deal |-> [standing |-> "active", payout |-> 2, points |-> points,
                                 template |-> "whole", by |-> 0]]
    BY <1>4 DEF WallInit
<1>7. catalog \in [Deal -> OfferRow]
    BY <1>6 DEF OfferRow
<1>8. PICK unit \in RateValues["pointsPerMinorUnit"] : unit = rates.pointsPerMinorUnit
    BY <1>3 DEF RatesOK
<1>9. PICK share \in RateValues["rewardSharePercent"] : share = rates.rewardSharePercent
    BY <1>3 DEF RatesOK
<1>10. points = ToRewardPoints(2, [pointsPerMinorUnit |-> unit, rewardSharePercent |-> share])
    BY <1>4, <1>8, <1>9 DEF ToRewardPoints
<1>11. ASSUME NEW written \in Nat
       PROVE  PricedBy(written, catalog)
    BY <1>6, <1>10 DEF PricedBy
<1>12. happened = [changes |-> 0, runs |-> 0, starts |-> 0]
    BY DEF WallInit
<1>13. \A d \in Deal : catalog[d].by <= happened.runs /\ catalog[d].points >= 1
    BY <1>5, <1>6, <1>12
<1>14. happened \in [changes : Nat, runs : Nat, starts : Nat]
    BY <1>12
<1>15. CatalogOK
    BY <1>1, <1>2, <1>7, <1>11, <1>13, <1>14 DEF CatalogOK
<1>16. RunOK /\ ClicksOK
    BY DEF WallInit, RunOK, ClicksOK, IdleRun
<1>17. DOMAIN view = Visitor
    BY DEF WallInit
<1>18. ASSUME NEW v \in Visitor
       PROVE  PageOK(v, view[v], catalog, clicks)
    BY DEF WallInit, Away, PageOK
<1> QED
    BY <1>15, <1>16, <1>17, <1>18 DEF WallInv

LEMMA WallStep == WallInv /\ [WallNext]_wallVars => WallInv'
<1> SUFFICES ASSUME WallInv, [WallNext]_wallVars PROVE WallInv'
    OBVIOUS
<1>1. ASSUME NEW s \in Server, LoadRegistry(s)
      PROVE  WallInv'
  <2>1. happened' \in [changes : Nat, runs : Nat, starts : Nat] /\ happened'.runs = happened.runs
    BY <1>1 DEF LoadRegistry, WallInv, CatalogOK
  <2> QED
    BY <1>1, <2>1, ElsewhereKeeps DEF LoadRegistry
<1>2. ASSUME NEW p \in Slug, SwitchProvider(p)
      PROVE  WallInv'
  <2>1. happened' \in [changes : Nat, runs : Nat, starts : Nat] /\ happened'.runs = happened.runs
    BY <1>2 DEF SwitchProvider, Changes, WallInv, CatalogOK
  <2> QED
    BY <1>2, <2>1, ElsewhereKeeps DEF SwitchProvider
<1>3. ASSUME NEW key \in RateKeys, NEW value \in RateValues[key], SetRate(key, value)
      PROVE  WallInv'
    BY <1>3, SetRateKeeps
<1>4. ASSUME NEW d \in Deal, PullOffer(d)
      PROVE  WallInv'
    BY <1>4, PullOfferKeeps
<1>5. ASSUME RunNext
      PROVE  WallInv'
    BY <1>5, StartRunKeeps, RequireForRunKeeps, ResolveRateKeeps, FetchOffersKeeps, WriteOfferKeeps, EndRunKeeps
       DEF RunNext
<1>6. ASSUME NEW v \in Visitor, VisitNext(v)
      PROVE  WallInv'
  <2>1. CASE \E s \in Server : OpenWall(v, s) \/ PressStart(v, s) \/ \E d \in Deal : OpenOffer(v, s, d)
    BY <2>1, OpenWallKeeps, PressStartKeeps, OpenOfferKeeps
  <2>2. CASE FindForWall(v) \/ ReadOffer(v) \/ Leave(v)
    BY <2>2, FindForWallKeeps, ReadOfferKeeps, LeaveKeeps
  <2>3. CASE RequireActive(v) \/ RequireRegistered(v) \/ CheckLimits(v) \/ BuildClickUrl(v)
    BY <2>3, RequireActiveKeeps, RequireRegisteredKeeps, CheckLimitsKeeps, BuildClickUrlKeeps
  <2>4. CASE InsertClick(v) \/ Redirect(v) \/ LoseClick(v)
    BY <2>4, InsertClickKeeps, RedirectKeeps, LoseClickKeeps
  <2> QED
    BY <1>6, <2>1, <2>2, <2>3, <2>4 DEF VisitNext
<1>7. CASE UNCHANGED wallVars
  <2>1. happened' \in [changes : Nat, runs : Nat, starts : Nat] /\ happened'.runs = happened.runs
    BY <1>7 DEF wallVars, WallInv, CatalogOK
  <2> QED
    BY <1>7, <2>1, ElsewhereKeeps DEF wallVars
<1> QED
    BY <1>1, <1>2, <1>3, <1>4, <1>5, <1>6, <1>7 DEF WallNext

\* Pages, rows and clicks are as the wall's properties need them, at every step.
THEOREM WallInductive == WallSpec => []WallInv
<1>1. WallInv /\ [WallNext]_wallVars => WallInv'
    BY WallStep
<1> QED
    BY <1>1, WallInitially, PTL DEF WallSpec

\* What the wall shows has a page and what a page shows can be started, unless
\* something became otherwise, and who is sent on has a click that promises what
\* his page said (OfferWallService, ClicksService.create), for every number of
\* visitors, processes, builds of adapters and runs.
THEOREM WordKept == WallSpec => []WallKeepsItsWord
<1>1. WallInv => WallKeepsItsWord
  <2> SUFFICES ASSUME WallInv, NEW v \in Visitor
               PROVE  LET w == view[v] IN
                      /\ w.on = "missing" /\ w.shown # None =>
                            w.met.row.standing # w.shown.row.standing \/ w.met.verdict # w.shown.verdict
                      /\ w.on = "refused" =>
                            /\ w.why = "offer" => w.met.row.standing # w.shown.row.standing
                            /\ w.why = "provider" => w.met.verdict # w.shown.verdict
                            /\ w.why = "link" => w.met.row.template = "partial"
                      /\ w.on = "left" =>
                            \E c \in clicks :
                               /\ c.visitor = v /\ c.deal = w.shown.deal
                               /\ c.by = w.shown.row.by => c.points = w.shown.row.points
    BY DEF WallKeepsItsWord
  <2>1. PageOK(v, view[v], catalog, clicks)
    BY DEF WallInv
  <2> QED
    BY <2>1 DEF PageOK, Offered, HasClick
<1> QED
    BY <1>1, WallInductive, PTL

\* The offers that one run wrote are priced with one set of rates, however they
\* are changed meanwhile; none pays nothing, and a click promises what its offer
\* paid (RatesService.resolve, toRewardPoints).
THEOREM OneSetOfRates == WallSpec => []PricedTogether
<1>1. WallInv => PricedTogether
  <2> SUFFICES ASSUME WallInv PROVE PricedTogether
    OBVIOUS
  <2>1. ASSUME NEW written \in 0..MaxRuns
        PROVE  PricedBy(written, catalog)
    <3>1. MaxRuns \in Nat
      BY WallAssumption
    <3>2. written \in Nat
      BY <2>1, <3>1
    <3> QED
      BY <3>2 DEF WallInv, CatalogOK
  <2>2. \A d \in Deal : catalog[d].points >= 1
    BY DEF WallInv, CatalogOK
  <2>3. \A c \in clicks : catalog[c.deal].by = c.by => catalog[c.deal].points = c.points
    BY DEF WallInv, ClicksOK
  <2> QED
    BY <2>1, <2>2, <2>3 DEF PricedTogether, PricedBy
<1> QED
    BY <1>1, WallInductive, PTL

-----------------------------------------------------------------------------
(* Withdrawals: what is known of settings, points, forms and submissions.  *)

Allowed(k) == {FirstSettings[k]} \cup Settings[k]

SettingsOK(sets) ==
    /\ sets = [k \in SettingKeys |-> sets[k]]
    /\ \A k \in SettingKeys : sets[k] \in Seq(Allowed(k)) /\ Len(sets[k]) >= 1

FundsRecord == [available : Nat, falls : Nat]

RequestRecord == [press : Nat, amount : Nat, method : {typed.method : typed \in Typed}, recent : BOOLEAN,
                  cash : Int, rate : Allowed("rate"), currency : Allowed("currency")]

\* A key was edited after a mark.
Edited(k, marks, sets) == Len(sets[k]) > marks[k]

MarksOK(marks, sets) == \A k \in SettingKeys : marks[k] \in 1..Len(sets[k])

\* What was read is what was marked, or the key was edited since.
ReadFrom(rules, keys, marks, sets) ==
    \A k \in keys : rules[k] \in Allowed(k) /\ (rules[k] = sets[k][marks[k]] \/ Edited(k, marks, sets))

\* The points of a page are there still, or fell since.
PointsOK(available, falls, f) ==
    /\ available \in Nat /\ falls \in Nat /\ falls <= f.falls
    /\ available <= f.available \/ falls < f.falls

FormOK(page, sets, f) ==
    /\ MarksOK(page.marks, sets)
    /\ ReadFrom(page.options, OptionKeys, page.marks, sets)
    /\ page.available # Unknown => PointsOK(page.available, page.falls, f)

Submitting == {"reading", "counting", "locking", "answering"}

Made(press, reqs) == \E i \in 1..Len(reqs) : reqs[i].press = press

\* The request that is said to be received.
Recorded(c, reqs, sets) ==
    \E i \in 1..Len(reqs) :
        /\ reqs[i].press = c.press /\ reqs[i].amount = c.typed.amount /\ reqs[i].method = c.typed.method
        /\ \/ reqs[i].cash = CashMinorFor(c.typed.amount, c.form.options.rate)
           \/ Edited("rate", c.form.marks, sets)

\* What the form let through is refused for what has changed.
Excused(c, sets, f) ==
    /\ FieldFor(c.in) = "method" => Edited("methods", c.form.marks, sets)
    /\ FieldFor(c.in) = "amountPoints" =>
          Edited("minimum", c.form.marks, sets) \/ Edited("maximum", c.form.marks, sets)
    /\ FieldFor(c.in) = "destination" => ~c.typed.legible
    /\ c.in = "INSUFFICIENT_BALANCE" => c.form.available = Unknown \/ f.falls > c.form.falls

\* What a submission took from the settings.
RulesInHand(c, sets) ==
    /\ c.typed.amount >= 1
    /\ c.in.rate \in Allowed("rate") /\ c.in.currency \in Allowed("currency")
    /\ c.in.rate = c.form.options.rate \/ Edited("rate", c.form.marks, sets)

CallOK(c, sets, f, reqs, n) ==
    /\ c.pc \in Submitting \cup {"waiting", "loading"}
    /\ c.pc = "loading" => MarksOK(c.marks, sets) /\ PointsOK(c.available, c.falls, f)
    /\ c.pc \in Submitting => c.press \in 1..n /\ c.typed \in Typed /\ FormOK(c.form, sets, f)
    /\ c.pc = "reading" => MarksOK(c.marks, sets) /\ \A k \in SettingKeys : c.form.marks[k] <= c.marks[k]
    /\ c.pc = "counting" => \E i \in 1..Len(sets["cap"]) : c.in.cap = sets["cap"][i]
    /\ c.pc \in {"counting", "locking"} => RulesInHand(c, sets)
    /\ c.pc \in {"reading", "counting", "locking"} => ~Made(c.press, reqs)
    /\ c.pc = "answering" =>
          /\ c.in \notin {"done", "INTERNAL_ERROR"} => ~Made(c.press, reqs)
          /\ c.in = "done" => Recorded(c, reqs, sets)
          /\ c.in # "done" /\ Fits(c.form, c.typed) => Excused(c, sets, f)

\* No press is submitted twice.
PressesDiffer(calls) ==
    \A t \in Tab : \A u \in Tab :
        t # u /\ calls[t].pc \in Submitting /\ calls[u].pc \in Submitting => calls[t].press # calls[u].press

Recent(reqs) == {i \in 1..Len(reqs) : reqs[i].recent}
Locking(calls) == {t \in Tab : calls[t].pc = "locking"}

\* Whoever has counted and not yet locked is counted with the requests.
CapHolds(sets, reqs, calls) ==
    \E i \in 1..Len(sets["cap"]) :
        Cardinality(Recent(reqs)) + Cardinality(Locking(calls)) < sets["cap"][i] + Cardinality(Tab)

BooksOK(sets, f, reqs, n) ==
    /\ SettingsOK(sets)
    /\ f \in FundsRecord /\ n \in Nat
    /\ reqs \in Seq(RequestRecord)
    /\ \A i \in 1..Len(reqs) : reqs[i].press <= n

WithdrawalsInv ==
    /\ BooksOK(settings, funds, requests, spent)
    /\ DOMAIN screen = Tab /\ DOMAIN call = Tab
    /\ \A t \in Tab : screen[t] = Shut \/ FormOK(screen[t], settings, funds)
    /\ \A t \in Tab : CallOK(call[t], settings, funds, requests, spent)
    /\ PressesDiffer(call)
    /\ CapHolds(settings, requests, call)

-----------------------------------------------------------------------------
(* Settings are only added to, points that were taken are counted, and     *)
(* requests stay as they were made.                                        *)

LaterSettings(sets, sets2) ==
    \A k \in SettingKeys :
        Len(sets[k]) <= Len(sets2[k]) /\ \A i \in 1..Len(sets[k]) : sets2[k][i] = sets[k][i]

LaterFunds(f, f2) ==
    /\ f.falls <= f2.falls
    /\ f.falls = f2.falls => f.available <= f2.available

LaterRequests(reqs, reqs2) ==
    /\ Len(reqs) <= Len(reqs2)
    /\ \A i \in 1..Len(reqs) :
          /\ reqs2[i].press = reqs[i].press /\ reqs2[i].amount = reqs[i].amount
          /\ reqs2[i].method = reqs[i].method /\ reqs2[i].cash = reqs[i].cash

LEMMA LengthsAreNat ==
    ASSUME NEW sets, SettingsOK(sets), NEW k \in SettingKeys
    PROVE  Len(sets[k]) \in Nat /\ Len(sets[k]) >= 1 /\ \A i \in 1..Len(sets[k]) : sets[k][i] \in Allowed(k)
<1>1. sets[k] \in Seq(Allowed(k)) /\ Len(sets[k]) >= 1
    BY DEF SettingsOK
<1> QED
    BY <1>1

LEMMA MarksStay ==
    ASSUME NEW sets, NEW sets2, SettingsOK(sets), SettingsOK(sets2), LaterSettings(sets, sets2),
           NEW marks, MarksOK(marks, sets)
    PROVE  /\ MarksOK(marks, sets2)
           /\ \A k \in SettingKeys : sets2[k][marks[k]] = sets[k][marks[k]]
           /\ \A k \in SettingKeys : Edited(k, marks, sets) => Edited(k, marks, sets2)
<1> SUFFICES ASSUME NEW k \in SettingKeys
             PROVE  /\ marks[k] \in 1..Len(sets2[k])
                    /\ sets2[k][marks[k]] = sets[k][marks[k]]
                    /\ Edited(k, marks, sets) => Edited(k, marks, sets2)
    BY DEF MarksOK
<1>1. Len(sets[k]) \in Nat /\ Len(sets2[k]) \in Nat /\ Len(sets[k]) <= Len(sets2[k])
    BY LengthsAreNat DEF LaterSettings
<1>2. marks[k] \in 1..Len(sets[k])
    BY DEF MarksOK
<1> QED
    BY <1>1, <1>2 DEF LaterSettings, Edited

LEMMA PointsStay ==
    ASSUME NEW f \in FundsRecord, NEW f2 \in FundsRecord, LaterFunds(f, f2),
           NEW available, NEW falls, PointsOK(available, falls, f)
    PROVE  PointsOK(available, falls, f2)
    BY DEF PointsOK, LaterFunds, FundsRecord

LEMMA FormStays ==
    ASSUME NEW sets, NEW sets2, SettingsOK(sets), SettingsOK(sets2), LaterSettings(sets, sets2),
           NEW f \in FundsRecord, NEW f2 \in FundsRecord, LaterFunds(f, f2),
           NEW form, FormOK(form, sets, f)
    PROVE  FormOK(form, sets2, f2)
<1>1. MarksOK(form.marks, sets)
    BY DEF FormOK
<1>2. /\ MarksOK(form.marks, sets2)
      /\ \A k \in SettingKeys : sets2[k][form.marks[k]] = sets[k][form.marks[k]]
      /\ \A k \in SettingKeys : Edited(k, form.marks, sets) => Edited(k, form.marks, sets2)
    BY <1>1, MarksStay
<1>3. ReadFrom(form.options, OptionKeys, form.marks, sets2)
    BY <1>2 DEF FormOK, ReadFrom, SettingKeys
<1>4. form.available # Unknown => PointsOK(form.available, form.falls, f2)
    BY PointsStay DEF FormOK
<1> QED
    BY <1>2, <1>3, <1>4 DEF FormOK

LEMMA RecordedStays ==
    ASSUME NEW sets, NEW sets2, NEW c, Edited("rate", c.form.marks, sets) => Edited("rate", c.form.marks, sets2),
           NEW reqs \in Seq(RequestRecord), NEW reqs2 \in Seq(RequestRecord), LaterRequests(reqs, reqs2),
           Recorded(c, reqs, sets)
    PROVE  Recorded(c, reqs2, sets2)
<1>1. PICK i \in 1..Len(reqs) :
          /\ reqs[i].press = c.press /\ reqs[i].amount = c.typed.amount /\ reqs[i].method = c.typed.method
          /\ \/ reqs[i].cash = CashMinorFor(c.typed.amount, c.form.options.rate)
             \/ Edited("rate", c.form.marks, sets)
    BY DEF Recorded
<1>2. Len(reqs) \in Nat /\ Len(reqs2) \in Nat /\ Len(reqs) <= Len(reqs2)
    BY DEF LaterRequests
<1>3. i \in 1..Len(reqs2)
    BY <1>2
<1>4. /\ reqs2[i].press = reqs[i].press /\ reqs2[i].amount = reqs[i].amount
      /\ reqs2[i].method = reqs[i].method /\ reqs2[i].cash = reqs[i].cash
    BY DEF LaterRequests
<1> QED
    BY <1>1, <1>3, <1>4 DEF Recorded

LEMMA ExcusedStays ==
    ASSUME NEW sets, NEW sets2, NEW c,
           \A k \in SettingKeys : Edited(k, c.form.marks, sets) => Edited(k, c.form.marks, sets2),
           NEW f \in FundsRecord, NEW f2 \in FundsRecord, LaterFunds(f, f2),
           c.form.available # Unknown => c.form.falls \in Nat,
           Excused(c, sets, f)
    PROVE  Excused(c, sets2, f2)
<1>1. FieldFor(c.in) = "method" => Edited("methods", c.form.marks, sets2)
    BY DEF Excused, SettingKeys, OptionKeys
<1>2. FieldFor(c.in) = "amountPoints" =>
          Edited("minimum", c.form.marks, sets2) \/ Edited("maximum", c.form.marks, sets2)
    BY DEF Excused, SettingKeys, OptionKeys
<1>3. c.in = "INSUFFICIENT_BALANCE" => c.form.available = Unknown \/ f2.falls > c.form.falls
    BY DEF Excused, LaterFunds, FundsRecord
<1> QED
    BY <1>1, <1>2, <1>3 DEF Excused

\* What is known of a submission stays so, if no request of it is made.
LEMMA CallStays ==
    ASSUME NEW sets, NEW sets2, NEW f, NEW f2, NEW reqs, NEW reqs2, NEW n, NEW n2,
           BooksOK(sets, f, reqs, n), BooksOK(sets2, f2, reqs2, n2),
           LaterSettings(sets, sets2), LaterFunds(f, f2), LaterRequests(reqs, reqs2), n <= n2,
           NEW c, CallOK(c, sets, f, reqs, n),
           c.pc \in Submitting /\ Made(c.press, reqs2) => Made(c.press, reqs)
    PROVE  CallOK(c, sets2, f2, reqs2, n2)
<1>1. /\ SettingsOK(sets) /\ SettingsOK(sets2) /\ f \in FundsRecord /\ f2 \in FundsRecord
      /\ reqs \in Seq(RequestRecord) /\ reqs2 \in Seq(RequestRecord) /\ n \in Nat /\ n2 \in Nat
    BY DEF BooksOK
<1>2. c.pc = "loading" => MarksOK(c.marks, sets2) /\ PointsOK(c.available, c.falls, f2)
    BY <1>1, MarksStay, PointsStay DEF CallOK
<1>3. c.pc = "reading" => MarksOK(c.marks, sets2) /\ \A k \in SettingKeys : c.form.marks[k] <= c.marks[k]
    BY <1>1, MarksStay DEF CallOK
<1>4. CASE c.pc \in {"waiting", "loading"}
    BY <1>2, <1>4 DEF CallOK, Submitting
<1>5. CASE c.pc \in Submitting
  <2>1. FormOK(c.form, sets, f)
    BY <1>5 DEF CallOK
  <2>2. FormOK(c.form, sets2, f2)
    BY <1>1, <2>1, FormStays
  <2>3. \A k \in SettingKeys : Edited(k, c.form.marks, sets) => Edited(k, c.form.marks, sets2)
    BY <1>1, <2>1, MarksStay DEF FormOK
  <2>4. c.press \in 1..n2 /\ c.typed \in Typed
    BY <1>1, <1>5 DEF CallOK
  <2>5. c.pc = "counting" => \E i \in 1..Len(sets2["cap"]) : c.in.cap = sets2["cap"][i]
    <3>1. "cap" \in SettingKeys
      BY DEF SettingKeys
    <3>2. Len(sets["cap"]) \in Nat /\ Len(sets2["cap"]) \in Nat /\ Len(sets["cap"]) <= Len(sets2["cap"])
      BY <1>1, <3>1, LengthsAreNat DEF LaterSettings
    <3> QED
      BY <3>1, <3>2 DEF CallOK, LaterSettings
  <2>6. c.pc \in {"counting", "locking"} => RulesInHand(c, sets2)
    BY <2>3 DEF CallOK, RulesInHand, SettingKeys, OptionKeys
  <2>7. c.pc \in {"reading", "counting", "locking"} => ~Made(c.press, reqs2)
    BY <1>5 DEF CallOK
  <2>8. ASSUME c.pc = "answering"
        PROVE  /\ c.in \notin {"done", "INTERNAL_ERROR"} => ~Made(c.press, reqs2)
               /\ c.in = "done" => Recorded(c, reqs2, sets2)
               /\ c.in # "done" /\ Fits(c.form, c.typed) => Excused(c, sets2, f2)
    <3>1. c.in \notin {"done", "INTERNAL_ERROR"} => ~Made(c.press, reqs2)
      BY <1>5, <2>8 DEF CallOK
    <3>2. c.in = "done" => Recorded(c, reqs2, sets2)
      BY <1>1, <2>3, <2>8, RecordedStays DEF CallOK, SettingKeys, OptionKeys
    <3>3. c.form.available # Unknown => c.form.falls \in Nat
      BY <2>1 DEF FormOK, PointsOK
    <3>4. c.in # "done" /\ Fits(c.form, c.typed) => Excused(c, sets2, f2)
      BY <1>1, <2>3, <2>8, <3>3, ExcusedStays DEF CallOK
    <3> QED
      BY <3>1, <3>2, <3>4
  <2> QED
    BY <1>3, <1>5, <2>2, <2>4, <2>5, <2>6, <2>7, <2>8 DEF CallOK, Submitting
<1> QED
    BY <1>4, <1>5 DEF CallOK

-----------------------------------------------------------------------------
(* What a step has to show. *)

LEMMA RestKeeps ==
    ASSUME WithdrawalsInv,
           BooksOK(settings', funds', requests', spent'),
           LaterSettings(settings, settings'), LaterFunds(funds, funds'), LaterRequests(requests, requests'),
           spent <= spent',
           DOMAIN screen' = Tab, DOMAIN call' = Tab,
           \A u \in Tab : screen'[u] = screen[u] \/ screen'[u] = Shut \/ FormOK(screen'[u], settings', funds'),
           \A u \in Tab :
              \/ /\ call'[u] = call[u]
                 /\ call[u].pc \in Submitting /\ Made(call[u].press, requests') => Made(call[u].press, requests)
              \/ CallOK(call'[u], settings', funds', requests', spent'),
           PressesDiffer(call'), CapHolds(settings', requests', call')
    PROVE  WithdrawalsInv'
<1>1. PICK sets : sets = settings'
    OBVIOUS
<1>2. PICK f : f = funds'
    OBVIOUS
<1>3. PICK reqs : reqs = requests'
    OBVIOUS
<1>4. PICK n : n = spent'
    OBVIOUS
<1>5. BooksOK(settings, funds, requests, spent) /\ BooksOK(sets, f, reqs, n)
    BY <1>1, <1>2, <1>3, <1>4 DEF WithdrawalsInv
<1>6. ASSUME NEW u \in Tab
      PROVE  screen'[u] = Shut \/ FormOK(screen'[u], settings', funds')
  <2>1. PICK page : page = screen[u]
    OBVIOUS
  <2>2. ASSUME FormOK(page, settings, funds)
        PROVE  FormOK(page, sets, f)
    BY <1>1, <1>2, <1>5, <2>2, FormStays DEF BooksOK
  <2>3. page = Shut \/ FormOK(page, settings, funds)
    BY <1>6, <2>1 DEF WithdrawalsInv
  <2> QED
    BY <1>1, <1>2, <1>6, <2>1, <2>2, <2>3
<1>7. ASSUME NEW u \in Tab
      PROVE  CallOK(call'[u], settings', funds', requests', spent')
  <2>1. PICK c : c = call[u]
    OBVIOUS
  <2>2. CASE /\ call'[u] = c
             /\ c.pc \in Submitting /\ Made(c.press, reqs) => Made(c.press, requests)
    <3>1. CallOK(c, settings, funds, requests, spent)
      BY <1>7, <2>1 DEF WithdrawalsInv
    <3>2. CallOK(c, sets, f, reqs, n)
      BY <1>1, <1>2, <1>3, <1>4, <1>5, <2>2, <3>1, CallStays
    <3> QED
      BY <1>1, <1>2, <1>3, <1>4, <2>2, <3>2
  <2> QED
    BY <1>3, <1>7, <2>1, <2>2
<1> QED
    BY <1>6, <1>7 DEF WithdrawalsInv

\* What stands still is later than itself.
LEMMA StillIsLater ==
    ASSUME NEW sets, NEW f, NEW reqs, NEW n, BooksOK(sets, f, reqs, n)
    PROVE  LaterSettings(sets, sets) /\ LaterFunds(f, f) /\ LaterRequests(reqs, reqs) /\ n <= n
<1>1. LaterSettings(sets, sets)
    BY LengthsAreNat DEF BooksOK, LaterSettings
<1>2. LaterFunds(f, f)
    BY DEF BooksOK, LaterFunds, FundsRecord
<1>3. LaterRequests(reqs, reqs)
    BY DEF BooksOK, LaterRequests
<1> QED
    BY <1>1, <1>2, <1>3 DEF BooksOK

\* The cap holds while nothing is added to what is counted.
LEMMA CapStays ==
    ASSUME NEW sets, NEW sets2, SettingsOK(sets), SettingsOK(sets2), LaterSettings(sets, sets2),
           NEW reqs \in Seq(RequestRecord), NEW reqs2 \in Seq(RequestRecord), NEW calls, NEW calls2,
           Recent(reqs2) \subseteq Recent(reqs), Locking(calls2) \subseteq Locking(calls),
           CapHolds(sets, reqs, calls)
    PROVE  CapHolds(sets2, reqs2, calls2)
<1>1. IsFiniteSet(Recent(reqs))
  <2>1. IsFiniteSet(1..Len(reqs))
    BY FS_Interval
  <2> QED
    BY <2>1, FS_Subset DEF Recent
<1>2. IsFiniteSet(Locking(calls))
    BY WithdrawalsAssumption, FS_Subset DEF Locking
<1>3. /\ Cardinality(Recent(reqs2)) <= Cardinality(Recent(reqs))
      /\ Cardinality(Recent(reqs2)) \in Nat /\ Cardinality(Recent(reqs)) \in Nat
    BY <1>1, FS_Subset, FS_CardinalityType
<1>4. /\ Cardinality(Locking(calls2)) <= Cardinality(Locking(calls))
      /\ Cardinality(Locking(calls2)) \in Nat /\ Cardinality(Locking(calls)) \in Nat
    BY <1>2, FS_Subset, FS_CardinalityType
<1>5. Cardinality(Tab) \in Nat
    BY WithdrawalsAssumption, FS_CardinalityType
<1>6. "cap" \in SettingKeys
    BY DEF SettingKeys
<1>7. PICK i \in 1..Len(sets["cap"]) :
          Cardinality(Recent(reqs)) + Cardinality(Locking(calls)) < sets["cap"][i] + Cardinality(Tab)
    BY DEF CapHolds
<1>8. /\ Len(sets["cap"]) \in Nat /\ Len(sets2["cap"]) \in Nat /\ Len(sets["cap"]) <= Len(sets2["cap"])
      /\ sets[ "cap"][i] \in Allowed("cap")
    BY <1>6, LengthsAreNat DEF LaterSettings
<1>9. i \in 1..Len(sets2["cap"]) /\ sets2["cap"][i] = sets["cap"][i]
    BY <1>6, <1>8 DEF LaterSettings
<1>10. sets["cap"][i] \in Nat
    BY <1>8, SettingsAssumption DEF Allowed
<1>11. Cardinality(Recent(reqs2)) + Cardinality(Locking(calls2)) < sets2["cap"][i] + Cardinality(Tab)
    BY <1>3, <1>4, <1>5, <1>7, <1>9, <1>10
<1> QED
    BY <1>9, <1>11 DEF CapHolds

\* One tab's call moves, and perhaps what it shows; nothing is written.
LEMMA CallMoves ==
    ASSUME WithdrawalsInv, NEW t \in Tab,
           UNCHANGED <<settings, funds, requests>>, spent' \in Nat, spent <= spent',
           DOMAIN call' = Tab, \A u \in Tab \ {t} : call'[u] = call[u],
           DOMAIN screen' = Tab,
           \A u \in Tab : screen'[u] = screen[u] \/ screen'[u] = Shut \/ FormOK(screen'[u], settings, funds),
           CallOK(call'[t], settings, funds, requests, spent'),
           PressesDiffer(call'), CapHolds(settings, requests, call')
    PROVE  WithdrawalsInv'
<1>1. BooksOK(settings, funds, requests, spent)
    BY DEF WithdrawalsInv
<1>2. PICK n \in Nat : n = spent'
    OBVIOUS
<1>3. BooksOK(settings, funds, requests, n)
  <2>1. spent \in Nat /\ requests \in Seq(RequestRecord) /\ \A i \in 1..Len(requests) : requests[i].press <= spent
    BY <1>1 DEF BooksOK
  <2>2. ASSUME NEW i \in 1..Len(requests)
        PROVE  requests[i].press <= n
    <3>1. requests[i] \in RequestRecord
      BY <2>1
    <3>2. requests[i].press \in Nat
      BY <3>1 DEF RequestRecord
    <3> QED
      BY <1>2, <2>1, <3>2
  <2> QED
    BY <1>1, <2>2 DEF BooksOK
<1>4. LaterSettings(settings, settings) /\ LaterFunds(funds, funds) /\ LaterRequests(requests, requests)
    BY <1>1, StillIsLater
<1>5. BooksOK(settings', funds', requests', spent')
    BY <1>2, <1>3
<1>6. LaterSettings(settings, settings') /\ LaterFunds(funds, funds') /\ LaterRequests(requests, requests')
    BY <1>4
<1>7. \A u \in Tab :
         \/ /\ call'[u] = call[u]
            /\ call[u].pc \in Submitting /\ Made(call[u].press, requests') => Made(call[u].press, requests)
         \/ CallOK(call'[u], settings', funds', requests', spent')
    OBVIOUS
<1>8. \A u \in Tab : screen'[u] = screen[u] \/ screen'[u] = Shut \/ FormOK(screen'[u], settings', funds')
    OBVIOUS
<1>9. CapHolds(settings', requests', call')
    OBVIOUS
<1> QED
    BY <1>5, <1>6, <1>7, <1>8, <1>9, RestKeeps

\* As CallMoves, of a call that does not come to lock.
LEMMA CallMovesOn ==
    ASSUME WithdrawalsInv, NEW t \in Tab,
           UNCHANGED <<settings, funds, requests>>, spent' \in Nat, spent <= spent',
           DOMAIN call' = Tab, \A u \in Tab \ {t} : call'[u] = call[u],
           DOMAIN screen' = Tab,
           \A u \in Tab : screen'[u] = screen[u] \/ screen'[u] = Shut \/ FormOK(screen'[u], settings, funds),
           CallOK(call'[t], settings, funds, requests, spent'),
           call'[t].pc \in Submitting => call[t].pc \in Submitting /\ call'[t].press = call[t].press,
           call'[t].pc # "locking"
    PROVE  WithdrawalsInv'
<1>1. PressesDiffer(call')
    BY DEF WithdrawalsInv, PressesDiffer
<1>2. PICK calls : calls = call'
    OBVIOUS
<1>3. Locking(calls) \subseteq Locking(call)
    BY <1>2 DEF Locking
<1>4. BooksOK(settings, funds, requests, spent) /\ CapHolds(settings, requests, call)
    BY DEF WithdrawalsInv
<1>5. LaterSettings(settings, settings) /\ SettingsOK(settings) /\ requests \in Seq(RequestRecord)
    BY <1>4, StillIsLater DEF BooksOK
<1>6. CapHolds(settings, requests, calls)
    BY <1>3, <1>4, <1>5, CapStays
<1> QED
    BY <1>1, <1>2, <1>6, CallMoves

-----------------------------------------------------------------------------
(* What is read, and what is refused. *)

LEMMA MarksAreNow ==
    ASSUME SettingsOK(settings)
    PROVE  MarksOK(Marks, settings)
    BY LengthsAreNat DEF MarksOK, Marks

LEMMA ReadsAreFrom ==
    ASSUME SettingsOK(settings), NEW marks, MarksOK(marks, settings),
           NEW keys \in SUBSET SettingKeys, NEW rules \in Reads(marks, keys)
    PROVE  /\ ReadFrom(rules, keys, marks, settings)
           /\ \A k \in keys : \E i \in 1..Len(settings[k]) : rules[k] = settings[k][i]
<1>1. PICK late \in SUBSET (keys \cap Since(marks)) :
          rules = [k \in keys |-> IF k \in late THEN Last(settings[k]) ELSE settings[k][marks[k]]]
    BY DEF Reads
<1> SUFFICES ASSUME NEW k \in keys
             PROVE  /\ rules[k] \in Allowed(k)
                    /\ rules[k] = settings[k][marks[k]] \/ Edited(k, marks, settings)
                    /\ \E i \in 1..Len(settings[k]) : rules[k] = settings[k][i]
    BY DEF ReadFrom
<1>2. /\ Len(settings[k]) \in Nat /\ Len(settings[k]) >= 1
      /\ \A i \in 1..Len(settings[k]) : settings[k][i] \in Allowed(k)
    BY LengthsAreNat
<1>3. CASE k \in late
  <2>1. rules[k] = settings[k][Len(settings[k])]
    BY <1>1, <1>3 DEF Last
  <2>2. Edited(k, marks, settings)
    BY <1>1, <1>3 DEF Since, Edited
  <2> QED
    BY <1>2, <2>1, <2>2
<1>4. CASE k \notin late
  <2>1. rules[k] = settings[k][marks[k]] /\ marks[k] \in 1..Len(settings[k])
    BY <1>1, <1>4 DEF MarksOK
  <2> QED
    BY <1>2, <2>1
<1> QED
    BY <1>3, <1>4

\* A rule that a submission reads is what its form was loaded with, or was edited since.
LEMMA RulesAgree ==
    ASSUME SettingsOK(settings), NEW c, FormOK(c.form, settings, funds),
           MarksOK(c.marks, settings), \A k \in SettingKeys : c.form.marks[k] <= c.marks[k],
           NEW rules \in Reads(c.marks, SettingKeys), NEW key \in OptionKeys
    PROVE  rules[key] \in Allowed(key) /\ (rules[key] = c.form.options[key] \/ Edited(key, c.form.marks, settings))
<1>1. key \in SettingKeys
    BY DEF SettingKeys
<1>2. rules[key] \in Allowed(key) /\ (rules[key] = settings[key][c.marks[key]] \/ Edited(key, c.marks, settings))
    BY <1>1, ReadsAreFrom DEF ReadFrom
<1>3. c.form.options[key] = settings[key][c.form.marks[key]] \/ Edited(key, c.form.marks, settings)
    BY DEF FormOK, ReadFrom
<1>4. /\ Len(settings[key]) \in Nat
      /\ c.marks[key] \in 1..Len(settings[key]) /\ c.form.marks[key] \in 1..Len(settings[key])
      /\ c.form.marks[key] <= c.marks[key]
    BY <1>1, LengthsAreNat DEF FormOK, MarksOK
<1>5. CASE Edited(key, c.marks, settings)
    BY <1>2, <1>4, <1>5 DEF Edited
<1>6. CASE ~Edited(key, c.form.marks, settings)
  <2>1. c.form.marks[key] = c.marks[key] /\ ~Edited(key, c.marks, settings)
    BY <1>4, <1>6 DEF Edited
  <2> QED
    BY <1>2, <1>3, <1>6, <2>1
<1> QED
    BY <1>2, <1>5, <1>6

LEMMA RefusalIs ==
    ASSUME NEW typed \in Typed, NEW rules, NEW code, code = RefusalOf(typed, rules)
    PROVE  /\ code \in {"none", "VALIDATION_FAILED", "PAYOUT_METHOD_UNSUPPORTED", "PAYOUT_AMOUNT_OUT_OF_RANGE",
                        "PAYOUT_DESTINATION_INVALID"}
           /\ code = "none" => typed.amount >= 1
           /\ code = "VALIDATION_FAILED" => typed.amount < 1
           /\ code = "PAYOUT_METHOD_UNSUPPORTED" => typed.method \notin rules.methods
           /\ code = "PAYOUT_AMOUNT_OUT_OF_RANGE" => typed.amount \notin rules.minimum..rules.maximum
           /\ code = "PAYOUT_DESTINATION_INVALID" => ~typed.legible
<1>1. typed.amount \in Nat
    BY WithdrawalsAssumption
<1>2. CASE typed.amount < 1
  <2>1. code = "VALIDATION_FAILED"
    BY <1>1, <1>2 DEF RefusalOf
  <2> QED
    BY <1>2, <2>1
<1>3. CASE typed.amount >= 1 /\ typed.method \notin rules.methods
  <2>1. code = "PAYOUT_METHOD_UNSUPPORTED"
    BY <1>1, <1>3 DEF RefusalOf
  <2> QED
    BY <1>3, <2>1
<1>4. CASE typed.amount >= 1 /\ typed.method \in rules.methods /\ typed.amount \notin rules.minimum..rules.maximum
  <2>1. code = "PAYOUT_AMOUNT_OUT_OF_RANGE"
    BY <1>1, <1>4 DEF RefusalOf
  <2> QED
    BY <1>4, <2>1
<1>5. CASE typed.amount >= 1 /\ typed.method \in rules.methods /\ typed.amount \in rules.minimum..rules.maximum
  <2>1. code = IF typed.legible THEN "none" ELSE "PAYOUT_DESTINATION_INVALID"
    BY <1>1, <1>5 DEF RefusalOf
  <2> QED
    BY <1>5, <2>1
<1> QED
    BY <1>1, <1>2, <1>3, <1>4, <1>5

LEMMA FieldsAre ==
    /\ FieldFor("VALIDATION_FAILED") = "amountPoints"
    /\ FieldFor("PAYOUT_AMOUNT_OUT_OF_RANGE") = "amountPoints"
    /\ FieldFor("PAYOUT_METHOD_UNSUPPORTED") = "method"
    /\ FieldFor("PAYOUT_DESTINATION_INVALID") = "destination"
    /\ FieldFor("PAYOUT_DAILY_LIMIT_REACHED") = "form"
    /\ FieldFor("INSUFFICIENT_BALANCE") = "form"
    /\ FieldFor("INTERNAL_ERROR") = "form"
    BY DEF FieldFor

\* What a form lets through was allowed when it was loaded.
LEMMA FitsWhatWasRead ==
    ASSUME NEW form, FormOK(form, settings, funds), NEW typed \in Typed, Fits(form, typed)
    PROVE  /\ typed.amount >= 1 /\ typed.method \in form.options.methods
           /\ typed.amount \in form.options.minimum..form.options.maximum
           /\ form.available # Unknown => typed.amount <= form.available
<1>1. /\ form.options.minimum \in Nat \ {0} /\ form.options.maximum \in Nat \ {0}
  <2>1. form.options["minimum"] \in Allowed("minimum") /\ form.options["maximum"] \in Allowed("maximum")
    BY DEF FormOK, ReadFrom, OptionKeys
  <2> QED
    BY <2>1, SettingsAssumption DEF Allowed
<1>2. typed.amount \in Nat
    BY WithdrawalsAssumption
<1>3. form.available # Unknown => form.available \in Nat
    BY DEF FormOK, PointsOK
<1>4. typed.method \in form.options.methods /\ typed.amount \in form.options.minimum..EffectiveMax(form)
    BY DEF Fits
<1>5. EffectiveMax(form) \in Nat /\ EffectiveMax(form) <= form.options.maximum
    BY <1>1, <1>3 DEF EffectiveMax
<1>6. form.available # Unknown => EffectiveMax(form) <= form.available
    BY <1>1, <1>3 DEF EffectiveMax
<1> QED
    BY <1>1, <1>2, <1>3, <1>4, <1>5, <1>6

LEMMA RefusalsExcused ==
    ASSUME SettingsOK(settings), NEW c, c.typed \in Typed, FormOK(c.form, settings, funds),
           MarksOK(c.marks, settings), \A k \in SettingKeys : c.form.marks[k] <= c.marks[k],
           NEW rules \in Reads(c.marks, SettingKeys),
           NEW c2, c2.in = RefusalOf(c.typed, rules), c2.in # "none",
           c2.form = c.form, c2.typed = c.typed, Fits(c.form, c.typed)
    PROVE  Excused(c2, settings, funds)
<1>1. /\ c.typed.amount >= 1 /\ c.typed.method \in c.form.options.methods
      /\ c.typed.amount \in c.form.options.minimum..c.form.options.maximum
    BY FitsWhatWasRead
<1>2. c.typed.amount \in Nat
    BY WithdrawalsAssumption
<1>3. /\ c2.in \in {"VALIDATION_FAILED", "PAYOUT_METHOD_UNSUPPORTED", "PAYOUT_AMOUNT_OUT_OF_RANGE",
                    "PAYOUT_DESTINATION_INVALID"}
      /\ c2.in = "VALIDATION_FAILED" => c.typed.amount < 1
      /\ c2.in = "PAYOUT_METHOD_UNSUPPORTED" => c.typed.method \notin rules.methods
      /\ c2.in = "PAYOUT_AMOUNT_OUT_OF_RANGE" => c.typed.amount \notin rules.minimum..rules.maximum
      /\ c2.in = "PAYOUT_DESTINATION_INVALID" => ~c.typed.legible
    BY RefusalIs
<1>4. c2.in # "VALIDATION_FAILED"
    BY <1>1, <1>2, <1>3
<1>5. c2.in = "PAYOUT_METHOD_UNSUPPORTED" => Edited("methods", c.form.marks, settings)
  <2>1. rules["methods"] = c.form.options["methods"] \/ Edited("methods", c.form.marks, settings)
    BY RulesAgree DEF OptionKeys
  <2> QED
    BY <1>1, <1>3, <2>1
<1>6. c2.in = "PAYOUT_AMOUNT_OUT_OF_RANGE" =>
          Edited("minimum", c.form.marks, settings) \/ Edited("maximum", c.form.marks, settings)
  <2>1. rules["minimum"] = c.form.options["minimum"] \/ Edited("minimum", c.form.marks, settings)
    BY RulesAgree DEF OptionKeys
  <2>2. rules["maximum"] = c.form.options["maximum"] \/ Edited("maximum", c.form.marks, settings)
    BY RulesAgree DEF OptionKeys
  <2> QED
    BY <1>1, <1>3, <2>1, <2>2
<1>7. CASE c2.in = "PAYOUT_METHOD_UNSUPPORTED"
    BY <1>5, <1>7, FieldsAre DEF Excused
<1>8. CASE c2.in = "PAYOUT_AMOUNT_OUT_OF_RANGE"
    BY <1>6, <1>8, FieldsAre DEF Excused
<1>9. CASE c2.in = "PAYOUT_DESTINATION_INVALID"
    BY <1>3, <1>9, FieldsAre DEF Excused
<1> QED
    BY <1>3, <1>4, <1>7, <1>8, <1>9

-----------------------------------------------------------------------------
(* The steps of a withdrawal *)

LEMMA LoadingIsOK ==
    ASSUME WithdrawalsInv, NEW c, c = Loading
    PROVE  CallOK(c, settings, funds, requests, spent)
<1>1. SettingsOK(settings) /\ funds \in FundsRecord
    BY DEF WithdrawalsInv, BooksOK
<1>2. c.pc = "loading" /\ c.marks = Marks /\ c.available = funds.available /\ c.falls = funds.falls
    BY DEF Loading
<1>3. MarksOK(c.marks, settings)
    BY <1>1, <1>2, MarksAreNow
<1>4. PointsOK(c.available, c.falls, funds)
    BY <1>1, <1>2 DEF PointsOK, FundsRecord
<1> QED
    BY <1>2, <1>3, <1>4 DEF CallOK, Submitting

LEMMA WaitingIsOK ==
    ASSUME NEW c, c = Waiting
    PROVE  CallOK(c, settings, funds, requests, spent)
    BY DEF CallOK, Waiting, Submitting

\* A call that comes to rest, or to loading.
LEMMA RestsWell ==
    ASSUME WithdrawalsInv, NEW t \in Tab, NEW c, c = Waiting \/ c = Loading,
           call' = [call EXCEPT ![t] = c], UNCHANGED <<settings, funds, requests, spent>>,
           DOMAIN screen' = Tab,
           \A u \in Tab : screen'[u] = screen[u] \/ screen'[u] = Shut \/ FormOK(screen'[u], settings, funds)
    PROVE  WithdrawalsInv'
<1>1. DOMAIN call' = Tab /\ call'[t] = c /\ \A u \in Tab \ {t} : call'[u] = call[u]
    BY DEF WithdrawalsInv
<1>2. CallOK(c, settings, funds, requests, spent)
    BY LoadingIsOK, WaitingIsOK
<1>3. c.pc \in {"waiting", "loading"}
    BY DEF Waiting, Loading
<1>4. spent' \in Nat /\ spent <= spent'
    BY DEF WithdrawalsInv, BooksOK
<1>5. CallOK(call'[t], settings, funds, requests, spent')
    BY <1>1, <1>2
<1>6. call'[t].pc \notin Submitting /\ call'[t].pc # "locking"
    BY <1>1, <1>3 DEF Submitting
<1> QED
    BY <1>1, <1>4, <1>5, <1>6, CallMovesOn

LEMMA LoadKeeps ==
    ASSUME WithdrawalsInv, NEW t \in Tab, Load(t)
    PROVE  WithdrawalsInv'
<1>1. PICK c : c = Loading
    OBVIOUS
<1>2. call' = [call EXCEPT ![t] = c] /\ UNCHANGED <<settings, funds, requests, spent, screen>>
    BY <1>1 DEF Load
<1>3. DOMAIN screen' = Tab
    BY <1>2 DEF WithdrawalsInv
<1>4. \A u \in Tab : screen'[u] = screen[u]
    BY <1>2
<1> QED
    BY <1>1, <1>2, <1>3, <1>4, RestsWell

LEMMA LoadedKeeps ==
    ASSUME WithdrawalsInv, NEW t \in Tab, Loaded(t)
    PROVE  WithdrawalsInv'
<1>1. PICK c : c = call[t]
    OBVIOUS
<1>2. c.pc = "loading" /\ UNCHANGED <<settings, funds, requests, spent>>
    BY <1>1 DEF Loaded
<1>3. SettingsOK(settings) /\ funds \in FundsRecord
    BY DEF WithdrawalsInv, BooksOK
<1>4. MarksOK(c.marks, settings) /\ PointsOK(c.available, c.falls, funds)
    BY <1>1, <1>2 DEF WithdrawalsInv, CallOK
<1>5. PICK options \in Reads(c.marks, OptionKeys) \cup {Unknown}, available \in {c.available, funds.available, Unknown} :
          LET page == [options |-> options, available |-> available, marks |-> c.marks, falls |-> c.falls] IN
          screen' = [screen EXCEPT ![t] = IF HasForm(page) THEN page ELSE Shut]
    BY <1>1 DEF Loaded
<1>6. PICK page : page = [options |-> options, available |-> available, marks |-> c.marks, falls |-> c.falls]
    OBVIOUS
<1>7. DOMAIN screen' = Tab /\ \A u \in Tab \ {t} : screen'[u] = screen[u]
    BY <1>5 DEF WithdrawalsInv
<1>8. screen'[t] = IF HasForm(page) THEN page ELSE Shut
    BY <1>5, <1>6 DEF WithdrawalsInv
<1>9. ASSUME HasForm(page)
      PROVE  FormOK(page, settings, funds)
  <2>1. options \in Reads(c.marks, OptionKeys)
    BY <1>5, <1>6, <1>9 DEF HasForm
  <2>2. OptionKeys \in SUBSET SettingKeys
    BY DEF SettingKeys
  <2>3. ReadFrom(options, OptionKeys, c.marks, settings)
    BY <1>3, <1>4, <2>1, <2>2, ReadsAreFrom
  <2>4. available # Unknown => PointsOK(available, c.falls, funds)
    BY <1>3, <1>4, <1>5 DEF PointsOK, FundsRecord
  <2> QED
    BY <1>4, <1>6, <2>3, <2>4 DEF FormOK
<1>10. PICK idle : idle = Waiting
    OBVIOUS
<1>11. call' = [call EXCEPT ![t] = idle]
    BY <1>10 DEF Loaded
<1>12. \A u \in Tab : screen'[u] = screen[u] \/ screen'[u] = Shut \/ FormOK(screen'[u], settings, funds)
    BY <1>7, <1>8, <1>9
<1> QED
    BY <1>2, <1>7, <1>10, <1>11, <1>12, RestsWell

LEMMA ShowAnswerKeeps ==
    ASSUME WithdrawalsInv, NEW t \in Tab, ShowAnswer(t)
    PROVE  WithdrawalsInv'
<1>1. PICK c : (c = Waiting \/ c = Loading) /\ call' = [call EXCEPT ![t] = c]
    BY DEF ShowAnswer
<1>2. UNCHANGED <<settings, funds, requests, spent, screen>>
    BY DEF ShowAnswer
<1>3. DOMAIN screen' = Tab /\ \A u \in Tab : screen'[u] = screen[u]
    BY <1>2 DEF WithdrawalsInv
<1> QED
    BY <1>1, <1>2, <1>3, RestsWell

LEMMA HappensOnce ==
    ASSUME WithdrawalsInv, Happens
    PROVE  spent \in Nat /\ spent' \in Nat /\ spent' = spent + 1
    BY DEF WithdrawalsInv, BooksOK, Happens

LEMMA PressSubmitKeeps ==
    ASSUME WithdrawalsInv, NEW t \in Tab, NEW typed \in Typed, PressSubmit(t, typed)
    PROVE  WithdrawalsInv'
<1>1. PICK form : form = screen[t]
    OBVIOUS
<1>2. FormOK(form, settings, funds)
    BY <1>1 DEF WithdrawalsInv, PressSubmit
<1>3. spent \in Nat /\ spent' \in Nat /\ spent' = spent + 1 /\ spent <= spent'
    BY HappensOnce DEF PressSubmit
<1>4. PICK c : c = [pc |-> "reading", marks |-> Marks, press |-> spent + 1, typed |-> typed, form |-> form]
    OBVIOUS
<1>5. call' = [call EXCEPT ![t] = c] /\ UNCHANGED <<settings, funds, requests, screen>>
    BY <1>1, <1>3, <1>4 DEF PressSubmit
<1>6. DOMAIN call' = Tab /\ call'[t] = c /\ \A u \in Tab \ {t} : call'[u] = call[u]
    BY <1>5 DEF WithdrawalsInv
<1>7. DOMAIN screen' = Tab /\ \A u \in Tab : screen'[u] = screen[u]
    BY <1>5 DEF WithdrawalsInv
<1>8. BooksOK(settings, funds, requests, spent)
    BY DEF WithdrawalsInv
<1>9. MarksOK(Marks, settings) /\ SettingsOK(settings)
    BY <1>8, MarksAreNow DEF BooksOK
<1>10. \A k \in SettingKeys : form.marks[k] <= Marks[k]
  <2>1. \A k \in SettingKeys : form.marks[k] \in 1..Len(settings[k])
    BY <1>2 DEF FormOK, MarksOK
  <2> QED
    BY <2>1 DEF Marks
<1>11. ~Made(spent + 1, requests)
  <2>1. ASSUME NEW i \in 1..Len(requests)
        PROVE  requests[i].press # spent + 1
    <3>1. requests[i] \in RequestRecord /\ requests[i].press <= spent
      BY <1>8 DEF BooksOK
    <3> QED
      BY <1>3, <3>1 DEF RequestRecord
  <2> QED
    BY <2>1 DEF Made
<1>12. CallOK(c, settings, funds, requests, spent + 1)
    BY <1>2, <1>3, <1>4, <1>9, <1>10, <1>11 DEF CallOK, Submitting
<1>13. CallOK(call'[t], settings, funds, requests, spent')
    BY <1>3, <1>6, <1>12
<1>14. PressesDiffer(call')
  <2>1. ASSUME NEW u \in Tab, u # t, call[u].pc \in Submitting
        PROVE  call[u].press # spent + 1
    BY <1>3, <2>1 DEF WithdrawalsInv, CallOK
  <2>2. c.press = spent + 1
    BY <1>4
  <2> QED
    BY <1>6, <2>1, <2>2 DEF WithdrawalsInv, PressesDiffer
<1>15. CapHolds(settings, requests, call')
  <2>1. PICK calls : calls = call'
    OBVIOUS
  <2>2. Locking(calls) \subseteq Locking(call)
    BY <1>4, <1>6, <2>1 DEF Locking
  <2>3. LaterSettings(settings, settings) /\ requests \in Seq(RequestRecord) /\ CapHolds(settings, requests, call)
    BY <1>8, StillIsLater DEF BooksOK, WithdrawalsInv
  <2>4. CapHolds(settings, requests, calls)
    BY <1>9, <2>2, <2>3, CapStays
  <2> QED
    BY <2>1, <2>4
<1> QED
    BY <1>3, <1>5, <1>6, <1>7, <1>13, <1>14, <1>15, CallMoves

LEMMA LoseContactKeeps ==
    ASSUME WithdrawalsInv, NEW t \in Tab, LoseContact(t)
    PROVE  WithdrawalsInv'
<1>1. spent \in Nat /\ spent' \in Nat /\ spent' = spent + 1 /\ spent <= spent'
    BY HappensOnce DEF LoseContact
<1>2. UNCHANGED <<settings, funds, requests, call>> /\ screen' = [screen EXCEPT ![t] = Shut]
    BY DEF LoseContact
<1>3. DOMAIN screen' = Tab /\ \A u \in Tab : screen'[u] = screen[u] \/ screen'[u] = Shut
    BY <1>2 DEF WithdrawalsInv
<1>4. PICK c : c = call[t]
    OBVIOUS
<1>5. CallOK(c, settings, funds, requests, spent)
    BY <1>4 DEF WithdrawalsInv
<1>6. CallOK(c, settings, funds, requests, spent + 1)
    BY <1>1, <1>5 DEF CallOK
<1>7. CallOK(call'[t], settings, funds, requests, spent')
    BY <1>1, <1>2, <1>4, <1>6
<1>8. DOMAIN call' = Tab /\ \A u \in Tab : call'[u] = call[u]
    BY <1>2 DEF WithdrawalsInv
<1>9. PressesDiffer(call') /\ CapHolds(settings, requests, call')
    BY <1>2 DEF WithdrawalsInv
<1> QED
    BY <1>1, <1>2, <1>3, <1>7, <1>8, <1>9, CallMoves

\* A submission that goes on keeps its press, what was typed and its form.
LEMMA GoingOn ==
    ASSUME WithdrawalsInv, NEW t \in Tab, NEW pc, NEW in, GoesOn(t, pc, in), NEW c, c = call[t]
    PROVE  /\ DOMAIN call' = Tab /\ \A u \in Tab \ {t} : call'[u] = call[u]
           /\ call'[t] = [pc |-> pc, in |-> in, press |-> c.press, typed |-> c.typed, form |-> c.form]
    BY DEF WithdrawalsInv, GoesOn

LEMMA GoesOnKeeps ==
    ASSUME WithdrawalsInv, NEW t \in Tab, call[t].pc \in Submitting,
           NEW pc \in Submitting \ {"locking"}, NEW in, GoesOn(t, pc, in),
           UNCHANGED <<settings, funds, requests, screen>>, spent' \in Nat, spent <= spent',
           NEW c, c = call[t],
           NEW c2, c2 = [pc |-> pc, in |-> in, press |-> c.press, typed |-> c.typed, form |-> c.form],
           CallOK(c2, settings, funds, requests, spent')
    PROVE  WithdrawalsInv'
<1>1. DOMAIN call' = Tab /\ \A u \in Tab \ {t} : call'[u] = call[u]
    BY GoingOn
<1>2. call'[t] = c2
    BY GoingOn
<1>3. DOMAIN screen' = Tab /\ \A u \in Tab : screen'[u] = screen[u]
    BY DEF WithdrawalsInv
<1>4. call'[t].pc # "locking" /\ call'[t].press = call[t].press
    BY <1>2
<1>5. CallOK(call'[t], settings, funds, requests, spent')
    BY <1>2
<1> QED
    BY <1>1, <1>3, <1>4, <1>5, CallMovesOn

\* What is known of any submission that is under way.
LEMMA SubmissionIs ==
    ASSUME WithdrawalsInv, NEW t \in Tab, NEW c, c = call[t], c.pc \in Submitting
    PROVE  /\ spent \in Nat /\ c.press \in 1..spent /\ c.typed \in Typed /\ FormOK(c.form, settings, funds)
           /\ c.pc \in {"reading", "counting", "locking"} => ~Made(c.press, requests)
    BY DEF WithdrawalsInv, BooksOK, CallOK

LEMMA ReadSettingsKeeps ==
    ASSUME WithdrawalsInv, NEW t \in Tab, ReadSettings(t)
    PROVE  WithdrawalsInv'
<1>1. PICK c : c = call[t]
    OBVIOUS
<1>2. c.pc = "reading" /\ c.pc \in Submitting
    BY <1>1 DEF ReadSettings, Submitting
<1>3. UNCHANGED <<settings, funds, requests, screen, spent>>
    BY DEF ReadSettings
<1>4. /\ spent \in Nat /\ c.press \in 1..spent /\ c.typed \in Typed /\ FormOK(c.form, settings, funds)
      /\ ~Made(c.press, requests)
    BY <1>1, <1>2, SubmissionIs
<1>5. spent' \in Nat /\ spent <= spent'
    BY <1>3, <1>4
<1>6. MarksOK(c.marks, settings) /\ \A k \in SettingKeys : c.form.marks[k] <= c.marks[k]
    BY <1>1, <1>2 DEF WithdrawalsInv, CallOK
<1>7. SettingsOK(settings)
    BY DEF WithdrawalsInv, BooksOK
<1>8. PICK rules \in Reads(c.marks, SettingKeys) :
          LET refusal == RefusalOf(c.typed, rules) IN
          IF refusal = "none"
          THEN GoesOn(t, "counting", [k \in {"cap", "rate", "currency"} |-> rules[k]])
          ELSE Answers(t, refusal)
    BY <1>1 DEF ReadSettings
<1>9. PICK code : code = RefusalOf(c.typed, rules)
    OBVIOUS
<1>10. /\ code \in {"none", "VALIDATION_FAILED", "PAYOUT_METHOD_UNSUPPORTED", "PAYOUT_AMOUNT_OUT_OF_RANGE",
                    "PAYOUT_DESTINATION_INVALID"}
       /\ code = "none" => c.typed.amount >= 1
    BY <1>4, <1>9, RefusalIs
<1>11. CASE code = "none"
  <2>1. PICK in : in = [k \in {"cap", "rate", "currency"} |-> rules[k]]
    OBVIOUS
  <2>2. GoesOn(t, "counting", in)
    BY <1>8, <1>9, <1>11, <2>1
  <2>3. PICK c2 : c2 = [pc |-> "counting", in |-> in, press |-> c.press, typed |-> c.typed, form |-> c.form]
    OBVIOUS
  <2>4. in.cap = rules["cap"] /\ in.rate = rules["rate"] /\ in.currency = rules["currency"]
    BY <2>1
  <2>5. \E i \in 1..Len(settings["cap"]) : rules["cap"] = settings["cap"][i]
    BY <1>6, <1>7, ReadsAreFrom DEF SettingKeys
  <2>6. /\ rules["rate"] \in Allowed("rate") /\ rules["currency"] \in Allowed("currency")
        /\ rules["rate"] = c.form.options["rate"] \/ Edited("rate", c.form.marks, settings)
    BY <1>4, <1>6, <1>7, RulesAgree DEF OptionKeys
  <2>7. RulesInHand(c2, settings)
    BY <1>10, <1>11, <2>3, <2>4, <2>6 DEF RulesInHand
  <2>8. \E i \in 1..Len(settings["cap"]) : c2.in.cap = settings["cap"][i]
    BY <2>3, <2>4, <2>5
  <2>9. CallOK(c2, settings, funds, requests, spent)
    BY <1>4, <2>3, <2>7, <2>8 DEF CallOK, Submitting
  <2>10. CallOK(c2, settings, funds, requests, spent')
    BY <1>3, <2>9
  <2>11. "counting" \in Submitting \ {"locking"}
    BY DEF Submitting
  <2> QED
    BY <1>1, <1>2, <1>3, <1>5, <2>2, <2>3, <2>10, <2>11, GoesOnKeeps
<1>12. CASE code # "none"
  <2>1. GoesOn(t, "answering", code)
    BY <1>8, <1>9, <1>12 DEF Answers
  <2>2. PICK c2 : c2 = [pc |-> "answering", in |-> code, press |-> c.press, typed |-> c.typed, form |-> c.form]
    OBVIOUS
  <2>3. Fits(c.form, c.typed) => Excused(c2, settings, funds)
    BY <1>4, <1>6, <1>7, <1>9, <1>12, <2>2, RefusalsExcused
  <2>4. CallOK(c2, settings, funds, requests, spent)
    BY <1>4, <1>10, <1>12, <2>2, <2>3 DEF CallOK, Submitting
  <2>5. CallOK(c2, settings, funds, requests, spent')
    BY <1>3, <2>4
  <2>6. "answering" \in Submitting \ {"locking"}
    BY DEF Submitting
  <2> QED
    BY <1>1, <1>2, <1>3, <1>5, <2>1, <2>2, <2>5, <2>6, GoesOnKeeps
<1> QED
    BY <1>11, <1>12

\* An answer for which nothing of the form has to have changed.
LEMMA AnswersWell ==
    ASSUME WithdrawalsInv, NEW t \in Tab, NEW c, c = call[t], c.pc \in Submitting,
           NEW code, FieldFor(code) = "form", code # "done", Answers(t, code),
           code = "INTERNAL_ERROR" \/ ~Made(c.press, requests),
           code = "INSUFFICIENT_BALANCE" /\ Fits(c.form, c.typed) =>
               c.form.available = Unknown \/ funds.falls > c.form.falls,
           UNCHANGED <<settings, funds, requests, screen>>, spent' \in Nat, spent <= spent'
    PROVE  WithdrawalsInv'
<1>1. spent \in Nat /\ c.press \in 1..spent /\ c.typed \in Typed /\ FormOK(c.form, settings, funds)
    BY SubmissionIs
<1>2. PICK c2 : c2 = [pc |-> "answering", in |-> code, press |-> c.press, typed |-> c.typed, form |-> c.form]
    OBVIOUS
<1>3. Fits(c.form, c.typed) => Excused(c2, settings, funds)
    BY <1>2 DEF Excused
<1>4. c.press \in 1..spent'
    BY <1>1
<1>5. PICK n \in Nat : n = spent'
    OBVIOUS
<1>6. CallOK(c2, settings, funds, requests, n)
    BY <1>1, <1>2, <1>3, <1>4, <1>5 DEF CallOK, Submitting
<1>7. CallOK(c2, settings, funds, requests, spent')
    BY <1>5, <1>6
<1>8. "answering" \in Submitting \ {"locking"} /\ GoesOn(t, "answering", code)
    BY DEF Submitting, Answers
<1> QED
    BY <1>2, <1>7, <1>8, GoesOnKeeps

\* Whatever the submissions that have counted, there are no more of them than tabs.
LEMMA LockersAreTabs ==
    ASSUME NEW calls
    PROVE  Cardinality(Locking(calls)) \in Nat /\ Cardinality(Tab) \in Nat /\ Cardinality(Locking(calls)) <= Cardinality(Tab)
<1>1. Locking(calls) \subseteq Tab
    BY DEF Locking
<1> QED
    BY <1>1, WithdrawalsAssumption, FS_Subset, FS_CardinalityType

LEMMA CountRequestsKeeps ==
    ASSUME WithdrawalsInv, NEW t \in Tab, CountRequests(t)
    PROVE  WithdrawalsInv'
<1>1. PICK c : c = call[t]
    OBVIOUS
<1>2. c.pc = "counting" /\ c.pc \in Submitting
    BY <1>1 DEF CountRequests, Submitting
<1>3. UNCHANGED <<settings, funds, requests, screen, spent>>
    BY DEF CountRequests
<1>4. /\ spent \in Nat /\ c.press \in 1..spent /\ c.typed \in Typed /\ FormOK(c.form, settings, funds)
      /\ ~Made(c.press, requests)
    BY <1>1, <1>2, SubmissionIs
<1>5. spent' \in Nat /\ spent <= spent'
    BY <1>3, <1>4
<1>6. BooksOK(settings, funds, requests, spent)
    BY DEF WithdrawalsInv
<1>7. RecentRequests = Recent(requests)
    BY <1>6 DEF RecentRequests, Recent, BooksOK
<1>8. CASE WithinCap(Cardinality(RecentRequests), c.in.cap)
  <2>1. PICK in : in = [k \in {"rate", "currency"} |-> c.in[k]]
    OBVIOUS
  <2>2. GoesOn(t, "locking", in)
    BY <1>1, <1>8, <2>1 DEF CountRequests
  <2>3. PICK c2 : c2 = [pc |-> "locking", in |-> in, press |-> c.press, typed |-> c.typed, form |-> c.form]
    OBVIOUS
  <2>4. DOMAIN call' = Tab /\ \A u \in Tab \ {t} : call'[u] = call[u]
    BY <1>1, <2>2, GoingOn
  <2>5. call'[t] = c2
    BY <1>1, <2>2, <2>3, GoingOn
  <2>6. RulesInHand(c, settings)
    BY <1>1, <1>2 DEF WithdrawalsInv, CallOK
  <2>7. in.rate = c.in.rate /\ in.currency = c.in.currency
    BY <2>1
  <2>8. RulesInHand(c2, settings)
    BY <2>3, <2>6, <2>7 DEF RulesInHand
  <2>9. CallOK(c2, settings, funds, requests, spent)
    BY <1>4, <2>3, <2>8 DEF CallOK, Submitting
  <2>10. CallOK(call'[t], settings, funds, requests, spent')
    BY <1>3, <2>5, <2>9
  <2>11. PressesDiffer(call')
    <3>1. c2.press = c.press
      BY <2>3
    <3> QED
      BY <1>1, <1>2, <2>4, <2>5, <3>1 DEF WithdrawalsInv, PressesDiffer
  <2>12. CapHolds(settings, requests, call')
    <3>1. PICK i \in 1..Len(settings["cap"]) : c.in.cap = settings["cap"][i]
      BY <1>1, <1>2 DEF WithdrawalsInv, CallOK
    <3>2. settings["cap"][i] \in Nat
      <4>1. settings["cap"][i] \in Allowed("cap")
        BY <1>6, LengthsAreNat DEF BooksOK, SettingKeys
      <4> QED
        BY <4>1, SettingsAssumption DEF Allowed
    <3>3. Cardinality(Recent(requests)) \in Nat
      <4>1. IsFiniteSet(1..Len(requests))
        <5>1. Len(requests) \in Nat
          BY <1>6 DEF BooksOK
        <5> QED
          BY <5>1, FS_Interval
      <4>2. IsFiniteSet(Recent(requests))
        BY <4>1, FS_Subset DEF Recent
      <4> QED
        BY <4>2, FS_CardinalityType
    <3>4. Cardinality(Recent(requests)) < settings["cap"][i]
      BY <1>7, <1>8, <3>1 DEF WithinCap
    <3>5. PICK calls : calls = call'
      OBVIOUS
    <3>6. /\ Cardinality(Locking(calls)) \in Nat /\ Cardinality(Tab) \in Nat
          /\ Cardinality(Locking(calls)) <= Cardinality(Tab)
      BY LockersAreTabs
    <3>7. Cardinality(Recent(requests)) + Cardinality(Locking(calls)) < settings["cap"][i] + Cardinality(Tab)
      BY <3>2, <3>3, <3>4, <3>6
    <3>8. CapHolds(settings, requests, calls)
      BY <3>7 DEF CapHolds
    <3> QED
      BY <3>5, <3>8
  <2>13. DOMAIN screen' = Tab /\ \A u \in Tab : screen'[u] = screen[u]
    BY <1>3 DEF WithdrawalsInv
  <2> QED
    BY <1>3, <1>5, <2>4, <2>10, <2>11, <2>12, <2>13, CallMoves
<1>9. CASE ~WithinCap(Cardinality(RecentRequests), c.in.cap)
  <2>1. Answers(t, "PAYOUT_DAILY_LIMIT_REACHED")
    BY <1>1, <1>9 DEF CountRequests
  <2> QED
    BY <1>1, <1>2, <1>3, <1>4, <1>5, <2>1, FieldsAre, AnswersWell
<1> QED
    BY <1>8, <1>9

LEMMA BreakSubmissionKeeps ==
    ASSUME WithdrawalsInv, NEW t \in Tab, BreakSubmission(t)
    PROVE  WithdrawalsInv'
<1>1. PICK c : c = call[t]
    OBVIOUS
<1>2. c.pc \in Submitting
    BY <1>1 DEF BreakSubmission, Submitting
<1>3. spent' \in Nat /\ spent <= spent'
    BY HappensOnce DEF BreakSubmission
<1>4. UNCHANGED <<settings, funds, requests, screen>> /\ Answers(t, "INTERNAL_ERROR")
    BY DEF BreakSubmission
<1> QED
    BY <1>1, <1>2, <1>3, <1>4, FieldsAre, AnswersWell

\* What is made of a submission that holds rules for it.
LEMMA RowsAreRecords ==
    ASSUME WithdrawalsInv, NEW t \in Tab, NEW c, c = call[t], c.pc = "locking", NEW row, row = RequestRow(c)
    PROVE  /\ row \in RequestRecord /\ row.press = c.press /\ row.amount = c.typed.amount
           /\ row.method = c.typed.method /\ row.recent
           /\ row.cash = CashMinorFor(c.typed.amount, c.form.options.rate) \/ Edited("rate", c.form.marks, settings)
<1>1. spent \in Nat /\ c.press \in 1..spent /\ c.typed \in Typed
    BY SubmissionIs DEF Submitting
<1>2. RulesInHand(c, settings)
    BY DEF WithdrawalsInv, CallOK
<1>3. c.typed.amount \in Nat /\ c.typed.amount >= 1
    BY <1>1, <1>2, WithdrawalsAssumption DEF RulesInHand
<1>4. c.in.rate \in Nat \ {0} /\ c.in.rate \in Allowed("rate") /\ c.in.currency \in Allowed("currency")
    BY <1>2, SettingsAssumption DEF RulesInHand, Allowed
<1>5. CashMinor(c.typed.amount, c.in.rate) \in Int
    BY <1>3, <1>4 DEF CashMinor
<1>6. CashMinor(c.typed.amount, c.in.rate) = CashMinorFor(c.typed.amount, c.in.rate)
    BY <1>3, <1>4 DEF CashMinor, CashMinorFor
<1>7. row = [press |-> c.press, amount |-> c.typed.amount, method |-> c.typed.method, recent |-> TRUE,
             cash |-> CashMinor(c.typed.amount, c.in.rate), rate |-> c.in.rate, currency |-> c.in.currency]
    BY DEF RequestRow
<1>8. c.typed.method \in {typed.method : typed \in Typed}
    BY <1>1
<1>9. c.press \in Nat
    BY <1>1
<1>10. row \in RequestRecord
    BY <1>3, <1>4, <1>5, <1>7, <1>8, <1>9 DEF RequestRecord
<1>11. row.cash = CashMinorFor(c.typed.amount, c.form.options.rate) \/ Edited("rate", c.form.marks, settings)
    BY <1>2, <1>6, <1>7 DEF RulesInHand
<1> QED
    BY <1>7, <1>10, <1>11

\* The submission that locks is one of those that were counted.
LEMMA CapPasses ==
    ASSUME NEW sets, NEW reqs \in Seq(RequestRecord), NEW reqs2 \in Seq(RequestRecord), NEW calls, NEW calls2,
           SettingsOK(sets), CapHolds(sets, reqs, calls),
           Recent(reqs2) = Recent(reqs) \cup {Len(reqs) + 1},
           NEW t \in Locking(calls), Locking(calls2) = Locking(calls) \ {t}
    PROVE  CapHolds(sets, reqs2, calls2)
<1>1. IsFiniteSet(Recent(reqs))
  <2>1. IsFiniteSet(1..Len(reqs))
    BY FS_Interval
  <2> QED
    BY <2>1, FS_Subset DEF Recent
<1>2. IsFiniteSet(Locking(calls))
    BY WithdrawalsAssumption, FS_Subset DEF Locking
<1>3. Len(reqs) + 1 \notin Recent(reqs)
    BY DEF Recent
<1>4. /\ Cardinality(Recent(reqs2)) = Cardinality(Recent(reqs)) + 1
      /\ Cardinality(Recent(reqs)) \in Nat
    BY <1>1, <1>3, FS_AddElement, FS_CardinalityType
<1>5. /\ Cardinality(Locking(calls2)) = Cardinality(Locking(calls)) - 1
      /\ Cardinality(Locking(calls)) \in Nat
    BY <1>2, FS_RemoveElement, FS_CardinalityType
<1>6. PICK i \in 1..Len(sets["cap"]) :
          Cardinality(Recent(reqs)) + Cardinality(Locking(calls)) < sets["cap"][i] + Cardinality(Tab)
    BY DEF CapHolds
<1>7. Cardinality(Recent(reqs2)) + Cardinality(Locking(calls2)) = Cardinality(Recent(reqs)) + Cardinality(Locking(calls))
    BY <1>4, <1>5
<1> QED
    BY <1>6, <1>7 DEF CapHolds

LEMMA CreateKeeps ==
    ASSUME WithdrawalsInv, NEW t \in Tab, LockAndCreate(t), funds.available >= call[t].typed.amount
    PROVE  WithdrawalsInv'
<1>1. PICK c : c = call[t]
    OBVIOUS
<1>2. c.pc = "locking" /\ c.pc \in Submitting
    BY <1>1 DEF LockAndCreate, Submitting
<1>3. PICK row : row = RequestRow(c)
    OBVIOUS
<1>4. /\ funds' = [available |-> funds.available - c.typed.amount, falls |-> funds.falls + 1]
      /\ requests' = Append(requests, row)
      /\ GoesOn(t, "answering", "done")
      /\ UNCHANGED <<settings, screen, spent>>
    BY <1>1, <1>3 DEF LockAndCreate, Answers
<1>5. /\ row \in RequestRecord /\ row.press = c.press /\ row.amount = c.typed.amount
      /\ row.method = c.typed.method /\ row.recent
      /\ row.cash = CashMinorFor(c.typed.amount, c.form.options.rate) \/ Edited("rate", c.form.marks, settings)
    BY <1>1, <1>2, <1>3, RowsAreRecords
<1>6. /\ spent \in Nat /\ c.press \in 1..spent /\ c.typed \in Typed /\ FormOK(c.form, settings, funds)
      /\ ~Made(c.press, requests)
    BY <1>1, <1>2, SubmissionIs
<1>7. BooksOK(settings, funds, requests, spent)
    BY DEF WithdrawalsInv
<1>8. SettingsOK(settings) /\ funds \in FundsRecord /\ requests \in Seq(RequestRecord)
    BY <1>7 DEF BooksOK
<1>9. PICK reqs \in Seq(RequestRecord) : reqs = requests'
  <2>1. requests' = Append(requests, row)
    BY <1>4
  <2>2. Append(requests, row) \in Seq(RequestRecord)
    BY <1>5, <1>8
  <2> QED
    BY <2>1, <2>2
<1>10. /\ Len(reqs) = Len(requests) + 1 /\ Len(requests) \in Nat
       /\ reqs[Len(requests) + 1] = row
       /\ \A i \in 1..Len(requests) : reqs[i] = requests[i]
    BY <1>4, <1>5, <1>8, <1>9
<1>11. PICK f \in FundsRecord : f = funds' /\ f.falls = funds.falls + 1
  <2>1. c.typed.amount \in Nat
    BY <1>6, WithdrawalsAssumption
  <2>2. funds.available \in Nat /\ funds.falls \in Nat
    BY <1>8 DEF FundsRecord
  <2>3. funds.available - c.typed.amount \in Nat /\ funds.falls + 1 \in Nat
    BY <1>1, <2>1, <2>2
  <2> QED
    BY <1>4, <2>3 DEF FundsRecord
<1>12. LaterFunds(funds, f)
    BY <1>8, <1>11 DEF LaterFunds, FundsRecord
<1>13. LaterRequests(requests, reqs)
    BY <1>10 DEF LaterRequests
<1>14. BooksOK(settings, f, reqs, spent)
  <2>1. ASSUME NEW i \in 1..Len(reqs)
        PROVE  reqs[i].press <= spent
    <3>1. CASE i \in 1..Len(requests)
      BY <1>7, <1>10, <3>1 DEF BooksOK
    <3>2. CASE i = Len(requests) + 1
      BY <1>5, <1>6, <1>10, <3>2
    <3> QED
      BY <1>10, <2>1, <3>1, <3>2
  <2> QED
    BY <1>6, <1>8, <1>9, <1>11, <2>1 DEF BooksOK
<1>15. LaterSettings(settings, settings)
    BY <1>7, StillIsLater
<1>16. PICK c2 : c2 = [pc |-> "answering", in |-> "done", press |-> c.press, typed |-> c.typed, form |-> c.form]
    OBVIOUS
<1>17. DOMAIN call' = Tab /\ \A u \in Tab \ {t} : call'[u] = call[u]
    BY <1>1, <1>4, GoingOn
<1>18. call'[t] = c2
    BY <1>1, <1>4, <1>16, GoingOn
<1>19. CallOK(c2, settings, f, reqs, spent)
  <2>1. FormOK(c.form, settings, f)
    BY <1>6, <1>8, <1>11, <1>12, <1>15, FormStays
  <2>2. Recorded(c2, reqs, settings)
    <3>1. Len(requests) + 1 \in 1..Len(reqs)
      BY <1>10
    <3> QED
      BY <1>5, <1>10, <1>16, <3>1 DEF Recorded
  <2> QED
    BY <1>6, <1>16, <2>1, <2>2 DEF CallOK, Submitting
<1>20. ASSUME NEW u \in Tab, u # t, call[u].pc \in Submitting, Made(call[u].press, reqs)
       PROVE  Made(call[u].press, requests)
  <2>1. call[u].press # c.press
    BY <1>1, <1>2, <1>20 DEF WithdrawalsInv, PressesDiffer
  <2>2. PICK i \in 1..Len(reqs) : reqs[i].press = call[u].press
    BY <1>20 DEF Made
  <2>3. i # Len(requests) + 1
    BY <1>5, <1>10, <2>1, <2>2
  <2>4. i \in 1..Len(requests)
    BY <1>10, <2>3
  <2> QED
    BY <1>10, <2>2, <2>4 DEF Made
<1>21. PressesDiffer(call')
  <2>1. c2.press = c.press
    BY <1>16
  <2> QED
    BY <1>1, <1>2, <1>17, <1>18, <2>1 DEF WithdrawalsInv, PressesDiffer
<1>22. PICK calls : calls = call'
    OBVIOUS
<1>23. CapHolds(settings, reqs, calls)
  <2>1. Recent(reqs) = Recent(requests) \cup {Len(requests) + 1}
    BY <1>5, <1>10 DEF Recent
  <2>2. t \in Locking(call)
    BY <1>1, <1>2 DEF Locking
  <2>3. c2.pc # "locking"
    BY <1>16
  <2>4. Locking(calls) = Locking(call) \ {t}
    BY <1>17, <1>18, <1>22, <2>3 DEF Locking
  <2>5. CapHolds(settings, requests, call)
    BY DEF WithdrawalsInv
  <2> QED
    BY <1>8, <2>1, <2>2, <2>4, <2>5, CapPasses
<1>24. BooksOK(settings', funds', requests', spent')
    BY <1>4, <1>9, <1>11, <1>14
<1>25. LaterSettings(settings, settings') /\ LaterFunds(funds, funds') /\ LaterRequests(requests, requests')
    BY <1>4, <1>9, <1>11, <1>12, <1>13, <1>15
<1>26. \A u \in Tab :
          \/ /\ call'[u] = call[u]
             /\ call[u].pc \in Submitting /\ Made(call[u].press, requests') => Made(call[u].press, requests)
          \/ CallOK(call'[u], settings', funds', requests', spent')
    BY <1>4, <1>9, <1>11, <1>17, <1>18, <1>19, <1>20
<1>27. DOMAIN screen' = Tab /\ \A u \in Tab : screen'[u] = screen[u]
    BY <1>4 DEF WithdrawalsInv
<1>28. CapHolds(settings', requests', call')
    BY <1>4, <1>9, <1>22, <1>23
<1>29. spent <= spent'
    BY <1>4, <1>6
<1> QED
    BY <1>17, <1>21, <1>24, <1>25, <1>26, <1>27, <1>28, <1>29, RestKeeps

LEMMA LockAndCreateKeeps ==
    ASSUME WithdrawalsInv, NEW t \in Tab, LockAndCreate(t)
    PROVE  WithdrawalsInv'
<1>1. CASE funds.available >= call[t].typed.amount
    BY <1>1, CreateKeeps
<1>2. CASE ~(funds.available >= call[t].typed.amount)
  <2>1. PICK c : c = call[t]
    OBVIOUS
  <2>2. c.pc = "locking" /\ c.pc \in Submitting
    BY <2>1 DEF LockAndCreate, Submitting
  <2>3. UNCHANGED <<settings, funds, requests, screen, spent>> /\ Answers(t, "INSUFFICIENT_BALANCE")
    BY <1>2 DEF LockAndCreate
  <2>4. /\ spent \in Nat /\ c.typed \in Typed /\ FormOK(c.form, settings, funds)
        /\ ~Made(c.press, requests)
    BY <2>1, <2>2, SubmissionIs
  <2>5. spent' \in Nat /\ spent <= spent'
    BY <2>3, <2>4
  <2>6. ASSUME Fits(c.form, c.typed), c.form.available # Unknown
        PROVE  funds.falls > c.form.falls
    <3>1. c.typed.amount <= c.form.available
      BY <2>4, <2>6, FitsWhatWasRead
    <3>2. PointsOK(c.form.available, c.form.falls, funds)
      BY <2>4, <2>6 DEF FormOK
    <3>3. c.typed.amount \in Nat
      BY <2>4, WithdrawalsAssumption
    <3>4. funds.available \in Nat /\ funds.falls \in Nat
      BY DEF WithdrawalsInv, BooksOK, FundsRecord
    <3>5. ~(c.form.available <= funds.available)
      BY <1>2, <2>1, <3>1, <3>2, <3>3, <3>4 DEF PointsOK
    <3> QED
      BY <3>2, <3>4, <3>5 DEF PointsOK
  <2> QED
    BY <2>1, <2>2, <2>3, <2>4, <2>5, <2>6, FieldsAre, AnswersWell
<1> QED
    BY <1>1, <1>2

\* No tab's call moves.
LEMMA CallsRest ==
    ASSUME WithdrawalsInv, UNCHANGED <<screen, call>>,
           BooksOK(settings', funds', requests', spent'),
           LaterSettings(settings, settings'), LaterFunds(funds, funds'), LaterRequests(requests, requests'),
           spent <= spent', Len(requests') = Len(requests),
           Recent(requests') \subseteq Recent(requests)
    PROVE  WithdrawalsInv'
<1>1. ASSUME NEW u \in Tab, Made(call[u].press, requests')
      PROVE  Made(call[u].press, requests)
    BY <1>1 DEF Made, LaterRequests
<1>2. PICK sets : sets = settings'
    OBVIOUS
<1>3. PICK reqs : reqs = requests'
    OBVIOUS
<1>4. /\ SettingsOK(settings) /\ requests \in Seq(RequestRecord)
      /\ SettingsOK(sets) /\ reqs \in Seq(RequestRecord)
    BY <1>2, <1>3 DEF WithdrawalsInv, BooksOK
<1>5. CapHolds(settings, requests, call)
    BY DEF WithdrawalsInv
<1>6. CapHolds(sets, reqs, call)
    BY <1>2, <1>3, <1>4, <1>5, CapStays
<1>7. CapHolds(settings', requests', call')
    BY <1>2, <1>3, <1>6
<1>8. PressesDiffer(call') /\ DOMAIN screen' = Tab /\ DOMAIN call' = Tab
    BY DEF WithdrawalsInv
<1> QED
    BY <1>1, <1>7, <1>8, RestKeeps

LEMMA EditSettingKeeps ==
    ASSUME WithdrawalsInv, NEW k \in SettingKeys, NEW value \in Settings[k], EditSetting(k, value)
    PROVE  WithdrawalsInv'
<1>1. /\ settings' = [settings EXCEPT ![k] = Append(@, value)]
      /\ UNCHANGED <<funds, requests, screen, call>>
    BY DEF EditSetting
<1>2. spent \in Nat /\ spent' \in Nat /\ spent' = spent + 1 /\ spent <= spent'
    BY HappensOnce DEF EditSetting
<1>3. BooksOK(settings, funds, requests, spent)
    BY DEF WithdrawalsInv
<1>4. /\ settings = [j \in SettingKeys |-> settings[j]]
      /\ \A j \in SettingKeys : settings[j] \in Seq(Allowed(j)) /\ Len(settings[j]) >= 1
    BY <1>3 DEF BooksOK, SettingsOK
<1>5. PICK sets : sets = settings'
    OBVIOUS
<1>6. PICK vals \in Seq(Allowed(k)) : vals = settings[k]
    BY <1>4
<1>7. /\ Append(vals, value) \in Seq(Allowed(k)) /\ Len(Append(vals, value)) = Len(vals) + 1 /\ Len(vals) \in Nat
      /\ \A i \in 1..Len(vals) : Append(vals, value)[i] = vals[i]
  <2>1. value \in Allowed(k)
    BY DEF Allowed
  <2> QED
    BY <1>6, <2>1
<1>8. /\ sets = [j \in SettingKeys |-> sets[j]] /\ sets[k] = Append(vals, value)
      /\ \A j \in SettingKeys \ {k} : sets[j] = settings[j]
    BY <1>1, <1>4, <1>5, <1>6
<1>9. SettingsOK(sets)
  <2>1. ASSUME NEW j \in SettingKeys
        PROVE  sets[j] \in Seq(Allowed(j)) /\ Len(sets[j]) >= 1
    <3>1. CASE j = k
      BY <1>7, <1>8, <3>1
    <3>2. CASE j # k
      BY <1>4, <1>8, <2>1, <3>2
    <3> QED
      BY <3>1, <3>2
  <2> QED
    BY <1>8, <2>1 DEF SettingsOK
<1>10. LaterSettings(settings, sets)
  <2>1. ASSUME NEW j \in SettingKeys
        PROVE  Len(settings[j]) <= Len(sets[j]) /\ \A i \in 1..Len(settings[j]) : sets[j][i] = settings[j][i]
    <3>1. CASE j = k
      BY <1>6, <1>7, <1>8, <3>1
    <3>2. CASE j # k
      BY <1>4, <1>8, <2>1, <3>2
    <3> QED
      BY <3>1, <3>2
  <2> QED
    BY <2>1 DEF LaterSettings
<1>11. LaterFunds(funds, funds) /\ LaterRequests(requests, requests)
    BY <1>3, StillIsLater
<1>12. BooksOK(sets, funds, requests, spent + 1)
  <2>1. ASSUME NEW i \in 1..Len(requests)
        PROVE  requests[i].press <= spent + 1
    <3>1. requests[i] \in RequestRecord /\ requests[i].press <= spent
      BY <1>3, <2>1 DEF BooksOK
    <3> QED
      BY <1>2, <3>1 DEF RequestRecord
  <2> QED
    BY <1>2, <1>3, <1>9, <2>1 DEF BooksOK
<1>13. BooksOK(settings', funds', requests', spent')
    BY <1>1, <1>2, <1>5, <1>12
<1>14. LaterSettings(settings, settings') /\ LaterFunds(funds, funds') /\ LaterRequests(requests, requests')
    BY <1>1, <1>5, <1>10, <1>11
<1>15. Len(requests') = Len(requests) /\ Recent(requests') \subseteq Recent(requests)
    BY <1>1
<1> QED
    BY <1>1, <1>2, <1>13, <1>14, <1>15, CallsRest

LEMMA MovePointsKeeps ==
    ASSUME WithdrawalsInv, NEW points \in Movements, MovePoints(points)
    PROVE  WithdrawalsInv'
<1>1. UNCHANGED <<settings, requests, screen, call>>
    BY DEF MovePoints
<1>2. spent \in Nat /\ spent' \in Nat /\ spent' = spent + 1 /\ spent <= spent'
    BY HappensOnce DEF MovePoints
<1>3. BooksOK(settings, funds, requests, spent)
    BY DEF WithdrawalsInv
<1>4. points \in Int /\ MaxAvailable \in Nat
    BY WithdrawalsAssumption
<1>5. PICK f : f = funds'
    OBVIOUS
<1>6. f \in FundsRecord /\ LaterFunds(funds, f)
  <2>1. funds.available \in Nat /\ funds.falls \in Nat
    BY <1>3 DEF BooksOK, FundsRecord
  <2>2. /\ funds.available + points \in 0..MaxAvailable
        /\ f = [available |-> funds.available + points, falls |-> funds.falls + (IF points < 0 THEN 1 ELSE 0)]
    BY <1>5 DEF MovePoints
  <2>3. CASE points < 0
    BY <1>4, <2>1, <2>2, <2>3 DEF FundsRecord, LaterFunds
  <2>4. CASE ~(points < 0)
    BY <1>4, <2>1, <2>2, <2>4 DEF FundsRecord, LaterFunds
  <2> QED
    BY <2>3, <2>4
<1>7. LaterSettings(settings, settings) /\ LaterRequests(requests, requests)
    BY <1>3, StillIsLater
<1>8. BooksOK(settings, f, requests, spent + 1)
  <2>1. ASSUME NEW i \in 1..Len(requests)
        PROVE  requests[i].press <= spent + 1
    <3>1. requests[i] \in RequestRecord /\ requests[i].press <= spent
      BY <1>3, <2>1 DEF BooksOK
    <3> QED
      BY <1>2, <3>1 DEF RequestRecord
  <2> QED
    BY <1>2, <1>3, <1>6, <2>1 DEF BooksOK
<1>9. BooksOK(settings', funds', requests', spent')
    BY <1>1, <1>2, <1>5, <1>8
<1>10. LaterSettings(settings, settings') /\ LaterFunds(funds, funds') /\ LaterRequests(requests, requests')
    BY <1>1, <1>5, <1>6, <1>7
<1>11. Len(requests') = Len(requests) /\ Recent(requests') \subseteq Recent(requests)
    BY <1>1
<1> QED
    BY <1>1, <1>2, <1>9, <1>10, <1>11, CallsRest

LEMMA DayPassesKeeps ==
    ASSUME WithdrawalsInv, DayPasses
    PROVE  WithdrawalsInv'
<1>1. BooksOK(settings, funds, requests, spent)
    BY DEF WithdrawalsInv
<1>2. requests \in Seq(RequestRecord) /\ Len(requests) \in Nat /\ spent \in Nat
    BY <1>1 DEF BooksOK
<1>3. PICK i \in RecentRequests : requests' = [requests EXCEPT ![i].recent = FALSE]
    BY DEF DayPasses
<1>4. UNCHANGED <<settings, funds, screen, call, spent>>
    BY DEF DayPasses
<1>5. i \in 1..Len(requests)
    BY <1>2, <1>3 DEF RecentRequests
<1>6. PICK row \in RequestRecord : row = requests[i]
    BY <1>2, <1>5
<1>7. PICK row2 : row2 = [row EXCEPT !.recent = FALSE]
    OBVIOUS
<1>8. /\ row2 \in RequestRecord /\ row2.recent = FALSE
      /\ row2.press = row.press /\ row2.amount = row.amount /\ row2.method = row.method /\ row2.cash = row.cash
    BY <1>6, <1>7 DEF RequestRecord
<1>9. requests' = [requests EXCEPT ![i] = row2]
    BY <1>3, <1>6, <1>7
<1>10. PICK reqs \in Seq(RequestRecord) : reqs = requests'
    BY <1>2, <1>5, <1>8, <1>9
<1>11. /\ Len(reqs) = Len(requests) /\ reqs[i] = row2
       /\ \A j \in 1..Len(requests) : j # i => reqs[j] = requests[j]
    BY <1>2, <1>5, <1>9, <1>10
<1>12. LaterRequests(requests, reqs)
    BY <1>2, <1>6, <1>8, <1>11 DEF LaterRequests
<1>13. Recent(reqs) \subseteq Recent(requests)
    BY <1>8, <1>11 DEF Recent
<1>14. BooksOK(settings, funds, reqs, spent)
  <2>1. \A j \in 1..Len(reqs) : reqs[j].press <= spent
    BY <1>1, <1>6, <1>8, <1>11 DEF BooksOK
  <2> QED
    BY <1>1, <1>10, <2>1 DEF BooksOK
<1>15. LaterSettings(settings, settings) /\ LaterFunds(funds, funds)
    BY <1>1, StillIsLater
<1>16. BooksOK(settings', funds', requests', spent') /\ spent <= spent'
    BY <1>2, <1>4, <1>10, <1>14
<1>17. LaterSettings(settings, settings') /\ LaterFunds(funds, funds') /\ LaterRequests(requests, requests')
    BY <1>4, <1>10, <1>12, <1>15
<1>18. Len(requests') = Len(requests) /\ Recent(requests') \subseteq Recent(requests)
    BY <1>10, <1>11, <1>13
<1> QED
    BY <1>4, <1>16, <1>17, <1>18, CallsRest

LEMMA WithdrawalsInitially == WithdrawalsInit => WithdrawalsInv
<1> SUFFICES ASSUME WithdrawalsInit PROVE WithdrawalsInv
    OBVIOUS
<1>1. SettingsOK(settings)
    BY DEF WithdrawalsInit, SettingsOK, Allowed
<1>2. funds \in FundsRecord
    BY WithdrawalsAssumption DEF WithdrawalsInit, FundsRecord
<1>3. requests \in Seq(RequestRecord) /\ Len(requests) = 0
    BY DEF WithdrawalsInit
<1>4. BooksOK(settings, funds, requests, spent)
    BY <1>1, <1>2, <1>3 DEF BooksOK, WithdrawalsInit
<1>5. /\ DOMAIN screen = Tab /\ DOMAIN call = Tab
      /\ \A t \in Tab : screen[t] = Shut /\ call[t] = Waiting
    BY DEF WithdrawalsInit
<1>6. \A t \in Tab : CallOK(call[t], settings, funds, requests, spent)
  <2>1. PICK c : c = Waiting
    OBVIOUS
  <2>2. CallOK(c, settings, funds, requests, spent)
    BY <2>1, WaitingIsOK
  <2> QED
    BY <1>5, <2>1, <2>2
<1>7. PressesDiffer(call)
    BY <1>5 DEF PressesDiffer, Waiting, Submitting
<1>8. CapHolds(settings, requests, call)
  <2>1. Recent(requests) = {} /\ Locking(call) = {}
    BY <1>3, <1>5 DEF Recent, Locking, Waiting
  <2>2. Cardinality(Recent(requests)) = 0 /\ Cardinality(Locking(call)) = 0
    BY <2>1, FS_EmptySet
  <2>3. Cardinality(Tab) \in Nat
    BY WithdrawalsAssumption, FS_CardinalityType
  <2>4. Len(settings["cap"]) = 1 /\ settings["cap"][1] = FirstSettings["cap"]
    BY DEF WithdrawalsInit, SettingKeys
  <2>5. FirstSettings["cap"] \in Nat \ {0}
    BY SettingsAssumption
  <2>6. 1 \in 1..Len(settings["cap"])
    BY <2>4
  <2>7. Cardinality(Recent(requests)) + Cardinality(Locking(call)) < settings["cap"][1] + Cardinality(Tab)
    BY <2>2, <2>3, <2>4, <2>5
  <2> QED
    BY <2>6, <2>7 DEF CapHolds
<1> QED
    BY <1>4, <1>5, <1>6, <1>7, <1>8 DEF WithdrawalsInv

LEMMA WithdrawalsStep == WithdrawalsInv /\ [WithdrawalsNext]_withdrawalVars => WithdrawalsInv'
<1> SUFFICES ASSUME WithdrawalsInv, [WithdrawalsNext]_withdrawalVars PROVE WithdrawalsInv'
    OBVIOUS
<1>1. ASSUME NEW t \in Tab, Load(t) \/ Loaded(t) \/ \E typed \in Typed : PressSubmit(t, typed)
      PROVE  WithdrawalsInv'
    BY <1>1, LoadKeeps, LoadedKeeps, PressSubmitKeeps
<1>2. ASSUME NEW t \in Tab, ReadSettings(t) \/ CountRequests(t) \/ LockAndCreate(t)
      PROVE  WithdrawalsInv'
    BY <1>2, ReadSettingsKeeps, CountRequestsKeeps, LockAndCreateKeeps
<1>3. ASSUME NEW t \in Tab, BreakSubmission(t) \/ ShowAnswer(t) \/ LoseContact(t)
      PROVE  WithdrawalsInv'
    BY <1>3, BreakSubmissionKeeps, ShowAnswerKeeps, LoseContactKeeps
<1>4. ASSUME NEW k \in SettingKeys, NEW value \in Settings[k], EditSetting(k, value)
      PROVE  WithdrawalsInv'
    BY <1>4, EditSettingKeeps
<1>5. ASSUME NEW points \in Movements, MovePoints(points)
      PROVE  WithdrawalsInv'
    BY <1>5, MovePointsKeeps
<1>6. ASSUME DayPasses
      PROVE  WithdrawalsInv'
    BY <1>6, DayPassesKeeps
<1>7. CASE UNCHANGED withdrawalVars
  <2>1. UNCHANGED <<settings, funds, requests, screen, call, spent>>
    BY <1>7 DEF withdrawalVars
  <2>2. BooksOK(settings, funds, requests, spent)
    BY DEF WithdrawalsInv
  <2>3. /\ LaterSettings(settings, settings) /\ LaterFunds(funds, funds) /\ LaterRequests(requests, requests)
        /\ spent <= spent
    BY <2>2, StillIsLater
  <2>4. BooksOK(settings', funds', requests', spent')
    BY <2>1, <2>2
  <2>5. /\ LaterSettings(settings, settings') /\ LaterFunds(funds, funds') /\ LaterRequests(requests, requests')
        /\ spent <= spent'
    BY <2>1, <2>3
  <2>6. Len(requests') = Len(requests) /\ Recent(requests') \subseteq Recent(requests)
    BY <2>1
  <2> QED
    BY <2>1, <2>4, <2>5, <2>6, CallsRest
<1> QED
    BY <1>1, <1>2, <1>3, <1>4, <1>5, <1>6, <1>7 DEF WithdrawalsNext

\* What forms, submissions and requests have to do with one another, at every step.
THEOREM WithdrawalsInductive == WithdrawalsSpec => []WithdrawalsInv
<1>1. WithdrawalsInv /\ [WithdrawalsNext]_withdrawalVars => WithdrawalsInv'
    BY WithdrawalsStep
<1> QED
    BY <1>1, WithdrawalsInitially, PTL DEF WithdrawalsSpec

\* An account keeps to a cap that was set, but for the submissions that were
\* under way together, however many there are (assertWithinDailyCap counts on no
\* lock).
THEOREM CapKept == WithdrawalsSpec => []CapIsKept
<1>1. WithdrawalsInv => CapIsKept
  <2> SUFFICES ASSUME WithdrawalsInv PROVE CapIsKept
    OBVIOUS
  <2>1. BooksOK(settings, funds, requests, spent)
    BY DEF WithdrawalsInv
  <2>2. RecentRequests = Recent(requests)
    BY <2>1 DEF RecentRequests, Recent, BooksOK
  <2>3. PICK i \in 1..Len(settings["cap"]) :
            Cardinality(Recent(requests)) + Cardinality(Locking(call)) < settings["cap"][i] + Cardinality(Tab)
    BY DEF WithdrawalsInv, CapHolds
  <2>4. Cardinality(Locking(call)) \in Nat /\ Cardinality(Tab) \in Nat
    BY LockersAreTabs
  <2>5. Cardinality(Recent(requests)) \in Nat
    <3>1. IsFiniteSet(1..Len(requests))
      BY <2>1, FS_Interval DEF BooksOK
    <3>2. IsFiniteSet(Recent(requests))
      BY <3>1, FS_Subset DEF Recent
    <3> QED
      BY <3>2, FS_CardinalityType
  <2>6. settings["cap"][i] \in Nat
    <3>1. settings["cap"][i] \in Allowed("cap")
      BY <2>1, LengthsAreNat DEF BooksOK, SettingKeys
    <3> QED
      BY <3>1, SettingsAssumption DEF Allowed
  <2>7. Cardinality(RecentRequests) < settings["cap"][i] + Cardinality(Tab)
    BY <2>2, <2>3, <2>4, <2>5, <2>6
  <2> QED
    BY <2>7 DEF CapIsKept
<1> QED
    BY <1>1, WithdrawalsInductive, PTL

\* A submission is answered truly and kept to what its form said, for every
\* setting, amount, method and number of tabs (submit, options, describe,
\* WithdrawForm.svelte).
THEOREM FormsAreTrue == WithdrawalsSpec => []FormsTellTheTruth
<1>1. WithdrawalsInv => FormsTellTheTruth
  <2> SUFFICES ASSUME WithdrawalsInv, NEW t \in Tab, call[t].pc = "answering"
               PROVE  LET c == call[t]
                          mine == {row \in Range(requests) : row.press = c.press}
                          edited == Since(c.form.marks) IN
                      /\ c.in = "done" =>
                            \E row \in mine :
                               /\ row.amount = c.typed.amount /\ row.method = c.typed.method
                               /\ row.cash = CashMinorFor(c.typed.amount, c.form.options.rate) \/ "rate" \in edited
                      /\ c.in \notin {"done", "INTERNAL_ERROR"} => mine = {}
                      /\ c.in # "done" /\ Fits(c.form, c.typed) =>
                            CASE FieldFor(c.in) = "method" -> "methods" \in edited
                              [] FieldFor(c.in) = "amountPoints" -> edited \cap {"minimum", "maximum"} # {}
                              [] FieldFor(c.in) = "destination" -> ~c.typed.legible
                              [] FieldFor(c.in) = "form" ->
                                    c.in = "INSUFFICIENT_BALANCE" => c.form.available = Unknown \/ funds.falls > c.form.falls
    BY DEF FormsTellTheTruth
  <2>1. PICK c : c = call[t]
    OBVIOUS
  <2>2. PICK mine : mine = {row \in Range(requests) : row.press = c.press}
    OBVIOUS
  <2>3. PICK edited : edited = Since(c.form.marks)
    OBVIOUS
  <2>4. /\ c.in \notin {"done", "INTERNAL_ERROR"} => ~Made(c.press, requests)
        /\ c.in = "done" => Recorded(c, requests, settings)
        /\ c.in # "done" /\ Fits(c.form, c.typed) => Excused(c, settings, funds)
    BY <2>1 DEF WithdrawalsInv, CallOK
  <2>5. DOMAIN requests = 1..Len(requests)
    BY DEF WithdrawalsInv, BooksOK
  <2>6. \A k \in SettingKeys : Edited(k, c.form.marks, settings) <=> k \in edited
    BY <2>3 DEF Since, Edited
  <2>7. ASSUME c.in = "done"
        PROVE  \E row \in mine :
                  /\ row.amount = c.typed.amount /\ row.method = c.typed.method
                  /\ row.cash = CashMinorFor(c.typed.amount, c.form.options.rate) \/ "rate" \in edited
    <3>1. PICK i \in 1..Len(requests) :
              /\ requests[i].press = c.press
              /\ requests[i].amount = c.typed.amount /\ requests[i].method = c.typed.method
              /\ \/ requests[i].cash = CashMinorFor(c.typed.amount, c.form.options.rate)
                 \/ Edited("rate", c.form.marks, settings)
      BY <2>4, <2>7 DEF Recorded
    <3>2. requests[i] \in mine
      BY <2>2, <2>5, <3>1 DEF Range
    <3>3. Edited("rate", c.form.marks, settings) => "rate" \in edited
      BY <2>6 DEF SettingKeys, OptionKeys
    <3> QED
      BY <3>1, <3>2, <3>3
  <2>8. c.in \notin {"done", "INTERNAL_ERROR"} => mine = {}
    BY <2>2, <2>4, <2>5 DEF Made, Range
  <2>9. ASSUME c.in # "done", Fits(c.form, c.typed)
        PROVE  CASE FieldFor(c.in) = "method" -> "methods" \in edited
                 [] FieldFor(c.in) = "amountPoints" -> edited \cap {"minimum", "maximum"} # {}
                 [] FieldFor(c.in) = "destination" -> ~c.typed.legible
                 [] FieldFor(c.in) = "form" ->
                       c.in = "INSUFFICIENT_BALANCE" => c.form.available = Unknown \/ funds.falls > c.form.falls
    <3>1. /\ FieldFor(c.in) = "method" => "methods" \in edited
          /\ FieldFor(c.in) = "amountPoints" => "minimum" \in edited \/ "maximum" \in edited
          /\ FieldFor(c.in) = "destination" => ~c.typed.legible
          /\ c.in = "INSUFFICIENT_BALANCE" => c.form.available = Unknown \/ funds.falls > c.form.falls
      BY <2>4, <2>6, <2>9 DEF Excused, SettingKeys, OptionKeys
    <3>2. PICK field : field = FieldFor(c.in)
      OBVIOUS
    <3>3. field \in {"method", "amountPoints", "destination", "form"}
      BY <3>2 DEF FieldFor
    <3>4. CASE field = "method"
      BY <3>1, <3>2, <3>4
    <3>5. CASE field = "amountPoints"
      BY <3>1, <3>2, <3>5
    <3>6. CASE field = "destination"
      BY <3>1, <3>2, <3>6
    <3>7. CASE field = "form"
      BY <3>1, <3>2, <3>7
    <3> QED
      BY <3>3, <3>4, <3>5, <3>6, <3>7
  <2> QED
    BY <2>1, <2>2, <2>3, <2>7, <2>8, <2>9
<1> QED
    BY <1>1, WithdrawalsInductive, PTL

-----------------------------------------------------------------------------
(* Consoles: what is known of what they show and of what is done for them. *)

ProviderRecord == [registered : BOOLEAN, enabled : BOOLEAN, switches : Nat, announced : BOOLEAN, sure : BOOLEAN]

StoredOK(st, ed) ==
    /\ st = [s \in Scopes |-> st[s]] /\ ed \in [Scopes -> Nat]
    /\ \A s \in Scopes : st[s] # Nothing => st[s].version \in Nat /\ st[s].version <= ed[s]

\* Rows as they were read: the row of as many edits is the row, and so is the row
\* of the same version.
SettingOK(shown, eds, st, ed) ==
    \A s \in Scopes :
        /\ eds[s] \in Nat /\ eds[s] <= ed[s]
        /\ eds[s] = ed[s] => shown[s] = st[s]
        /\ shown[s] # Nothing =>
              /\ shown[s].version \in Nat /\ shown[s].version <= eds[s]
              /\ st[s] # Nothing /\ st[s].version = shown[s].version => st[s] = shown[s]

CardsOK(shown, pv) ==
    \A p \in Provider :
        /\ shown[p] \in ProviderRecord
        /\ shown[p].switches <= pv[p].switches
        /\ shown[p].switches = pv[p].switches => shown[p].enabled = pv[p].enabled
        /\ shown[p].registered => pv[p].registered

SheetOK(form, st, ed, pv) ==
    \/ form.screen = "setting" /\ form.scope \in Scopes /\ SettingOK(form.rows, form.edits, st, ed)
    \/ form.screen = "providers" /\ CardsOK(form.rows, pv)

\* What an answer says is so.
AnsweredTruly(e, ed, pv) ==
    IF e.form.screen = "setting"
    THEN /\ e.code = "done" =>
               /\ e.request.scope = e.form.scope
               /\ e.form.rows[e.request.scope] # Nothing => e.found = e.form.rows[e.request.scope]
         /\ e.code = "stale" => e.request.scope \in Scopes /\ ed[e.request.scope] > e.form.edits[e.request.scope]
    ELSE e.code = "conflict" =>
            /\ e.request.of \in Provider
            /\ \/ pv[e.request.of].registered /\ ~e.form.rows[e.request.of].registered
               \/ pv[e.request.of].switches > e.form.rows[e.request.of].switches
               \/ e.request.of \in Broken

SettingSteps == {"checking", "writing"}
SwitchSteps == {"reading", "switching"}
RegisterSteps == {"looking", "inserting"}

ErrandOK(e, st, ed, pv, kn) ==
    /\ e = [pc |-> e.pc, form |-> e.form, request |-> e.request, code |-> e.code, found |-> e.found]
    /\ SheetOK(e.form, st, ed, pv)
    /\ e.pc \in SettingSteps =>
          /\ e.form.screen = "setting" /\ e.request.scope = e.form.scope
          /\ e.request.expected = VersionFor(e.form.rows, e.form.scope)
    /\ e.pc = "writing" /\ e.request.expected # Nothing =>
          VersionFor(st, e.request.scope) = e.request.expected
    /\ e.pc \in SwitchSteps \cup RegisterSteps \cup {"reloading", "queueing"} =>
          e.form.screen = "providers" /\ e.request.of \in Provider
    /\ e.pc \in RegisterSteps => ~e.form.rows[e.request.of].registered
    /\ e.pc \in SwitchSteps =>
          /\ e.request.enabled \in BOOLEAN /\ e.request.enabled # e.form.rows[e.request.of].enabled
          /\ e.request.sure \in BOOLEAN /\ (e.request.sure => e.request.of \in kn)
          /\ e.form.rows[e.request.of].registered
    /\ e.pc = "switching" /\ e.request.enabled /\ e.request.of \in Broken => ~e.request.sure
    /\ e.pc = "reloading" => pv[e.request.of].registered
    /\ e.pc = "queueing" => e.form.rows[e.request.of].enabled
    /\ e.pc = "answering" => AnsweredTruly(e, ed, pv)

Writes(er, t, scope) == er[t] # Nothing /\ er[t].pc = "writing" /\ er[t].request.scope = scope

\* Whoever replaces a version holds the row by himself.
WritesAlone(er) ==
    \A t \in Desktop : \A u \in Desktop : \A scope \in Scopes :
        t # u /\ Writes(er, t, scope) /\ Writes(er, u, scope) => er[t].request.expected = Nothing

\* What the registry has read is registered, and whoever was told so is right.
RegisteredOK(pv, kn) ==
    /\ pv \in [Provider -> ProviderRecord]
    /\ kn \subseteq Provider
    /\ \A p \in kn : pv[p].registered
    /\ \A p \in Provider : pv[p].announced => p \in kn
    /\ \A p \in Broken : pv[p].enabled => ~pv[p].sure

QueueOK(p, queue, row) ==
    /\ queue = [jobs |-> queue.jobs, last |-> queue.last, seen |-> queue.seen]
    /\ \A job \in queue.jobs : job \in Nat /\ job <= row.switches /\ (job = row.switches => row.enabled)
    /\ queue.last = "refused" => p \in Broken \/ (queue.seen \in Nat /\ row.switches > queue.seen)

ConsolesInv ==
    /\ StoredOK(stored, edits) /\ RegisteredOK(provider, known)
    /\ DOMAIN sheet = Desktop /\ DOMAIN errand = Desktop /\ DOMAIN sync = Provider
    /\ \A t \in Desktop :
          (sheet[t] = Nothing /\ errand[t] = Nothing) \/ SheetOK(sheet[t], stored, edits, provider)
    /\ \A t \in Desktop : errand[t] = Nothing \/ ErrandOK(errand[t], stored, edits, provider, known)
    /\ WritesAlone(errand)
    /\ \A p \in Provider : QueueOK(p, sync[p], provider[p])

-----------------------------------------------------------------------------
(* Rows are written anew or removed, and providers only switched further. *)

LaterStored(st, ed, st2, ed2) ==
    \A s \in Scopes :
        /\ ed[s] <= ed2[s]
        /\ ed2[s] = ed[s] => st2[s] = st[s]
        /\ st2[s] = st[s] \/ st2[s] = Nothing \/ st2[s].version > ed[s]

LEMMA SettingStays ==
    ASSUME NEW st, NEW ed, NEW st2, NEW ed2, StoredOK(st, ed), StoredOK(st2, ed2), LaterStored(st, ed, st2, ed2),
           NEW shown, NEW eds, SettingOK(shown, eds, st, ed)
    PROVE  SettingOK(shown, eds, st2, ed2)
<1> SUFFICES ASSUME NEW s \in Scopes
             PROVE  /\ eds[s] \in Nat /\ eds[s] <= ed2[s]
                    /\ eds[s] = ed2[s] => shown[s] = st2[s]
                    /\ shown[s] # Nothing =>
                          /\ shown[s].version \in Nat /\ shown[s].version <= eds[s]
                          /\ st2[s] # Nothing /\ st2[s].version = shown[s].version => st2[s] = shown[s]
    BY DEF SettingOK
<1>1. ed[s] \in Nat /\ ed2[s] \in Nat
    BY DEF StoredOK
<1>2. /\ ed[s] <= ed2[s]
      /\ ed2[s] = ed[s] => st2[s] = st[s]
      /\ st2[s] = st[s] \/ st2[s] = Nothing \/ st2[s].version > ed[s]
    BY DEF LaterStored
<1>3. /\ eds[s] \in Nat /\ eds[s] <= ed[s]
      /\ eds[s] = ed[s] => shown[s] = st[s]
      /\ shown[s] # Nothing =>
            /\ shown[s].version \in Nat /\ shown[s].version <= eds[s]
            /\ st[s] # Nothing /\ st[s].version = shown[s].version => st[s] = shown[s]
    BY DEF SettingOK
<1>4. eds[s] \in Nat /\ eds[s] <= ed2[s]
    BY <1>1, <1>2, <1>3
<1>5. eds[s] = ed2[s] => shown[s] = st2[s]
    BY <1>1, <1>2, <1>3
<1>6. ASSUME shown[s] # Nothing
      PROVE  /\ shown[s].version \in Nat /\ shown[s].version <= eds[s]
             /\ st2[s] # Nothing /\ st2[s].version = shown[s].version => st2[s] = shown[s]
  <2>1. shown[s].version \in Nat /\ shown[s].version <= eds[s]
    BY <1>3, <1>6
  <2>2. CASE st2[s] = st[s]
    BY <1>3, <1>6, <2>1, <2>2
  <2>3. CASE st2[s] # Nothing /\ st2[s].version > ed[s]
    <3>1. st2[s].version \in Nat
      BY <2>3 DEF StoredOK
    <3>2. st2[s].version # shown[s].version
      BY <1>1, <1>3, <2>1, <2>3, <3>1
    <3> QED
      BY <2>1, <3>2
  <2> QED
    BY <1>2, <2>1, <2>2, <2>3
<1> QED
    BY <1>4, <1>5, <1>6

LEMMA CardsStay ==
    ASSUME NEW shown, NEW pv \in [Provider -> ProviderRecord], NEW pv2 \in [Provider -> ProviderRecord],
           CardsOK(shown, pv), CardsOK(pv, pv2)
    PROVE  CardsOK(shown, pv2)
<1> SUFFICES ASSUME NEW p \in Provider
             PROVE  /\ shown[p] \in ProviderRecord
                    /\ shown[p].switches <= pv2[p].switches
                    /\ shown[p].switches = pv2[p].switches => shown[p].enabled = pv2[p].enabled
                    /\ shown[p].registered => pv2[p].registered
    BY DEF CardsOK
<1>1. shown[p] \in ProviderRecord /\ pv[p] \in ProviderRecord /\ pv2[p] \in ProviderRecord
    BY DEF CardsOK
<1>2. shown[p].switches \in Nat /\ pv[p].switches \in Nat /\ pv2[p].switches \in Nat
    BY <1>1 DEF ProviderRecord
<1>3. /\ shown[p].switches <= pv[p].switches /\ pv[p].switches <= pv2[p].switches
      /\ shown[p].switches = pv[p].switches => shown[p].enabled = pv[p].enabled
      /\ pv[p].switches = pv2[p].switches => pv[p].enabled = pv2[p].enabled
    BY DEF CardsOK
<1>4. shown[p].registered => pv2[p].registered
    BY DEF CardsOK
<1>5. shown[p].switches <= pv2[p].switches
    BY <1>2, <1>3
<1>6. shown[p].switches = pv2[p].switches => shown[p].enabled = pv2[p].enabled
    BY <1>2, <1>3
<1> QED
    BY <1>1, <1>4, <1>5, <1>6

LEMMA SheetStays ==
    ASSUME NEW st, NEW ed, NEW st2, NEW ed2, StoredOK(st, ed), StoredOK(st2, ed2), LaterStored(st, ed, st2, ed2),
           NEW pv \in [Provider -> ProviderRecord], NEW pv2 \in [Provider -> ProviderRecord], CardsOK(pv, pv2),
           NEW form, SheetOK(form, st, ed, pv)
    PROVE  SheetOK(form, st2, ed2, pv2)
<1>1. CASE form.screen = "setting" /\ form.scope \in Scopes /\ SettingOK(form.rows, form.edits, st, ed)
  <2>1. SettingOK(form.rows, form.edits, st2, ed2)
    BY <1>1, SettingStays
  <2> QED
    BY <1>1, <2>1 DEF SheetOK
<1>2. CASE form.screen = "providers" /\ CardsOK(form.rows, pv)
  <2>1. CardsOK(form.rows, pv2)
    BY <1>2, CardsStay
  <2> QED
    BY <1>2, <2>1 DEF SheetOK
<1> QED
    BY <1>1, <1>2 DEF SheetOK

LEMMA AnswersStayTrue ==
    ASSUME NEW st, NEW ed, NEW st2, NEW ed2, StoredOK(st, ed), StoredOK(st2, ed2), LaterStored(st, ed, st2, ed2),
           NEW pv \in [Provider -> ProviderRecord], NEW pv2 \in [Provider -> ProviderRecord], CardsOK(pv, pv2),
           NEW e, SheetOK(e.form, st, ed, pv), AnsweredTruly(e, ed, pv)
    PROVE  AnsweredTruly(e, ed2, pv2)
<1>1. CASE e.form.screen = "setting"
  <2>1. ASSUME e.code = "stale"
        PROVE  e.request.scope \in Scopes /\ ed2[e.request.scope] > e.form.edits[e.request.scope]
    <3>1. e.request.scope \in Scopes /\ ed[e.request.scope] > e.form.edits[e.request.scope]
      BY <1>1, <2>1 DEF AnsweredTruly
    <3>2. e.form.edits[e.request.scope] \in Nat
      BY <1>1, <3>1 DEF SheetOK, SettingOK
    <3>3. ed[e.request.scope] \in Nat /\ ed2[e.request.scope] \in Nat /\ ed[e.request.scope] <= ed2[e.request.scope]
      BY <3>1 DEF StoredOK, LaterStored
    <3> QED
      BY <3>1, <3>2, <3>3
  <2> QED
    BY <1>1, <2>1 DEF AnsweredTruly
<1>2. CASE e.form.screen # "setting"
  <2>1. ASSUME e.code = "conflict"
        PROVE  /\ e.request.of \in Provider
               /\ \/ pv2[e.request.of].registered /\ ~e.form.rows[e.request.of].registered
                  \/ pv2[e.request.of].switches > e.form.rows[e.request.of].switches
                  \/ e.request.of \in Broken
    <3>1. PICK p \in Provider : p = e.request.of
      BY <1>2, <2>1 DEF AnsweredTruly
    <3>2. \/ pv[p].registered /\ ~e.form.rows[p].registered
          \/ pv[p].switches > e.form.rows[p].switches
          \/ p \in Broken
      BY <1>2, <2>1, <3>1 DEF AnsweredTruly
    <3>3. CASE pv[p].registered /\ ~e.form.rows[p].registered
      BY <3>1, <3>3 DEF CardsOK
    <3>4. CASE pv[p].switches > e.form.rows[p].switches
      <4>1. e.form.rows[p] \in ProviderRecord /\ pv[p] \in ProviderRecord /\ pv2[p] \in ProviderRecord
        BY <1>2 DEF SheetOK, CardsOK
      <4>2. e.form.rows[p].switches \in Nat /\ pv[p].switches \in Nat /\ pv2[p].switches \in Nat
        BY <4>1 DEF ProviderRecord
      <4>3. pv[p].switches <= pv2[p].switches
        BY DEF CardsOK
      <4>4. pv2[p].switches > e.form.rows[p].switches
        BY <3>4, <4>2, <4>3
      <4> QED
        BY <3>1, <4>4
    <3> QED
      BY <3>1, <3>2, <3>3, <3>4
  <2> QED
    BY <1>2, <2>1 DEF AnsweredTruly
<1> QED
    BY <1>1, <1>2

LEMMA ErrandStays ==
    ASSUME NEW st, NEW ed, NEW st2, NEW ed2, StoredOK(st, ed), StoredOK(st2, ed2), LaterStored(st, ed, st2, ed2),
           NEW pv \in [Provider -> ProviderRecord], NEW pv2 \in [Provider -> ProviderRecord], CardsOK(pv, pv2),
           NEW kn, NEW kn2, kn \subseteq kn2,
           NEW e, ErrandOK(e, st, ed, pv, kn),
           e.pc = "writing" /\ e.request.expected # Nothing => st2[e.request.scope] = st[e.request.scope]
    PROVE  ErrandOK(e, st2, ed2, pv2, kn2)
<1>1. SheetOK(e.form, st, ed, pv)
    BY DEF ErrandOK
<1>2. SheetOK(e.form, st2, ed2, pv2)
    BY <1>1, SheetStays
<1>3. e.pc = "writing" /\ e.request.expected # Nothing => VersionFor(st2, e.request.scope) = e.request.expected
    BY DEF ErrandOK, VersionFor
<1>4. e.pc = "answering" => AnsweredTruly(e, ed2, pv2)
    BY <1>1, AnswersStayTrue DEF ErrandOK
<1>5. e.pc = "reloading" => pv2[e.request.of].registered
    BY DEF ErrandOK, CardsOK
<1>6. e.pc \in SwitchSteps =>
          /\ e.request.enabled \in BOOLEAN /\ e.request.enabled # e.form.rows[e.request.of].enabled
          /\ e.request.sure \in BOOLEAN /\ (e.request.sure => e.request.of \in kn2)
          /\ e.form.rows[e.request.of].registered
    BY DEF ErrandOK
<1> QED
    BY <1>2, <1>3, <1>4, <1>5, <1>6 DEF ErrandOK

LEMMA QueueStays ==
    ASSUME NEW pv \in [Provider -> ProviderRecord], NEW pv2 \in [Provider -> ProviderRecord], CardsOK(pv, pv2),
           NEW p \in Provider, NEW queue, QueueOK(p, queue, pv[p])
    PROVE  QueueOK(p, queue, pv2[p])
<1>1. pv[p].switches \in Nat /\ pv2[p].switches \in Nat /\ pv[p].switches <= pv2[p].switches
    BY DEF ProviderRecord, CardsOK
<1>2. pv[p].switches = pv2[p].switches => pv[p].enabled = pv2[p].enabled
    BY DEF CardsOK
<1>3. ASSUME NEW job \in queue.jobs
      PROVE  job \in Nat /\ job <= pv2[p].switches /\ (job = pv2[p].switches => pv2[p].enabled)
  <2>1. job \in Nat /\ job <= pv[p].switches /\ (job = pv[p].switches => pv[p].enabled)
    BY <1>3 DEF QueueOK
  <2>2. job <= pv2[p].switches
    BY <1>1, <2>1
  <2>3. job = pv2[p].switches => job = pv[p].switches /\ pv[p].switches = pv2[p].switches
    BY <1>1, <2>1
  <2> QED
    BY <1>2, <2>1, <2>2, <2>3
<1>4. queue.last = "refused" => p \in Broken \/ (queue.seen \in Nat /\ pv2[p].switches > queue.seen)
  <2>1. ASSUME queue.seen \in Nat, pv[p].switches > queue.seen
        PROVE  pv2[p].switches > queue.seen
    BY <1>1, <2>1
  <2> QED
    BY <2>1 DEF QueueOK
<1> QED
    BY <1>3, <1>4 DEF QueueOK

-----------------------------------------------------------------------------
(* What a step of the consoles has to show. *)

LEMMA ConsoleMoves ==
    ASSUME ConsolesInv, StoredOK(stored', edits'), RegisteredOK(provider', known'),
           LaterStored(stored, edits, stored', edits'), CardsOK(provider, provider'), known \subseteq known',
           DOMAIN sheet' = Desktop, DOMAIN errand' = Desktop, DOMAIN sync' = Provider,
           \A t \in Desktop :
              \/ /\ sheet'[t] = sheet[t]
                 /\ errand[t] # Nothing \/ errand'[t] = Nothing \/ SheetOK(sheet[t], stored, edits, provider)
              \/ SheetOK(sheet'[t], stored', edits', provider'),
           \A t \in Desktop :
              \/ /\ errand'[t] = errand[t]
                 /\ errand[t] # Nothing /\ errand[t].pc = "writing" /\ errand[t].request.expected # Nothing =>
                       stored'[errand[t].request.scope] = stored[errand[t].request.scope]
              \/ errand'[t] = Nothing
              \/ ErrandOK(errand'[t], stored', edits', provider', known'),
           WritesAlone(errand'),
           \A p \in Provider : sync'[p] = sync[p] \/ QueueOK(p, sync'[p], provider'[p])
    PROVE  ConsolesInv'
<1>1. PICK st : st = stored'
    OBVIOUS
<1>2. PICK ed : ed = edits'
    OBVIOUS
<1>3. PICK pv : pv = provider'
    OBVIOUS
<1>4. PICK kn : kn = known'
    OBVIOUS
<1>5. /\ StoredOK(stored, edits) /\ StoredOK(st, ed) /\ LaterStored(stored, edits, st, ed)
      /\ provider \in [Provider -> ProviderRecord] /\ pv \in [Provider -> ProviderRecord]
      /\ CardsOK(provider, pv) /\ known \subseteq kn
    BY <1>1, <1>2, <1>3, <1>4 DEF ConsolesInv, RegisteredOK
<1>6. ASSUME NEW t \in Desktop
      PROVE  (sheet'[t] = Nothing /\ errand'[t] = Nothing) \/ SheetOK(sheet'[t], stored', edits', provider')
  <2>1. PICK form : form = sheet[t]
    OBVIOUS
  <2>2. ASSUME SheetOK(form, stored, edits, provider)
        PROVE  SheetOK(form, st, ed, pv)
    BY <1>5, <2>2, SheetStays
  <2>3. (form = Nothing /\ errand[t] = Nothing) \/ SheetOK(form, stored, edits, provider)
    BY <1>6, <2>1 DEF ConsolesInv
  <2> QED
    BY <1>1, <1>2, <1>3, <1>6, <2>1, <2>2, <2>3
<1>7. ASSUME NEW t \in Desktop
      PROVE  errand'[t] = Nothing \/ ErrandOK(errand'[t], stored', edits', provider', known')
  <2>1. PICK e : e = errand[t]
    OBVIOUS
  <2>2. ASSUME ErrandOK(e, stored, edits, provider, known),
               e.pc = "writing" /\ e.request.expected # Nothing => st[e.request.scope] = stored[e.request.scope]
        PROVE  ErrandOK(e, st, ed, pv, kn)
    BY <1>5, <2>2, ErrandStays
  <2>3. e = Nothing \/ ErrandOK(e, stored, edits, provider, known)
    BY <1>7, <2>1 DEF ConsolesInv
  <2> QED
    BY <1>1, <1>2, <1>3, <1>4, <1>7, <2>1, <2>2, <2>3
<1>8. ASSUME NEW p \in Provider
      PROVE  QueueOK(p, sync'[p], provider'[p])
  <2>1. PICK queue : queue = sync[p]
    OBVIOUS
  <2>2. QueueOK(p, queue, provider[p])
    BY <1>8, <2>1 DEF ConsolesInv
  <2>3. QueueOK(p, queue, pv[p])
    BY <1>5, <2>2, QueueStays
  <2> QED
    BY <1>3, <1>8, <2>1, <2>3
<1> QED
    BY <1>6, <1>7, <1>8 DEF ConsolesInv

\* What stands still is later than itself.
LEMMA ConsoleStill ==
    ASSUME ConsolesInv
    PROVE  /\ StoredOK(stored, edits) /\ RegisteredOK(provider, known)
           /\ LaterStored(stored, edits, stored, edits) /\ CardsOK(provider, provider) /\ known \subseteq known
<1>1. StoredOK(stored, edits) /\ RegisteredOK(provider, known)
    BY DEF ConsolesInv
<1>2. LaterStored(stored, edits, stored, edits)
    BY <1>1 DEF StoredOK, LaterStored
<1>3. CardsOK(provider, provider)
  <2>1. ASSUME NEW p \in Provider
        PROVE  provider[p] \in ProviderRecord /\ provider[p].switches \in Nat
    BY <1>1, <2>1 DEF RegisteredOK, ProviderRecord
  <2>2. \A p \in Provider : provider[p].switches <= provider[p].switches
    BY <2>1
  <2> QED
    BY <2>1, <2>2 DEF CardsOK
<1> QED
    BY <1>1, <1>2, <1>3

\* One errand goes on, or ends, without coming to write; nothing is stored.
LEMMA ErrandGoes ==
    ASSUME ConsolesInv, NEW t \in Desktop, NEW e,
           UNCHANGED <<stored, edits, sheet>>,
           errand[t] # Nothing \/ SheetOK(sheet[t], stored, edits, provider),
           RegisteredOK(provider', known'), CardsOK(provider, provider'), known \subseteq known',
           DOMAIN sync' = Provider,
           \A p \in Provider : sync'[p] = sync[p] \/ QueueOK(p, sync'[p], provider'[p]),
           errand' = [errand EXCEPT ![t] = e],
           e = Nothing \/ (e.pc # "writing" /\ ErrandOK(e, stored, edits, provider', known'))
    PROVE  ConsolesInv'
<1>1. /\ StoredOK(stored, edits) /\ LaterStored(stored, edits, stored, edits)
      /\ DOMAIN errand = Desktop /\ DOMAIN sheet = Desktop /\ WritesAlone(errand)
    BY ConsoleStill DEF ConsolesInv
<1>2. DOMAIN errand' = Desktop /\ errand'[t] = e /\ \A u \in Desktop \ {t} : errand'[u] = errand[u]
    BY <1>1
<1>3. WritesAlone(errand')
    BY <1>1, <1>2 DEF WritesAlone, Writes
<1>4. StoredOK(stored', edits') /\ LaterStored(stored, edits, stored', edits')
    BY <1>1
<1>5. \A u \in Desktop :
         \/ /\ errand'[u] = errand[u]
            /\ errand[u] # Nothing /\ errand[u].pc = "writing" /\ errand[u].request.expected # Nothing =>
                  stored'[errand[u].request.scope] = stored[errand[u].request.scope]
         \/ errand'[u] = Nothing
         \/ ErrandOK(errand'[u], stored', edits', provider', known')
    BY <1>2
<1>6. /\ DOMAIN sheet' = Desktop
      /\ \A u \in Desktop : /\ sheet'[u] = sheet[u]
                            /\ errand[u] # Nothing \/ errand'[u] = Nothing \/ SheetOK(sheet[u], stored, edits, provider)
    BY <1>1, <1>2
<1> QED
    BY <1>2, <1>3, <1>4, <1>5, <1>6, ConsoleMoves

\* As ErrandGoes, where no provider or queue moves either.
LEMMA ErrandJustGoes ==
    ASSUME ConsolesInv, NEW t \in Desktop, NEW e,
           UNCHANGED <<stored, edits, provider, known, sync, sheet>>,
           errand[t] # Nothing \/ SheetOK(sheet[t], stored, edits, provider),
           errand' = [errand EXCEPT ![t] = e],
           e = Nothing \/ (e.pc # "writing" /\ ErrandOK(e, stored, edits, provider, known))
    PROVE  ConsolesInv'
<1>1. RegisteredOK(provider, known) /\ CardsOK(provider, provider)
    BY ConsoleStill
<1>2. RegisteredOK(provider', known') /\ CardsOK(provider, provider') /\ known \subseteq known'
    BY <1>1
<1>3. DOMAIN sync' = Provider /\ \A p \in Provider : sync'[p] = sync[p]
    BY DEF ConsolesInv
<1>4. e = Nothing \/ (e.pc # "writing" /\ ErrandOK(e, stored, edits, provider', known'))
    OBVIOUS
<1> QED
    BY <1>2, <1>3, <1>4, ErrandGoes

\* A tab shows what there is, and its errand is over or stands.
LEMMA SheetMoves ==
    ASSUME ConsolesInv, NEW t \in Desktop, NEW form,
           UNCHANGED <<stored, edits, provider, known, sync>>,
           sheet' = [sheet EXCEPT ![t] = form] \/ UNCHANGED sheet,
           SheetOK(form, stored, edits, provider),
           errand' = [errand EXCEPT ![t] = Nothing] \/ UNCHANGED errand
    PROVE  ConsolesInv'
<1>1. /\ StoredOK(stored, edits) /\ RegisteredOK(provider, known)
      /\ LaterStored(stored, edits, stored, edits) /\ CardsOK(provider, provider)
      /\ DOMAIN errand = Desktop /\ DOMAIN sheet = Desktop /\ DOMAIN sync = Provider /\ WritesAlone(errand)
    BY ConsoleStill DEF ConsolesInv
<1>2. DOMAIN errand' = Desktop /\ \A u \in Desktop : errand'[u] = errand[u] \/ errand'[u] = Nothing
    BY <1>1
<1>3. DOMAIN sheet' = Desktop /\ \A u \in Desktop : sheet'[u] = sheet[u] \/ sheet'[u] = form
    BY <1>1
<1>4. WritesAlone(errand')
    BY <1>1, <1>2 DEF WritesAlone, Writes
<1>5. /\ StoredOK(stored', edits') /\ RegisteredOK(provider', known') /\ known \subseteq known'
      /\ LaterStored(stored, edits, stored', edits') /\ CardsOK(provider, provider')
    BY <1>1
<1>6. \A u \in Desktop :
         \/ /\ sheet'[u] = sheet[u]
            /\ errand[u] # Nothing \/ errand'[u] = Nothing \/ SheetOK(sheet[u], stored, edits, provider)
         \/ SheetOK(sheet'[u], stored', edits', provider')
    BY <1>2, <1>3
<1>7. \A u \in Desktop :
         \/ /\ errand'[u] = errand[u]
            /\ errand[u] # Nothing /\ errand[u].pc = "writing" /\ errand[u].request.expected # Nothing =>
                  stored'[errand[u].request.scope] = stored[errand[u].request.scope]
         \/ errand'[u] = Nothing
         \/ ErrandOK(errand'[u], stored', edits', provider', known')
    BY <1>2
<1>8. DOMAIN sync' = Provider /\ \A p \in Provider : sync'[p] = sync[p]
    BY <1>1
<1> QED
    BY <1>2, <1>3, <1>4, <1>5, <1>6, <1>7, <1>8, ConsoleMoves

LEMMA SettingSheetIsOK ==
    ASSUME ConsolesInv, NEW scope \in Scopes, NEW form, form = SettingSheet(scope)
    PROVE  SheetOK(form, stored, edits, provider)
<1>1. form.screen = "setting" /\ form.scope = scope /\ form.rows = stored /\ form.edits = edits
    BY DEF SettingSheet
<1>2. SettingOK(stored, edits, stored, edits)
    BY DEF ConsolesInv, StoredOK, SettingOK
<1> QED
    BY <1>1, <1>2 DEF SheetOK

LEMMA ProvidersSheetIsOK ==
    ASSUME ConsolesInv, NEW listed, NEW form, form = ProvidersSheet(listed)
    PROVE  SheetOK(form, stored, edits, provider)
<1>1. form.screen = "providers" /\ form.rows = provider
    BY DEF ProvidersSheet
<1> QED
    BY <1>1, ConsoleStill DEF SheetOK

LEMMA OpenSettingKeeps ==
    ASSUME ConsolesInv, NEW t \in Desktop, NEW scope \in Scopes, OpenSetting(t, scope)
    PROVE  ConsolesInv'
<1>1. PICK form : form = SettingSheet(scope)
    OBVIOUS
<1>2. sheet' = [sheet EXCEPT ![t] = form] /\ UNCHANGED <<stored, edits, provider, known, sync, errand>>
    BY <1>1 DEF OpenSetting
<1>3. SheetOK(form, stored, edits, provider)
    BY <1>1, SettingSheetIsOK
<1> QED
    BY <1>2, <1>3, SheetMoves

LEMMA OpenProvidersKeeps ==
    ASSUME ConsolesInv, NEW t \in Desktop, OpenProviders(t)
    PROVE  ConsolesInv'
<1>1. PICK listed \in BOOLEAN : sheet' = [sheet EXCEPT ![t] = ProvidersSheet(listed)]
    BY DEF OpenProviders
<1>2. PICK form : form = ProvidersSheet(listed)
    OBVIOUS
<1>3. UNCHANGED <<stored, edits, provider, known, sync, errand>>
    BY DEF OpenProviders
<1>4. SheetOK(form, stored, edits, provider)
    BY <1>2, ProvidersSheetIsOK
<1>5. sheet' = [sheet EXCEPT ![t] = form]
    BY <1>1, <1>2
<1> QED
    BY <1>3, <1>4, <1>5, SheetMoves

LEMMA HearAnswerKeeps ==
    ASSUME ConsolesInv, NEW t \in Desktop, HearAnswer(t)
    PROVE  ConsolesInv'
<1>1. SheetOK(sheet[t], stored, edits, provider)
    BY DEF ConsolesInv, HearAnswer
<1>2. PICK form : form = IF sheet[t].screen = "setting" THEN SettingSheet(sheet[t].scope) ELSE ProvidersSheet(TRUE)
    OBVIOUS
<1>3. SheetOK(form, stored, edits, provider)
  <2>1. CASE sheet[t].screen = "setting"
    <3>1. sheet[t].scope \in Scopes
      BY <1>1, <2>1 DEF SheetOK
    <3>2. PICK scope \in Scopes : scope = sheet[t].scope
      BY <3>1
    <3>3. form = SettingSheet(scope)
      BY <1>2, <2>1, <3>2
    <3> QED
      BY <3>3, SettingSheetIsOK
  <2>2. CASE sheet[t].screen # "setting"
    BY <1>2, <2>2, ProvidersSheetIsOK
  <2> QED
    BY <2>1, <2>2
<1>4. sheet' = [sheet EXCEPT ![t] = form] \/ UNCHANGED sheet
    BY <1>2 DEF HearAnswer
<1>5. UNCHANGED <<stored, edits, provider, known, sync>> /\ errand' = [errand EXCEPT ![t] = Nothing]
    BY DEF HearAnswer
<1> QED
    BY <1>3, <1>4, <1>5, SheetMoves

-----------------------------------------------------------------------------
(* What is pressed *)

LEMMA PressKeeps ==
    ASSUME ConsolesInv, NEW t \in Desktop, sheet[t] # Nothing, NEW op, NEW request, Press(t, op, request),
           UNCHANGED <<stored, edits, provider, known, sync, sheet>>,
           NEW e, e = [pc |-> op, form |-> sheet[t], request |-> request, code |-> "none", found |-> Nothing],
           op # "writing", ErrandOK(e, stored, edits, provider, known)
    PROVE  ConsolesInv'
<1>1. errand' = [errand EXCEPT ![t] = e]
    BY DEF Press
<1>2. SheetOK(sheet[t], stored, edits, provider)
    BY DEF ConsolesInv
<1>3. e.pc # "writing"
    OBVIOUS
<1> QED
    BY <1>1, <1>2, <1>3, ErrandJustGoes

LEMMA CheckingIsOK ==
    ASSUME ConsolesInv, NEW t \in Desktop, OnSetting(t), NEW value,
           NEW e, e = [pc |-> "checking", form |-> sheet[t],
                       request |-> [scope |-> sheet[t].scope, value |-> value,
                                    expected |-> VersionFor(sheet[t].rows, sheet[t].scope)],
                       code |-> "none", found |-> Nothing]
    PROVE  ErrandOK(e, stored, edits, provider, known)
<1>1. SheetOK(sheet[t], stored, edits, provider) /\ sheet[t].screen = "setting"
    BY DEF ConsolesInv, OnSetting
<1> QED
    BY <1>1 DEF ErrandOK, SettingSteps, SwitchSteps, RegisterSteps

LEMMA PressSetKeeps ==
    ASSUME ConsolesInv, NEW t \in Desktop, NEW value, PressSet(t, value)
    PROVE  ConsolesInv'
<1>1. PICK request : request = [scope |-> sheet[t].scope, value |-> value,
                                expected |-> VersionFor(sheet[t].rows, sheet[t].scope)]
    OBVIOUS
<1>2. PICK e : e = [pc |-> "checking", form |-> sheet[t], request |-> request, code |-> "none", found |-> Nothing]
    OBVIOUS
<1>3. /\ OnSetting(t) /\ sheet[t] # Nothing /\ Press(t, "checking", request)
      /\ UNCHANGED <<stored, edits, provider, known, sync, sheet>>
    BY <1>1 DEF PressSet, OnSetting
<1>4. ErrandOK(e, stored, edits, provider, known)
    BY <1>1, <1>2, <1>3, CheckingIsOK
<1> QED
    BY <1>2, <1>3, <1>4, PressKeeps

LEMMA PressResetKeeps ==
    ASSUME ConsolesInv, NEW t \in Desktop, PressReset(t)
    PROVE  ConsolesInv'
<1>1. PICK request : request = [scope |-> sheet[t].scope, value |-> Nothing,
                                expected |-> VersionFor(sheet[t].rows, sheet[t].scope)]
    OBVIOUS
<1>2. PICK e : e = [pc |-> "checking", form |-> sheet[t], request |-> request, code |-> "none", found |-> Nothing]
    OBVIOUS
<1>3. /\ OnSetting(t) /\ sheet[t] # Nothing /\ Press(t, "checking", request)
      /\ UNCHANGED <<stored, edits, provider, known, sync, sheet>>
    BY <1>1 DEF PressReset, OnSetting
<1>4. ErrandOK(e, stored, edits, provider, known)
    BY <1>1, <1>2, <1>3, CheckingIsOK
<1> QED
    BY <1>2, <1>3, <1>4, PressKeeps

\* The cards of a tab.
LEMMA CardsAre ==
    ASSUME ConsolesInv, NEW t \in Desktop, OnProviders(t), NEW p \in Provider
    PROVE  /\ sheet[t] # Nothing /\ sheet[t].screen = "providers"
           /\ SheetOK(sheet[t], stored, edits, provider)
           /\ sheet[t].rows[p] \in ProviderRecord
    BY DEF ConsolesInv, OnProviders, SheetOK, CardsOK

LEMMA PressRegisterKeeps ==
    ASSUME ConsolesInv, NEW t \in Desktop, NEW p \in Provider, PressRegister(t, p)
    PROVE  ConsolesInv'
<1>1. PICK request : request = [of |-> p]
    OBVIOUS
<1>2. PICK e : e = [pc |-> "looking", form |-> sheet[t], request |-> request, code |-> "none", found |-> Nothing]
    OBVIOUS
<1>3. /\ OnProviders(t) /\ ~sheet[t].rows[p].registered /\ Press(t, "looking", request)
      /\ UNCHANGED <<stored, edits, provider, known, sync, sheet>>
    BY <1>1 DEF PressRegister
<1>4. sheet[t] # Nothing /\ sheet[t].screen = "providers" /\ SheetOK(sheet[t], stored, edits, provider)
    BY <1>3, CardsAre
<1>5. ErrandOK(e, stored, edits, provider, known)
    BY <1>1, <1>2, <1>3, <1>4 DEF ErrandOK, SettingSteps, SwitchSteps, RegisterSteps
<1> QED
    BY <1>2, <1>3, <1>4, <1>5, PressKeeps

LEMMA PressSwitchKeeps ==
    ASSUME ConsolesInv, NEW t \in Desktop, NEW p \in Provider, PressSwitch(t, p)
    PROVE  ConsolesInv'
<1>1. PICK request : request = [of |-> p, enabled |-> ~sheet[t].rows[p].enabled, sure |-> provider[p].announced]
    OBVIOUS
<1>2. PICK e : e = [pc |-> "reading", form |-> sheet[t], request |-> request, code |-> "none", found |-> Nothing]
    OBVIOUS
<1>3. /\ OnProviders(t) /\ sheet[t].rows[p].registered /\ Press(t, "reading", request)
      /\ UNCHANGED <<stored, edits, provider, known, sync, sheet>>
    BY <1>1 DEF PressSwitch
<1>4. /\ sheet[t] # Nothing /\ sheet[t].screen = "providers" /\ SheetOK(sheet[t], stored, edits, provider)
      /\ sheet[t].rows[p] \in ProviderRecord
    BY <1>3, CardsAre
<1>5. sheet[t].rows[p].enabled \in BOOLEAN
    BY <1>4 DEF ProviderRecord
<1>6. request.of = p /\ request.enabled = (~sheet[t].rows[p].enabled)
    BY <1>1
<1>7. request.enabled \in BOOLEAN /\ request.enabled # sheet[t].rows[p].enabled
    BY <1>5, <1>6
<1>8. request.sure = provider[p].announced
    BY <1>1
<1>9. provider[p].announced \in BOOLEAN
    BY DEF ConsolesInv, RegisteredOK, ProviderRecord
<1>10. request.sure \in BOOLEAN
    BY <1>8, <1>9
<1>11. request.sure => p \in known
    BY <1>8 DEF ConsolesInv, RegisteredOK
<1>12. ErrandOK(e, stored, edits, provider, known)
    BY <1>2, <1>3, <1>4, <1>6, <1>7, <1>10, <1>11 DEF ErrandOK, SettingSteps, SwitchSteps, RegisterSteps
<1> QED
    BY <1>2, <1>3, <1>4, <1>12, PressKeeps

LEMMA PressSyncKeeps ==
    ASSUME ConsolesInv, NEW t \in Desktop, NEW p \in Provider, PressSync(t, p)
    PROVE  ConsolesInv'
<1>1. PICK request : request = [of |-> p]
    OBVIOUS
<1>2. PICK e : e = [pc |-> "queueing", form |-> sheet[t], request |-> request, code |-> "none", found |-> Nothing]
    OBVIOUS
<1>3. /\ OnProviders(t) /\ sheet[t].rows[p].enabled /\ Press(t, "queueing", request)
      /\ UNCHANGED <<stored, edits, provider, known, sync, sheet>>
    BY <1>1 DEF PressSync, Syncable
<1>4. sheet[t] # Nothing /\ sheet[t].screen = "providers" /\ SheetOK(sheet[t], stored, edits, provider)
    BY <1>3, CardsAre
<1>5. ErrandOK(e, stored, edits, provider, known)
    BY <1>1, <1>2, <1>3, <1>4 DEF ErrandOK, SettingSteps, SwitchSteps, RegisterSteps
<1> QED
    BY <1>2, <1>3, <1>4, <1>5, PressKeeps

-----------------------------------------------------------------------------
(* What is answered, and what a setting's errand does *)

\* An errand as it stands.
LEMMA ErrandIs ==
    ASSUME ConsolesInv, NEW t \in Desktop, errand[t] # Nothing, NEW e, e = errand[t]
    PROVE  /\ ErrandOK(e, stored, edits, provider, known)
           /\ e = [pc |-> e.pc, form |-> e.form, request |-> e.request, code |-> e.code, found |-> e.found]
           /\ DOMAIN errand = Desktop
    BY DEF ConsolesInv, ErrandOK

LEMMA GoesTo ==
    ASSUME ConsolesInv, NEW t \in Desktop, errand[t] # Nothing, NEW e, e = errand[t], NEW pc, Goes(t, pc),
           NEW e2, e2 = [pc |-> pc, form |-> e.form, request |-> e.request, code |-> e.code, found |-> e.found]
    PROVE  errand' = [errand EXCEPT ![t] = e2]
<1>1. e = [pc |-> e.pc, form |-> e.form, request |-> e.request, code |-> e.code, found |-> e.found]
    BY ErrandIs
<1>2. DOMAIN errand = Desktop
    BY ErrandIs
<1>3. [e EXCEPT !.pc = pc] = e2
    BY <1>1
<1> QED
    BY <1>2, <1>3 DEF Goes

LEMMA RepliesWith ==
    ASSUME ConsolesInv, NEW t \in Desktop, errand[t] # Nothing, NEW e, e = errand[t], NEW code, Replies(t, code),
           NEW e2, e2 = [pc |-> "answering", form |-> e.form, request |-> e.request, code |-> code, found |-> e.found]
    PROVE  errand' = [errand EXCEPT ![t] = e2]
<1>1. e = [pc |-> e.pc, form |-> e.form, request |-> e.request, code |-> e.code, found |-> e.found]
    BY ErrandIs
<1>2. DOMAIN errand = Desktop
    BY ErrandIs
<1>3. PICK e1 : e1 = [e EXCEPT !.pc = "answering"]
    OBVIOUS
<1>4. e1 = [pc |-> "answering", form |-> e.form, request |-> e.request, code |-> e.code, found |-> e.found]
    BY <1>1, <1>3
<1>5. [e1 EXCEPT !.code = code] = e2
    BY <1>4
<1>6. PICK er : er = [errand EXCEPT ![t] = e1]
    OBVIOUS
<1>7. errand' = [er EXCEPT ![t].code = code]
    BY <1>2, <1>3, <1>6 DEF Replies
<1>8. er[t] = e1
    BY <1>2, <1>6
<1>9. errand' = [er EXCEPT ![t] = e2]
    BY <1>5, <1>7, <1>8
<1> QED
    BY <1>2, <1>6, <1>9

\* An answer is of the errand's form and request.
LEMMA AnswerIsOK ==
    ASSUME NEW st, NEW ed, NEW pv, NEW kn, NEW e, SheetOK(e.form, st, ed, pv), NEW code, NEW found,
           NEW e2, e2 = [pc |-> "answering", form |-> e.form, request |-> e.request, code |-> code, found |-> found],
           AnsweredTruly(e2, ed, pv)
    PROVE  ErrandOK(e2, st, ed, pv, kn)
    BY DEF ErrandOK, SettingSteps, SwitchSteps, RegisterSteps

\* Where no provider is written, an answer ends an errand.
LEMMA RepliesKeep ==
    ASSUME ConsolesInv, NEW t \in Desktop, errand[t] # Nothing, NEW e, e = errand[t], NEW code, Replies(t, code),
           UNCHANGED <<stored, edits, provider, known, sync, sheet>>,
           NEW e2, e2 = [pc |-> "answering", form |-> e.form, request |-> e.request, code |-> code, found |-> e.found],
           AnsweredTruly(e2, edits, provider)
    PROVE  ConsolesInv'
<1>1. errand' = [errand EXCEPT ![t] = e2]
    BY RepliesWith
<1>2. ErrandOK(e, stored, edits, provider, known)
    BY ErrandIs
<1>3. SheetOK(e.form, stored, edits, provider)
    BY <1>2 DEF ErrandOK
<1>4. PICK found : found = e.found
    OBVIOUS
<1>5. ErrandOK(e2, stored, edits, provider, known)
    BY <1>3, <1>4, AnswerIsOK
<1>6. e2.pc # "writing"
    OBVIOUS
<1> QED
    BY <1>1, <1>5, <1>6, ErrandJustGoes

LEMMA AssertNotStaleVersionKeeps ==
    ASSUME ConsolesInv, NEW t \in Desktop, AssertNotStaleVersion(t)
    PROVE  ConsolesInv'
<1>1. PICK e : e = errand[t]
    OBVIOUS
<1>2. errand[t] # Nothing /\ e.pc = "checking"
    BY <1>1 DEF AssertNotStaleVersion
<1>3. UNCHANGED <<stored, edits, provider, known, sync, sheet>>
    BY DEF AssertNotStaleVersion
<1>4. ErrandOK(e, stored, edits, provider, known)
    BY <1>1, <1>2, ErrandIs
<1>5. /\ e.form.screen = "setting" /\ e.request.scope = e.form.scope
      /\ e.request.expected = VersionFor(e.form.rows, e.form.scope)
      /\ e.form.scope \in Scopes /\ SettingOK(e.form.rows, e.form.edits, stored, edits)
    BY <1>2, <1>4 DEF ErrandOK, SettingSteps, SheetOK
<1>6. CASE VersionFor(stored, e.request.scope) # e.request.expected
  <2>1. Replies(t, "stale")
    BY <1>1, <1>6 DEF AssertNotStaleVersion
  <2>2. PICK e2 : e2 = [pc |-> "answering", form |-> e.form, request |-> e.request, code |-> "stale", found |-> e.found]
    OBVIOUS
  <2>3. e.form.rows[e.form.scope] # stored[e.form.scope]
    BY <1>5, <1>6 DEF VersionFor
  <2>4. edits[e.form.scope] > e.form.edits[e.form.scope]
    <3>1. edits[e.form.scope] \in Nat
      BY <1>5 DEF ConsolesInv, StoredOK
    <3> QED
      BY <1>5, <2>3, <3>1 DEF SettingOK
  <2>5. AnsweredTruly(e2, edits, provider)
    BY <1>5, <2>2, <2>4 DEF AnsweredTruly
  <2> QED
    BY <1>1, <1>2, <1>3, <2>1, <2>2, <2>5, RepliesKeep
<1>7. CASE VersionFor(stored, e.request.scope) = e.request.expected /\ e.request.value = Bad
  <2>1. Replies(t, "invalid")
    BY <1>1, <1>7 DEF AssertNotStaleVersion
  <2>2. PICK e2 : e2 = [pc |-> "answering", form |-> e.form, request |-> e.request, code |-> "invalid", found |-> e.found]
    OBVIOUS
  <2>3. AnsweredTruly(e2, edits, provider)
    BY <1>5, <2>2 DEF AnsweredTruly
  <2> QED
    BY <1>1, <1>2, <1>3, <2>1, <2>2, <2>3, RepliesKeep
<1>8. CASE VersionFor(stored, e.request.scope) = e.request.expected /\ e.request.value # Bad
  <2>1. Goes(t, "writing")
    BY <1>1, <1>8 DEF AssertNotStaleVersion
  <2>2. PICK e2 : e2 = [pc |-> "writing", form |-> e.form, request |-> e.request, code |-> e.code, found |-> e.found]
    OBVIOUS
  <2>3. errand' = [errand EXCEPT ![t] = e2]
    BY <1>1, <1>2, <2>1, <2>2, GoesTo
  <2>4. /\ StoredOK(stored, edits) /\ RegisteredOK(provider, known)
        /\ LaterStored(stored, edits, stored, edits) /\ CardsOK(provider, provider)
        /\ DOMAIN errand = Desktop /\ DOMAIN sheet = Desktop /\ DOMAIN sync = Provider /\ WritesAlone(errand)
    BY ConsoleStill DEF ConsolesInv
  <2>5. DOMAIN errand' = Desktop /\ errand'[t] = e2 /\ \A u \in Desktop \ {t} : errand'[u] = errand[u]
    BY <2>3, <2>4
  <2>6. ErrandOK(e2, stored, edits, provider, known)
    BY <1>4, <1>5, <1>8, <2>2 DEF ErrandOK, SettingSteps, SwitchSteps, RegisterSteps
  <2>7. WritesAlone(errand')
    <3>1. ASSUME NEW u \in Desktop, u # t, Writes(errand, u, e.request.scope)
          PROVE  errand[u].request.expected = Nothing /\ e.request.expected = Nothing
      <4>1. Locked(e.request.scope)
        BY <3>1 DEF Locked, Writes
      <4>2. stored[e.request.scope] = Nothing
        BY <1>1, <4>1 DEF AssertNotStaleVersion
      <4>3. VersionFor(stored, e.request.scope) = Nothing
        BY <4>2 DEF VersionFor
      <4>4. PICK c : c = errand[u]
        OBVIOUS
      <4>5. c # Nothing /\ c.pc = "writing" /\ c.request.scope = e.request.scope
        BY <3>1, <4>4 DEF Writes
      <4>6. ErrandOK(c, stored, edits, provider, known)
        BY <3>1, <4>4, <4>5, ErrandIs
      <4>7. c.request.expected = Nothing
        BY <4>3, <4>5, <4>6 DEF ErrandOK
      <4> QED
        BY <1>8, <4>3, <4>4, <4>7
    <3>2. e2.request = e.request
      BY <2>2
    <3>3. ASSUME NEW a \in Desktop, NEW b \in Desktop, NEW scope \in Scopes, a # b,
                 Writes(errand', a, scope), Writes(errand', b, scope)
          PROVE  errand'[a].request.expected = Nothing
      <4>1. CASE a = t
        <5>1. Writes(errand, b, e.request.scope)
          BY <2>5, <3>2, <3>3, <4>1 DEF Writes
        <5> QED
          BY <2>5, <3>1, <3>2, <3>3, <4>1, <5>1
      <4>2. CASE b = t
        <5>1. Writes(errand, a, e.request.scope)
          BY <2>5, <3>2, <3>3, <4>2 DEF Writes
        <5> QED
          BY <2>5, <3>1, <3>3, <4>2, <5>1
      <4>3. CASE a # t /\ b # t
        BY <2>4, <2>5, <3>3, <4>3 DEF WritesAlone, Writes
      <4> QED
        BY <4>1, <4>2, <4>3
    <3> QED
      BY <3>3 DEF WritesAlone
  <2>8. /\ StoredOK(stored', edits') /\ RegisteredOK(provider', known') /\ known \subseteq known'
        /\ LaterStored(stored, edits, stored', edits') /\ CardsOK(provider, provider')
    BY <1>3, <2>4
  <2>9. /\ DOMAIN sheet' = Desktop
        /\ \A u \in Desktop : /\ sheet'[u] = sheet[u]
                              /\ errand[u] # Nothing \/ errand'[u] = Nothing \/ SheetOK(sheet[u], stored, edits, provider)
    BY <1>2, <1>3, <2>4, <2>5
  <2>10. \A u \in Desktop :
            \/ /\ errand'[u] = errand[u]
               /\ errand[u] # Nothing /\ errand[u].pc = "writing" /\ errand[u].request.expected # Nothing =>
                     stored'[errand[u].request.scope] = stored[errand[u].request.scope]
            \/ errand'[u] = Nothing
            \/ ErrandOK(errand'[u], stored', edits', provider', known')
    BY <1>3, <2>5, <2>6
  <2>11. DOMAIN sync' = Provider /\ \A p \in Provider : sync'[p] = sync[p]
    BY <1>3, <2>4
  <2> QED
    BY <2>5, <2>7, <2>8, <2>9, <2>10, <2>11, ConsoleMoves
<1> QED
    BY <1>6, <1>7, <1>8

\* What a write found is what its form showed, unless the form showed nothing.
LEMMA FoundAsShown ==
    ASSUME ConsolesInv, NEW t \in Desktop, errand[t] # Nothing, NEW e, e = errand[t], e.pc = "writing"
    PROVE  /\ e.form.screen = "setting" /\ e.request.scope = e.form.scope /\ e.form.scope \in Scopes
           /\ SheetOK(e.form, stored, edits, provider)
           /\ e.form.rows[e.form.scope] # Nothing => stored[e.form.scope] = e.form.rows[e.form.scope]
<1>1. ErrandOK(e, stored, edits, provider, known)
    BY ErrandIs
<1>2. /\ e.form.screen = "setting" /\ e.request.scope = e.form.scope
      /\ e.request.expected = VersionFor(e.form.rows, e.form.scope)
      /\ e.form.scope \in Scopes /\ SettingOK(e.form.rows, e.form.edits, stored, edits)
      /\ SheetOK(e.form, stored, edits, provider)
    BY <1>1 DEF ErrandOK, SettingSteps, SheetOK
<1>3. PICK s \in Scopes : s = e.form.scope
    BY <1>2
<1>4. ASSUME e.form.rows[s] # Nothing
      PROVE  stored[s] = e.form.rows[s]
  <2>1. e.request.expected = e.form.rows[s].version /\ e.form.rows[s].version \in Nat
    BY <1>2, <1>3, <1>4 DEF VersionFor, SettingOK
  <2>2. e.request.expected # Nothing
    BY <2>1, ConsolesAssumption
  <2>3. VersionFor(stored, s) = e.request.expected
    BY <1>1, <1>2, <1>3, <2>2 DEF ErrandOK
  <2>4. stored[s] # Nothing /\ stored[s].version = e.form.rows[s].version
    BY <2>1, <2>2, <2>3 DEF VersionFor
  <2> QED
    BY <1>2, <1>4, <2>4 DEF SettingOK
<1> QED
    BY <1>2, <1>3, <1>4

LEMMA WrittenTo ==
    ASSUME ConsolesInv, NEW t \in Desktop, errand[t] # Nothing, NEW e, e = errand[t], Written(t),
           NEW e2, e2 = [pc |-> "answering", form |-> e.form, request |-> e.request, code |-> "done",
                         found |-> stored[e.request.scope]]
    PROVE  errand' = [errand EXCEPT ![t] = e2]
<1>1. e = [pc |-> e.pc, form |-> e.form, request |-> e.request, code |-> e.code, found |-> e.found]
    BY ErrandIs
<1>2. DOMAIN errand = Desktop
    BY ErrandIs
<1>3. PICK e1 : e1 = [e EXCEPT !.pc = "answering"]
    OBVIOUS
<1>4. e1 = [pc |-> "answering", form |-> e.form, request |-> e.request, code |-> e.code, found |-> e.found]
    BY <1>1, <1>3
<1>5. PICK d1 : d1 = [e1 EXCEPT !.code = "done"]
    OBVIOUS
<1>6. d1 = [pc |-> "answering", form |-> e.form, request |-> e.request, code |-> "done", found |-> e.found]
    BY <1>4, <1>5
<1>7. [d1 EXCEPT !.found = stored[e.request.scope]] = e2
    BY <1>6
<1>8. PICK er : er = [errand EXCEPT ![t] = e1]
    OBVIOUS
<1>9. PICK er2 : er2 = [er EXCEPT ![t] = d1]
    OBVIOUS
<1>10. er[t] = e1 /\ er2[t] = d1
    BY <1>2, <1>8, <1>9
<1>11. errand' = [er2 EXCEPT ![t].found = stored[e.request.scope]]
    BY <1>2, <1>3, <1>5, <1>8, <1>9, <1>10 DEF Written
<1>12. errand' = [er2 EXCEPT ![t] = e2]
    BY <1>7, <1>10, <1>11
<1> QED
    BY <1>2, <1>8, <1>9, <1>12

\* A write to one scope, by whoever wrote to it.
LEMMA WriteKeeps ==
    ASSUME ConsolesInv, NEW t \in Desktop, errand[t] # Nothing, NEW e, e = errand[t], e.pc = "writing", Written(t),
           StoredOK(stored', edits'), LaterStored(stored, edits, stored', edits'),
           \A s \in Scopes \ {e.request.scope} : stored'[s] = stored[s],
           UNCHANGED <<provider, known, sync, sheet>>
    PROVE  ConsolesInv'
<1>1. /\ e.form.screen = "setting" /\ e.request.scope = e.form.scope /\ e.form.scope \in Scopes
      /\ SheetOK(e.form, stored, edits, provider)
      /\ e.form.rows[e.form.scope] # Nothing => stored[e.form.scope] = e.form.rows[e.form.scope]
    BY FoundAsShown
<1>2. PICK e2 : e2 = [pc |-> "answering", form |-> e.form, request |-> e.request, code |-> "done",
                      found |-> stored[e.request.scope]]
    OBVIOUS
<1>3. errand' = [errand EXCEPT ![t] = e2]
    BY <1>2, WrittenTo
<1>4. /\ StoredOK(stored, edits) /\ RegisteredOK(provider, known) /\ CardsOK(provider, provider)
      /\ DOMAIN errand = Desktop /\ DOMAIN sheet = Desktop /\ DOMAIN sync = Provider /\ WritesAlone(errand)
    BY ConsoleStill DEF ConsolesInv
<1>5. DOMAIN errand' = Desktop /\ errand'[t] = e2 /\ \A u \in Desktop \ {t} : errand'[u] = errand[u]
    BY <1>3, <1>4
<1>6. PICK st : st = stored'
    OBVIOUS
<1>7. PICK ed : ed = edits'
    OBVIOUS
<1>8. provider \in [Provider -> ProviderRecord]
    BY <1>4 DEF RegisteredOK
<1>9. SheetOK(e.form, st, ed, provider)
    BY <1>1, <1>4, <1>6, <1>7, <1>8, SheetStays
<1>10. AnsweredTruly(e2, ed, provider)
    BY <1>1, <1>2 DEF AnsweredTruly
<1>11. PICK found : found = stored[e.request.scope]
    OBVIOUS
<1>12. ErrandOK(e2, st, ed, provider, known)
    BY <1>2, <1>9, <1>10, <1>11, AnswerIsOK
<1>13. WritesAlone(errand')
  <2>1. e2.pc # "writing"
    BY <1>2
  <2> QED
    BY <1>4, <1>5, <2>1 DEF WritesAlone, Writes
<1>14. ASSUME NEW u \in Desktop, u # t, errand[u] # Nothing, errand[u].pc = "writing", errand[u].request.expected # Nothing
       PROVE  stored'[errand[u].request.scope] = stored[errand[u].request.scope]
  <2>1. PICK c : c = errand[u]
    OBVIOUS
  <2>2. c.request.scope \in Scopes
    BY <1>14, <2>1, FoundAsShown
  <2>3. c.request.scope # e.request.scope
    BY <1>1, <1>4, <1>14, <2>1, <2>2 DEF WritesAlone, Writes
  <2> QED
    BY <2>1, <2>2, <2>3
<1>15. \A u \in Desktop :
          \/ /\ errand'[u] = errand[u]
             /\ errand[u] # Nothing /\ errand[u].pc = "writing" /\ errand[u].request.expected # Nothing =>
                   stored'[errand[u].request.scope] = stored[errand[u].request.scope]
          \/ errand'[u] = Nothing
          \/ ErrandOK(errand'[u], stored', edits', provider', known')
    BY <1>5, <1>6, <1>7, <1>12, <1>14
<1>16. RegisteredOK(provider', known') /\ CardsOK(provider, provider') /\ known \subseteq known'
    BY <1>4
<1>17. /\ DOMAIN sheet' = Desktop
       /\ \A u \in Desktop : /\ sheet'[u] = sheet[u]
                             /\ errand[u] # Nothing \/ errand'[u] = Nothing \/ SheetOK(sheet[u], stored, edits, provider)
    BY <1>4, <1>5
<1>18. DOMAIN sync' = Provider /\ \A p \in Provider : sync'[p] = sync[p]
    BY <1>4
<1> QED
    BY <1>5, <1>13, <1>15, <1>16, <1>17, <1>18, ConsoleMoves

LEMMA WriteSettingKeeps ==
    ASSUME ConsolesInv, NEW t \in Desktop, WriteSetting(t)
    PROVE  ConsolesInv'
<1>1. PICK e : e = errand[t]
    OBVIOUS
<1>2. errand[t] # Nothing /\ e.pc = "writing" /\ Written(t)
    BY <1>1 DEF WriteSetting
<1>3. PICK scope \in Scopes : scope = e.request.scope
    BY <1>1, <1>2, FoundAsShown
<1>4. StoredOK(stored, edits)
    BY ConsoleStill
<1>5. PICK n \in Nat : n = edits[scope]
    BY <1>4 DEF StoredOK
<1>6. PICK row : row = [value |-> e.request.value, version |-> n + 1]
    OBVIOUS
<1>7. PICK ed : ed = edits'
    OBVIOUS
<1>8. ed = [edits EXCEPT ![scope] = n + 1]
    BY <1>1, <1>3, <1>5, <1>7 DEF WriteSetting
<1>9. ed \in [Scopes -> Nat] /\ ed[scope] = n + 1 /\ \A s \in Scopes \ {scope} : ed[s] = edits[s]
    BY <1>4, <1>5, <1>8 DEF StoredOK
<1>10. PICK st : st = stored'
    OBVIOUS
<1>11. st = [stored EXCEPT ![scope] = row]
    BY <1>1, <1>3, <1>6, <1>7, <1>9, <1>10 DEF WriteSetting
<1>12. st = [s \in Scopes |-> st[s]] /\ st[scope] = row /\ \A s \in Scopes \ {scope} : st[s] = stored[s]
    BY <1>4, <1>11 DEF StoredOK
<1>13. row.version = n + 1
    BY <1>6
<1>14. StoredOK(st, ed)
    BY <1>4, <1>9, <1>12, <1>13 DEF StoredOK
<1>15. LaterStored(stored, edits, st, ed)
  <2>1. ASSUME NEW s \in Scopes \ {scope}
        PROVE  edits[s] <= ed[s]
    BY <1>4, <1>9, <2>1 DEF StoredOK
  <2> QED
    BY <1>5, <1>9, <1>12, <1>13, <2>1 DEF LaterStored
<1>16. UNCHANGED <<provider, known, sync, sheet>>
    BY DEF WriteSetting
<1>17. StoredOK(stored', edits') /\ LaterStored(stored, edits, stored', edits')
    BY <1>7, <1>10, <1>14, <1>15
<1>18. \A s \in Scopes \ {e.request.scope} : stored'[s] = stored[s]
    BY <1>3, <1>10, <1>12
<1> QED
    BY <1>1, <1>2, <1>16, <1>17, <1>18, WriteKeeps

LEMMA ResetSettingKeeps ==
    ASSUME ConsolesInv, NEW t \in Desktop, ResetSetting(t)
    PROVE  ConsolesInv'
<1>1. PICK e : e = errand[t]
    OBVIOUS
<1>2. errand[t] # Nothing /\ e.pc = "writing" /\ Written(t)
    BY <1>1 DEF ResetSetting
<1>3. PICK scope \in Scopes : scope = e.request.scope
    BY <1>1, <1>2, FoundAsShown
<1>4. StoredOK(stored, edits)
    BY ConsoleStill
<1>5. edits[scope] \in Nat
    BY <1>4 DEF StoredOK
<1>6. PICK n : n = IF stored[scope] = Nothing THEN edits[scope] ELSE edits[scope] + 1
    OBVIOUS
<1>7. n \in Nat /\ edits[scope] <= n /\ (n = edits[scope] => stored[scope] = Nothing)
    BY <1>5, <1>6
<1>8. PICK ed : ed = edits'
    OBVIOUS
<1>9. ed = [edits EXCEPT ![scope] = n]
    BY <1>1, <1>3, <1>6, <1>8 DEF ResetSetting
<1>10. ed \in [Scopes -> Nat] /\ ed[scope] = n /\ \A s \in Scopes \ {scope} : ed[s] = edits[s]
    BY <1>4, <1>7, <1>9 DEF StoredOK
<1>11. PICK st : st = stored'
    OBVIOUS
<1>12. st = [stored EXCEPT ![scope] = Nothing]
    BY <1>1, <1>3, <1>11 DEF ResetSetting
<1>13. st = [s \in Scopes |-> st[s]] /\ st[scope] = Nothing /\ \A s \in Scopes \ {scope} : st[s] = stored[s]
    BY <1>4, <1>12 DEF StoredOK
<1>14. StoredOK(st, ed)
    BY <1>4, <1>10, <1>13 DEF StoredOK
<1>15. LaterStored(stored, edits, st, ed)
  <2>1. ASSUME NEW s \in Scopes \ {scope}
        PROVE  edits[s] <= ed[s]
    BY <1>4, <1>10, <2>1 DEF StoredOK
  <2> QED
    BY <1>7, <1>10, <1>13, <2>1 DEF LaterStored
<1>16. UNCHANGED <<provider, known, sync, sheet>>
    BY DEF ResetSetting
<1>17. StoredOK(stored', edits') /\ LaterStored(stored, edits, stored', edits')
    BY <1>8, <1>11, <1>14, <1>15
<1>18. \A s \in Scopes \ {e.request.scope} : stored'[s] = stored[s]
    BY <1>3, <1>11, <1>13
<1> QED
    BY <1>1, <1>2, <1>16, <1>17, <1>18, WriteKeeps

-----------------------------------------------------------------------------
(* What becomes of a provider *)

\* A row as it stands.
LEMMA RowIs ==
    ASSUME ConsolesInv, NEW p \in Provider, NEW row, row = provider[p]
    PROVE  /\ row.registered \in BOOLEAN /\ row.enabled \in BOOLEAN /\ row.switches \in Nat
           /\ row.announced \in BOOLEAN /\ row.sure \in BOOLEAN
           /\ row = [registered |-> row.registered, enabled |-> row.enabled, switches |-> row.switches,
                     announced |-> row.announced, sure |-> row.sure]
           /\ row.announced => p \in known
           /\ p \in known => row.registered
           /\ p \in Broken /\ row.enabled => ~row.sure
<1>1. RegisteredOK(provider, known)
    BY DEF ConsolesInv
<1>2. row \in ProviderRecord
    BY <1>1 DEF RegisteredOK
<1> QED
    BY <1>1, <1>2 DEF RegisteredOK, ProviderRecord

\* One row was written, and only further.
LEMMA RowMoves ==
    ASSUME ConsolesInv, NEW p \in Provider, NEW row \in ProviderRecord, NEW pv, pv = [provider EXCEPT ![p] = row],
           NEW kn, known \subseteq kn, kn \subseteq Provider, \A q \in kn : pv[q].registered,
           provider[p].switches <= row.switches,
           provider[p].switches = row.switches => provider[p].enabled = row.enabled,
           provider[p].registered => row.registered,
           row.announced => p \in kn,
           p \in Broken /\ row.enabled => ~row.sure
    PROVE  RegisteredOK(pv, kn) /\ CardsOK(provider, pv)
<1>1. RegisteredOK(provider, known) /\ CardsOK(provider, provider)
    BY ConsoleStill
<1>2. provider \in [Provider -> ProviderRecord]
    BY <1>1 DEF RegisteredOK
<1>3. pv \in [Provider -> ProviderRecord] /\ pv[p] = row /\ \A q \in Provider \ {p} : pv[q] = provider[q]
    BY <1>2
<1>4. RegisteredOK(pv, kn)
  <2>1. \A q \in Provider : pv[q].announced => q \in kn
    BY <1>1, <1>3 DEF RegisteredOK
  <2>2. \A q \in Broken : pv[q].enabled => ~pv[q].sure
    BY <1>1, <1>3, ConsolesAssumption DEF RegisteredOK
  <2> QED
    BY <1>3, <2>1, <2>2 DEF RegisteredOK
<1>5. CardsOK(provider, pv)
  <2>1. ASSUME NEW q \in Provider
        PROVE  /\ provider[q] \in ProviderRecord
               /\ provider[q].switches <= pv[q].switches
               /\ provider[q].switches = pv[q].switches => provider[q].enabled = pv[q].enabled
               /\ provider[q].registered => pv[q].registered
    <3>1. CASE q = p
      BY <1>2, <1>3, <3>1
    <3>2. CASE q # p
      BY <1>1, <1>3, <3>2 DEF CardsOK
    <3> QED
      BY <3>1, <3>2
  <2> QED
    BY <2>1 DEF CardsOK
<1> QED
    BY <1>4, <1>5

\* An errand about a provider.
LEMMA ProviderErrand ==
    ASSUME ConsolesInv, NEW t \in Desktop, errand[t] # Nothing, NEW e, e = errand[t],
           e.pc \in SwitchSteps \cup RegisterSteps \cup {"reloading", "queueing"}
    PROVE  /\ ErrandOK(e, stored, edits, provider, known)
           /\ e.form.screen = "providers" /\ e.request.of \in Provider
           /\ SheetOK(e.form, stored, edits, provider) /\ CardsOK(e.form.rows, provider)
           /\ e.form.rows[e.request.of] \in ProviderRecord
<1>1. ErrandOK(e, stored, edits, provider, known)
    BY ErrandIs
<1>2. /\ e.form.screen = "providers" /\ e.request.of \in Provider
      /\ SheetOK(e.form, stored, edits, provider)
    BY <1>1 DEF ErrandOK
<1>3. CardsOK(e.form.rows, provider)
    BY <1>2 DEF SheetOK
<1> QED
    BY <1>1, <1>2, <1>3 DEF CardsOK

LEMMA FindSlugKeeps ==
    ASSUME ConsolesInv, NEW t \in Desktop, FindSlug(t)
    PROVE  ConsolesInv'
<1>1. PICK e : e = errand[t]
    OBVIOUS
<1>2. /\ errand[t] # Nothing /\ e.pc = "looking"
      /\ UNCHANGED <<stored, edits, provider, known, sync, sheet>>
    BY <1>1 DEF FindSlug
<1>3. /\ ErrandOK(e, stored, edits, provider, known)
      /\ e.form.screen = "providers" /\ e.request.of \in Provider
      /\ SheetOK(e.form, stored, edits, provider)
    BY <1>1, <1>2, ProviderErrand DEF RegisterSteps
<1>4. ~e.form.rows[e.request.of].registered
    BY <1>2, <1>3 DEF ErrandOK, RegisterSteps
<1>5. CASE provider[e.request.of].registered
  <2>1. Replies(t, "conflict")
    BY <1>1, <1>5 DEF FindSlug
  <2>2. PICK e2 : e2 = [pc |-> "answering", form |-> e.form, request |-> e.request, code |-> "conflict", found |-> e.found]
    OBVIOUS
  <2>3. AnsweredTruly(e2, edits, provider)
    BY <1>3, <1>4, <1>5, <2>2 DEF AnsweredTruly
  <2> QED
    BY <1>1, <1>2, <2>1, <2>2, <2>3, RepliesKeep
<1>6. CASE ~provider[e.request.of].registered
  <2>1. Goes(t, "inserting")
    BY <1>1, <1>6 DEF FindSlug
  <2>2. PICK e2 : e2 = [pc |-> "inserting", form |-> e.form, request |-> e.request, code |-> e.code, found |-> e.found]
    OBVIOUS
  <2>3. errand' = [errand EXCEPT ![t] = e2]
    BY <1>1, <1>2, <2>1, <2>2, GoesTo
  <2>4. ErrandOK(e2, stored, edits, provider, known)
    BY <1>3, <1>4, <2>2 DEF ErrandOK, SettingSteps, SwitchSteps, RegisterSteps
  <2>5. e2.pc # "writing"
    BY <2>2
  <2> QED
    BY <1>2, <2>3, <2>4, <2>5, ErrandJustGoes
<1> QED
    BY <1>5, <1>6

\* A row was written and the registry is to be read anew.
LEMMA ReloadIsOK ==
    ASSUME ConsolesInv, NEW t \in Desktop, errand[t] # Nothing, NEW e, e = errand[t],
           e.pc \in SwitchSteps \cup RegisterSteps, Goes(t, "reloading"),
           RegisteredOK(provider', known), CardsOK(provider, provider'), provider'[e.request.of].registered,
           UNCHANGED <<stored, edits, known, sync, sheet>>
    PROVE  ConsolesInv'
<1>1. /\ e.form.screen = "providers" /\ e.request.of \in Provider
      /\ SheetOK(e.form, stored, edits, provider)
    BY ProviderErrand
<1>2. PICK e2 : e2 = [pc |-> "reloading", form |-> e.form, request |-> e.request, code |-> e.code, found |-> e.found]
    OBVIOUS
<1>3. errand' = [errand EXCEPT ![t] = e2]
    BY <1>2, GoesTo
<1>4. PICK pv : pv = provider'
    OBVIOUS
<1>5. /\ StoredOK(stored, edits) /\ LaterStored(stored, edits, stored, edits) /\ RegisteredOK(provider, known)
      /\ DOMAIN sync = Provider
    BY ConsoleStill DEF ConsolesInv
<1>6. provider \in [Provider -> ProviderRecord] /\ pv \in [Provider -> ProviderRecord]
    BY <1>4, <1>5 DEF RegisteredOK
<1>7. SheetOK(e.form, stored, edits, pv)
    BY <1>1, <1>4, <1>5, <1>6, SheetStays
<1>8. ErrandOK(e2, stored, edits, pv, known)
    BY <1>1, <1>2, <1>4, <1>7 DEF ErrandOK, SettingSteps, SwitchSteps, RegisterSteps
<1>9. e2.pc # "writing" /\ ErrandOK(e2, stored, edits, provider', known')
    BY <1>2, <1>4, <1>8
<1>10. RegisteredOK(provider', known') /\ known \subseteq known'
    OBVIOUS
<1>11. DOMAIN sync' = Provider /\ \A p \in Provider : sync'[p] = sync[p]
    BY <1>5
<1> QED
    BY <1>3, <1>9, <1>10, <1>11, ErrandGoes

LEMMA InsertProviderKeeps ==
    ASSUME ConsolesInv, NEW t \in Desktop, InsertProvider(t)
    PROVE  ConsolesInv'
<1>1. PICK e : e = errand[t]
    OBVIOUS
<1>2. errand[t] # Nothing /\ e.pc = "inserting" /\ UNCHANGED <<stored, edits, known, sync, sheet>>
    BY <1>1 DEF InsertProvider
<1>3. e.form.screen = "providers" /\ e.request.of \in Provider
    BY <1>1, <1>2, ProviderErrand DEF RegisterSteps
<1>4. PICK p \in Provider : p = e.request.of
    BY <1>3
<1>5. PICK row : row = provider[p]
    OBVIOUS
<1>6. CASE row.registered
  <2>1. Replies(t, "broken") /\ UNCHANGED provider
    BY <1>1, <1>4, <1>5, <1>6 DEF InsertProvider
  <2>2. PICK e2 : e2 = [pc |-> "answering", form |-> e.form, request |-> e.request, code |-> "broken", found |-> e.found]
    OBVIOUS
  <2>3. AnsweredTruly(e2, edits, provider)
    BY <1>3, <2>2 DEF AnsweredTruly
  <2>4. UNCHANGED <<stored, edits, provider, known, sync, sheet>>
    BY <1>2, <2>1
  <2> QED
    BY <1>1, <1>2, <2>1, <2>2, <2>3, <2>4, RepliesKeep
<1>7. CASE ~row.registered
  <2>1. provider' = [provider EXCEPT ![p].registered = TRUE] /\ Goes(t, "reloading")
    BY <1>1, <1>4, <1>5, <1>7 DEF InsertProvider
  <2>2. /\ row.enabled \in BOOLEAN /\ row.switches \in Nat /\ row.announced \in BOOLEAN /\ row.sure \in BOOLEAN
        /\ row = [registered |-> row.registered, enabled |-> row.enabled, switches |-> row.switches,
                  announced |-> row.announced, sure |-> row.sure]
        /\ row.announced => p \in known
        /\ p \in Broken /\ row.enabled => ~row.sure
    BY <1>5, RowIs
  <2>0. PICK yes : yes = TRUE
    OBVIOUS
  <2>3. PICK row2 : row2 = [registered |-> yes, enabled |-> row.enabled, switches |-> row.switches,
                            announced |-> row.announced, sure |-> row.sure]
    OBVIOUS
  <2>4. [row EXCEPT !.registered = yes] = row2
    BY <2>2, <2>3
  <2>5. RegisteredOK(provider, known)
    BY ConsoleStill
  <2>6. provider \in [Provider -> ProviderRecord]
    BY <2>5 DEF RegisteredOK
  <2>7. PICK pv : pv = provider'
    OBVIOUS
  <2>8. pv = [provider EXCEPT ![p] = row2]
    BY <1>5, <2>0, <2>1, <2>4, <2>6, <2>7
  <2>9. row2 \in ProviderRecord
    BY <2>0, <2>2, <2>3 DEF ProviderRecord
  <2>10. /\ row2.registered = TRUE /\ row2.enabled = row.enabled /\ row2.switches = row.switches
         /\ row2.announced = row.announced /\ row2.sure = row.sure
    BY <2>0, <2>3
  <2>11. known \subseteq Provider /\ \A q \in known : pv[q].registered
    BY <2>5, <2>6, <2>8, <2>10 DEF RegisteredOK
  <2>12. row.switches <= row2.switches
    BY <2>2, <2>10
  <2>13. /\ provider[p].switches <= row2.switches
         /\ provider[p].switches = row2.switches => provider[p].enabled = row2.enabled
         /\ row2.announced => p \in known
         /\ p \in Broken /\ row2.enabled => ~row2.sure
    BY <1>5, <2>2, <2>10, <2>12
  <2>14. RegisteredOK(pv, known) /\ CardsOK(provider, pv)
    BY <2>8, <2>9, <2>10, <2>11, <2>13, RowMoves
  <2>15. pv[p].registered
    BY <2>6, <2>8, <2>10
  <2>16. RegisteredOK(provider', known) /\ CardsOK(provider, provider') /\ provider'[e.request.of].registered
    BY <1>4, <2>7, <2>14, <2>15
  <2> QED
    BY <1>1, <1>2, <2>1, <2>16, ReloadIsOK DEF RegisterSteps
<1> QED
    BY <1>6, <1>7

LEMMA ReadProviderKeeps ==
    ASSUME ConsolesInv, NEW t \in Desktop, ReadProvider(t)
    PROVE  ConsolesInv'
<1>1. PICK e : e = errand[t]
    OBVIOUS
<1>2. /\ errand[t] # Nothing /\ e.pc = "reading"
      /\ UNCHANGED <<stored, edits, provider, known, sync, sheet>>
    BY <1>1 DEF ReadProvider
<1>3. /\ ErrandOK(e, stored, edits, provider, known)
      /\ e.form.screen = "providers" /\ e.request.of \in Provider
      /\ CardsOK(e.form.rows, provider) /\ e.form.rows[e.request.of] \in ProviderRecord
    BY <1>1, <1>2, ProviderErrand DEF SwitchSteps
<1>4. PICK p \in Provider : p = e.request.of
    BY <1>3
<1>5. /\ e.request.enabled \in BOOLEAN /\ e.request.enabled # e.form.rows[p].enabled
      /\ e.request.sure => p \in known
    BY <1>2, <1>3, <1>4 DEF ErrandOK, SwitchSteps
<1>6. CASE provider[p].enabled = e.request.enabled \/ (e.request.enabled /\ p \in Failures)
  <2>1. Replies(t, "conflict")
    BY <1>1, <1>4, <1>6 DEF ReadProvider
  <2>2. PICK e2 : e2 = [pc |-> "answering", form |-> e.form, request |-> e.request, code |-> "conflict", found |-> e.found]
    OBVIOUS
  <2>3. provider[p].switches > e.form.rows[p].switches \/ p \in Broken
    <3>1. CASE provider[p].enabled = e.request.enabled
      <4>1. provider[p].enabled # e.form.rows[p].enabled
        BY <1>5, <3>1
      <4>2. e.form.rows[p].switches <= provider[p].switches /\ e.form.rows[p].switches # provider[p].switches
        BY <1>3, <4>1 DEF CardsOK
      <4>3. e.form.rows[p].switches \in Nat
        BY <1>3, <1>4 DEF ProviderRecord
      <4>4. PICK row : row = provider[p]
        OBVIOUS
      <4>5. row.switches \in Nat
        BY <4>4, RowIs
      <4> QED
        BY <4>2, <4>3, <4>4, <4>5
    <3>2. CASE e.request.enabled /\ p \in Failures
      BY <3>2 DEF Failures
    <3> QED
      BY <1>6, <3>1, <3>2
  <2>4. AnsweredTruly(e2, edits, provider)
    BY <1>3, <1>4, <2>2, <2>3 DEF AnsweredTruly
  <2> QED
    BY <1>1, <1>2, <2>1, <2>2, <2>4, RepliesKeep
<1>7. CASE ~(provider[p].enabled = e.request.enabled \/ (e.request.enabled /\ p \in Failures))
  <2>1. Goes(t, "switching")
    BY <1>1, <1>4, <1>7 DEF ReadProvider
  <2>2. PICK e2 : e2 = [pc |-> "switching", form |-> e.form, request |-> e.request, code |-> e.code, found |-> e.found]
    OBVIOUS
  <2>3. errand' = [errand EXCEPT ![t] = e2]
    BY <1>1, <1>2, <2>1, <2>2, GoesTo
  <2>4. e.request.enabled /\ p \in Broken => ~e.request.sure
    BY <1>5, <1>7 DEF Failures
  <2>5. ErrandOK(e2, stored, edits, provider, known)
    BY <1>2, <1>3, <1>4, <2>2, <2>4 DEF ErrandOK, SettingSteps, SwitchSteps, RegisterSteps
  <2>6. e2.pc # "writing"
    BY <2>2
  <2> QED
    BY <1>2, <2>3, <2>5, <2>6, ErrandJustGoes
<1> QED
    BY <1>6, <1>7

LEMMA WriteProviderKeeps ==
    ASSUME ConsolesInv, NEW t \in Desktop, WriteProvider(t)
    PROVE  ConsolesInv'
<1>1. PICK e : e = errand[t]
    OBVIOUS
<1>2. errand[t] # Nothing /\ e.pc = "switching" /\ Goes(t, "reloading") /\ UNCHANGED <<stored, edits, known, sync, sheet>>
    BY <1>1 DEF WriteProvider
<1>3. /\ ErrandOK(e, stored, edits, provider, known)
      /\ e.request.of \in Provider /\ CardsOK(e.form.rows, provider)
    BY <1>1, <1>2, ProviderErrand DEF SwitchSteps
<1>4. PICK p \in Provider : p = e.request.of
    BY <1>3
<1>5. /\ e.request.enabled \in BOOLEAN /\ e.request.sure \in BOOLEAN
      /\ e.form.rows[p].registered
      /\ p \in Broken /\ e.request.enabled => ~e.request.sure
    BY <1>2, <1>3, <1>4 DEF ErrandOK, SwitchSteps
<1>6. PICK row : row = provider[p]
    OBVIOUS
<1>7. /\ row.registered \in BOOLEAN /\ row.enabled \in BOOLEAN /\ row.switches \in Nat /\ row.announced \in BOOLEAN
      /\ row = [registered |-> row.registered, enabled |-> row.enabled, switches |-> row.switches,
                announced |-> row.announced, sure |-> row.sure]
      /\ row.announced => p \in known
    BY <1>6, RowIs
<1>8. row.registered
    BY <1>3, <1>5, <1>6 DEF CardsOK
<1>9. PICK enabled \in BOOLEAN : enabled = e.request.enabled
    BY <1>5
<1>10. PICK sure \in BOOLEAN : sure = e.request.sure
    BY <1>5
<1>11. PICK n \in Nat : n = row.switches
    BY <1>7
<1>12. PICK row2 : row2 = [registered |-> row.registered, enabled |-> enabled, switches |-> n + 1,
                           announced |-> row.announced, sure |-> sure]
    OBVIOUS
<1>13. RegisteredOK(provider, known)
    BY ConsoleStill
<1>14. provider \in [Provider -> ProviderRecord]
    BY <1>13 DEF RegisteredOK
<1>15. PICK pv : pv = provider'
    OBVIOUS
<1>16. pv = [provider EXCEPT ![p] = row2]
  <2>1. PICK row3 : row3 = [row EXCEPT !.enabled = enabled]
    OBVIOUS
  <2>2. row3 = [registered |-> row.registered, enabled |-> enabled, switches |-> n,
                announced |-> row.announced, sure |-> row.sure]
    BY <1>7, <1>11, <2>1
  <2>3. PICK row4 : row4 = [row3 EXCEPT !.sure = sure]
    OBVIOUS
  <2>4. row4 = [registered |-> row.registered, enabled |-> enabled, switches |-> n,
                announced |-> row.announced, sure |-> sure]
    BY <2>2, <2>3
  <2>5. [row4 EXCEPT !.switches = n + 1] = row2 /\ row4.switches = n
    BY <1>12, <2>4
  <2>6. PICK p3 : p3 = [provider EXCEPT ![p] = row3]
    OBVIOUS
  <2>7. PICK p4 : p4 = [p3 EXCEPT ![p] = row4]
    OBVIOUS
  <2>8. p3[p] = row3 /\ p4[p] = row4
    BY <1>14, <2>6, <2>7
  <2>9. p3 = [provider EXCEPT ![p].enabled = enabled]
    BY <1>6, <2>1, <2>6
  <2>10. p4 = [p3 EXCEPT ![p].sure = sure]
    BY <2>3, <2>7, <2>8
  <2>11. pv = [p4 EXCEPT ![p].switches = @ + 1]
    <3>1. e.request.of = p /\ e.request.enabled = enabled /\ e.request.sure = sure
      BY <1>4, <1>9, <1>10
    <3>2. provider' = [provider EXCEPT ![p].enabled = enabled, ![p].sure = sure, ![p].switches = @ + 1]
      BY <1>1, <3>1 DEF WriteProvider
    <3> QED
      BY <1>15, <2>9, <2>10, <3>2
  <2>12. pv = [p4 EXCEPT ![p] = row2]
    BY <2>5, <2>8, <2>11
  <2> QED
    BY <1>14, <2>6, <2>7, <2>12
<1>17. row2 \in ProviderRecord
    BY <1>7, <1>12 DEF ProviderRecord
<1>18. /\ row2.registered = row.registered /\ row2.enabled = enabled /\ row2.switches = n + 1
       /\ row2.announced = row.announced /\ row2.sure = sure
    BY <1>12
<1>19. known \subseteq Provider /\ \A q \in known : pv[q].registered
    BY <1>8, <1>13, <1>14, <1>16, <1>18 DEF RegisteredOK
<1>20. row.switches <= row2.switches /\ row.switches # row2.switches
    BY <1>11, <1>18
<1>21. /\ provider[p].switches <= row2.switches
       /\ provider[p].switches = row2.switches => provider[p].enabled = row2.enabled
       /\ provider[p].registered => row2.registered
       /\ row2.announced => p \in known
    BY <1>6, <1>7, <1>18, <1>20
<1>22. p \in Broken /\ row2.enabled => ~row2.sure
    BY <1>5, <1>9, <1>10, <1>18
<1>23. RegisteredOK(pv, known) /\ CardsOK(provider, pv)
  <2>1. PICK kn : kn = known
    OBVIOUS
  <2>2. known \subseteq kn /\ kn \subseteq Provider /\ \A q \in kn : pv[q].registered
    BY <1>19, <2>1
  <2>3. row2.announced => p \in kn
    BY <1>21, <2>1
  <2>4. RegisteredOK(pv, kn) /\ CardsOK(provider, pv)
    BY <1>16, <1>17, <1>21, <1>22, <2>2, <2>3, RowMoves
  <2> QED
    BY <2>1, <2>4
<1>24. pv[p].registered
    BY <1>8, <1>14, <1>16, <1>18
<1>25. RegisteredOK(provider', known) /\ CardsOK(provider, provider') /\ provider'[e.request.of].registered
    BY <1>4, <1>15, <1>23, <1>24
<1> QED
    BY <1>1, <1>2, <1>25, ReloadIsOK DEF SwitchSteps

LEMMA ReloadRegistryKeeps ==
    ASSUME ConsolesInv, NEW t \in Desktop, ReloadRegistry(t)
    PROVE  ConsolesInv'
<1>1. PICK e : e = errand[t]
    OBVIOUS
<1>2. errand[t] # Nothing /\ e.pc = "reloading" /\ UNCHANGED <<stored, edits, sync, sheet>>
    BY <1>1 DEF ReloadRegistry
<1>3. /\ ErrandOK(e, stored, edits, provider, known)
      /\ e.form.screen = "providers" /\ e.request.of \in Provider
      /\ SheetOK(e.form, stored, edits, provider)
    BY <1>1, <1>2, ProviderErrand
<1>4. PICK p \in Provider : p = e.request.of
    BY <1>3
<1>5. provider[p].registered
    BY <1>2, <1>3, <1>4 DEF ErrandOK
<1>6. PICK row : row = provider[p]
    OBVIOUS
<1>7. /\ row.registered \in BOOLEAN /\ row.enabled \in BOOLEAN /\ row.switches \in Nat /\ row.sure \in BOOLEAN
      /\ row = [registered |-> row.registered, enabled |-> row.enabled, switches |-> row.switches,
                announced |-> row.announced, sure |-> row.sure]
      /\ p \in Broken /\ row.enabled => ~row.sure
    BY <1>6, RowIs
<1>8. CASE /\ known' = {q \in Provider : provider[q].registered}
           /\ provider' = [provider EXCEPT ![p].announced = TRUE]
           /\ Replies(t, "done")
  <2>1. PICK yes : yes = TRUE
    OBVIOUS
  <2>2. PICK row2 : row2 = [registered |-> row.registered, enabled |-> row.enabled, switches |-> row.switches,
                            announced |-> yes, sure |-> row.sure]
    OBVIOUS
  <2>3. [row EXCEPT !.announced = yes] = row2
    BY <1>7, <2>2
  <2>4. StoredOK(stored, edits) /\ LaterStored(stored, edits, stored, edits) /\ RegisteredOK(provider, known)
    BY ConsoleStill
  <2>5. provider \in [Provider -> ProviderRecord]
    BY <2>4 DEF RegisteredOK
  <2>6. PICK pv : pv = provider'
    OBVIOUS
  <2>7. pv = [provider EXCEPT ![p] = row2]
    BY <1>6, <1>8, <2>1, <2>3, <2>5, <2>6
  <2>8. row2 \in ProviderRecord
    BY <1>7, <2>1, <2>2 DEF ProviderRecord
  <2>9. row2.registered = row.registered /\ row2.enabled = row.enabled /\ row2.switches = row.switches /\ row2.sure = row.sure
    BY <2>2
  <2>10. PICK kn : kn = known'
    OBVIOUS
  <2>11. kn = {q \in Provider : provider[q].registered}
    BY <1>8, <2>10
  <2>12. known \subseteq kn /\ kn \subseteq Provider /\ p \in kn
    BY <1>5, <2>4, <2>11 DEF RegisteredOK
  <2>13. \A q \in kn : pv[q].registered
    BY <1>6, <2>5, <2>7, <2>9, <2>11
  <2>14. row.switches <= row2.switches
    BY <1>7, <2>9
  <2>15. /\ provider[p].switches <= row2.switches
         /\ provider[p].switches = row2.switches => provider[p].enabled = row2.enabled
         /\ provider[p].registered => row2.registered
         /\ row2.announced => p \in kn
         /\ p \in Broken /\ row2.enabled => ~row2.sure
    BY <1>6, <1>7, <2>9, <2>12, <2>14
  <2>16. RegisteredOK(pv, kn) /\ CardsOK(provider, pv)
    BY <2>7, <2>8, <2>12, <2>13, <2>15, RowMoves
  <2>17. pv \in [Provider -> ProviderRecord]
    BY <2>16 DEF RegisteredOK
  <2>18. SheetOK(e.form, stored, edits, pv)
    BY <1>3, <2>4, <2>5, <2>16, <2>17, SheetStays
  <2>19. PICK e2 : e2 = [pc |-> "answering", form |-> e.form, request |-> e.request, code |-> "done", found |-> e.found]
    OBVIOUS
  <2>20. errand' = [errand EXCEPT ![t] = e2]
    BY <1>1, <1>2, <1>8, <2>19, RepliesWith
  <2>21. AnsweredTruly(e2, edits, pv)
    BY <1>3, <2>19 DEF AnsweredTruly
  <2>22. PICK found : found = e.found
    OBVIOUS
  <2>23. ErrandOK(e2, stored, edits, pv, kn)
    BY <2>18, <2>19, <2>21, <2>22, AnswerIsOK
  <2>24. e2.pc # "writing" /\ ErrandOK(e2, stored, edits, provider', known')
    BY <2>6, <2>10, <2>19, <2>23
  <2>25. RegisteredOK(provider', known') /\ CardsOK(provider, provider') /\ known \subseteq known'
    BY <2>6, <2>10, <2>12, <2>16
  <2>26. DOMAIN sync' = Provider /\ \A q \in Provider : sync'[q] = sync[q]
    BY <1>2 DEF ConsolesInv
  <2> QED
    BY <1>2, <2>20, <2>24, <2>25, <2>26, ErrandGoes
<1>9. CASE Replies(t, "broken") /\ UNCHANGED <<known, provider>>
  <2>1. PICK e2 : e2 = [pc |-> "answering", form |-> e.form, request |-> e.request, code |-> "broken", found |-> e.found]
    OBVIOUS
  <2>2. AnsweredTruly(e2, edits, provider)
    BY <1>3, <2>1 DEF AnsweredTruly
  <2>3. UNCHANGED <<stored, edits, provider, known, sync, sheet>>
    BY <1>2, <1>9
  <2> QED
    BY <1>1, <1>2, <1>9, <2>1, <2>2, <2>3, RepliesKeep
<1> QED
    BY <1>1, <1>4, <1>8, <1>9 DEF ReloadRegistry

\* A queue as it stands.
LEMMA QueueIs ==
    ASSUME ConsolesInv, NEW p \in Provider, NEW queue, queue = sync[p]
    PROVE  /\ QueueOK(p, queue, provider[p])
           /\ queue = [jobs |-> queue.jobs, last |-> queue.last, seen |-> queue.seen]
           /\ DOMAIN sync = Provider
    BY DEF ConsolesInv, QueueOK

LEMMA QueueSyncKeeps ==
    ASSUME ConsolesInv, NEW t \in Desktop, QueueSync(t)
    PROVE  ConsolesInv'
<1>1. PICK e : e = errand[t]
    OBVIOUS
<1>2. errand[t] # Nothing /\ e.pc = "queueing" /\ UNCHANGED <<stored, edits, provider, known, sheet>>
    BY <1>1 DEF QueueSync
<1>3. /\ ErrandOK(e, stored, edits, provider, known)
      /\ e.form.screen = "providers" /\ e.request.of \in Provider
      /\ SheetOK(e.form, stored, edits, provider) /\ CardsOK(e.form.rows, provider)
      /\ e.form.rows[e.request.of] \in ProviderRecord
    BY <1>1, <1>2, ProviderErrand
<1>4. PICK p \in Provider : p = e.request.of
    BY <1>3
<1>5. PICK job : job = e.form.rows[p].switches
    OBVIOUS
<1>6. job \in Nat /\ job <= provider[p].switches /\ (job = provider[p].switches => provider[p].enabled)
  <2>1. e.form.rows[p].enabled
    BY <1>2, <1>3, <1>4 DEF ErrandOK
  <2> QED
    BY <1>3, <1>4, <1>5, <2>1 DEF CardsOK, ProviderRecord
<1>7. PICK queue : queue = sync[p]
    OBVIOUS
<1>8. /\ QueueOK(p, queue, provider[p])
      /\ queue = [jobs |-> queue.jobs, last |-> queue.last, seen |-> queue.seen]
      /\ DOMAIN sync = Provider
    BY <1>7, QueueIs
<1>9. CASE sync' = [sync EXCEPT ![p].jobs = @ \cup {job}] /\ Replies(t, "done")
  <2>1. PICK queue2 : queue2 = [jobs |-> queue.jobs \cup {job}, last |-> queue.last, seen |-> queue.seen]
    OBVIOUS
  <2>2. [queue EXCEPT !.jobs = queue.jobs \cup {job}] = queue2
    <3>1. PICK jobs, last, seen : jobs = queue.jobs /\ last = queue.last /\ seen = queue.seen
      OBVIOUS
    <3>2. queue = [jobs |-> jobs, last |-> last, seen |-> seen]
      BY <1>8, <3>1
    <3>3. queue2 = [jobs |-> jobs \cup {job}, last |-> last, seen |-> seen]
      BY <2>1, <3>1
    <3> HIDE <1>8
    <3> QED
      BY <3>1, <3>2, <3>3
  <2>3. sync' = [sync EXCEPT ![p] = queue2]
    <3>1. [sync[p] EXCEPT !.jobs = sync[p].jobs \cup {job}] = queue2
      BY <1>7, <2>2
    <3>2. sync' = [sync EXCEPT ![p] = [sync[p] EXCEPT !.jobs = sync[p].jobs \cup {job}]]
      BY <1>9
    <3> QED
      BY <3>1, <3>2
  <2>4. queue2.jobs = queue.jobs \cup {job} /\ queue2.last = queue.last /\ queue2.seen = queue.seen
    BY <2>1
  <2>5. QueueOK(p, queue2, provider[p])
    BY <1>6, <1>8, <2>1, <2>4 DEF QueueOK
  <2>6. DOMAIN sync' = Provider /\ sync'[p] = queue2 /\ \A q \in Provider \ {p} : sync'[q] = sync[q]
    BY <1>8, <2>3
  <2>7. \A q \in Provider : sync'[q] = sync[q] \/ QueueOK(q, sync'[q], provider'[q])
    BY <1>2, <2>5, <2>6
  <2>8. PICK e2 : e2 = [pc |-> "answering", form |-> e.form, request |-> e.request, code |-> "done", found |-> e.found]
    OBVIOUS
  <2>9. errand' = [errand EXCEPT ![t] = e2]
    BY <1>1, <1>2, <1>9, <2>8, RepliesWith
  <2>10. AnsweredTruly(e2, edits, provider)
    BY <1>3, <2>8 DEF AnsweredTruly
  <2>11. PICK found : found = e.found
    OBVIOUS
  <2>12. ErrandOK(e2, stored, edits, provider, known)
    BY <1>3, <2>8, <2>10, <2>11, AnswerIsOK
  <2>13. e2.pc # "writing" /\ ErrandOK(e2, stored, edits, provider', known')
    BY <1>2, <2>8, <2>12
  <2>14. RegisteredOK(provider, known) /\ CardsOK(provider, provider)
    BY ConsoleStill
  <2>15. RegisteredOK(provider', known') /\ CardsOK(provider, provider') /\ known \subseteq known'
    BY <1>2, <2>14
  <2> QED
    BY <1>2, <2>6, <2>7, <2>9, <2>13, <2>15, ErrandGoes
<1>10. CASE Replies(t, "broken") /\ UNCHANGED sync
  <2>1. PICK e2 : e2 = [pc |-> "answering", form |-> e.form, request |-> e.request, code |-> "broken", found |-> e.found]
    OBVIOUS
  <2>2. AnsweredTruly(e2, edits, provider)
    BY <1>3, <2>1 DEF AnsweredTruly
  <2>3. UNCHANGED <<stored, edits, provider, known, sync, sheet>>
    BY <1>2, <1>10
  <2> QED
    BY <1>1, <1>2, <1>10, <2>1, <2>2, <2>3, RepliesKeep
<1> QED
    BY <1>1, <1>4, <1>5, <1>9, <1>10 DEF QueueSync

LEMMA RunSyncKeeps ==
    ASSUME ConsolesInv, NEW p \in Provider, NEW job \in sync[p].jobs, RunSync(p, job)
    PROVE  ConsolesInv'
<1>1. PICK queue : queue = sync[p]
    OBVIOUS
<1>2. /\ QueueOK(p, queue, provider[p])
      /\ queue = [jobs |-> queue.jobs, last |-> queue.last, seen |-> queue.seen]
      /\ DOMAIN sync = Provider
    BY <1>1, QueueIs
<1>3. PICK last : last = IF provider[p].enabled /\ p \notin Broken THEN "ran" ELSE "refused"
    OBVIOUS
<1>4. PICK queue2 : queue2 = [jobs |-> queue.jobs \ {job}, last |-> last, seen |-> job]
    OBVIOUS
<1>5. sync' = [sync EXCEPT ![p] = queue2]
  <2>1. PICK q1 : q1 = [queue EXCEPT !.jobs = queue.jobs \ {job}]
    OBVIOUS
  <2>2. q1 = [jobs |-> queue.jobs \ {job}, last |-> queue.last, seen |-> queue.seen]
    BY <1>2, <2>1
  <2>3. PICK q2 : q2 = [q1 EXCEPT !.last = last]
    OBVIOUS
  <2>4. q2 = [jobs |-> queue.jobs \ {job}, last |-> last, seen |-> queue.seen]
    BY <2>2, <2>3
  <2>5. [q2 EXCEPT !.seen = job] = queue2
    BY <1>4, <2>4
  <2>6. PICK s1 : s1 = [sync EXCEPT ![p] = q1]
    OBVIOUS
  <2>7. PICK s2 : s2 = [s1 EXCEPT ![p] = q2]
    OBVIOUS
  <2>8. s1[p] = q1 /\ s2[p] = q2
    BY <1>2, <2>6, <2>7
  <2>9. s1 = [sync EXCEPT ![p].jobs = @ \ {job}]
    BY <1>1, <1>2, <2>1, <2>6
  <2>10. s2 = [s1 EXCEPT ![p].last = last]
    BY <2>3, <2>7, <2>8
  <2>11. sync' = [s2 EXCEPT ![p].seen = job]
    BY <1>3, <2>9, <2>10 DEF RunSync
  <2>12. sync' = [s2 EXCEPT ![p] = queue2]
    BY <2>5, <2>8, <2>11
  <2> QED
    BY <1>2, <2>6, <2>7, <2>12
<1>6. queue2.jobs = queue.jobs \ {job} /\ queue2.last = last /\ queue2.seen = job
    BY <1>4
<1>7. job \in Nat /\ job <= provider[p].switches /\ (job = provider[p].switches => provider[p].enabled)
    BY <1>1, <1>2 DEF QueueOK
<1>8. last = "refused" => p \in Broken \/ provider[p].switches > job
  <2>1. PICK row : row = provider[p]
    OBVIOUS
  <2>2. row.switches \in Nat
    BY <2>1, RowIs
  <2>3. ASSUME last = "refused", p \notin Broken
        PROVE  ~row.enabled
    BY <1>3, <2>1, <2>3
  <2> QED
    BY <1>7, <2>1, <2>2, <2>3
<1>9. QueueOK(p, queue2, provider[p])
    BY <1>2, <1>4, <1>6, <1>7, <1>8 DEF QueueOK
<1>10. UNCHANGED <<stored, edits, provider, known, sheet, errand>>
    BY DEF RunSync
<1>11. DOMAIN sync' = Provider /\ \A q \in Provider : sync'[q] = sync[q] \/ QueueOK(q, sync'[q], provider'[q])
    BY <1>2, <1>5, <1>9, <1>10
<1>12. /\ StoredOK(stored, edits) /\ RegisteredOK(provider, known)
       /\ LaterStored(stored, edits, stored, edits) /\ CardsOK(provider, provider)
       /\ DOMAIN errand = Desktop /\ DOMAIN sheet = Desktop /\ WritesAlone(errand)
    BY ConsoleStill DEF ConsolesInv
<1>13. /\ StoredOK(stored', edits') /\ RegisteredOK(provider', known') /\ known \subseteq known'
       /\ LaterStored(stored, edits, stored', edits') /\ CardsOK(provider, provider')
       /\ DOMAIN errand' = Desktop /\ DOMAIN sheet' = Desktop /\ WritesAlone(errand')
    BY <1>10, <1>12
<1>14. \A t \in Desktop :
          /\ sheet'[t] = sheet[t]
          /\ errand[t] # Nothing \/ errand'[t] = Nothing \/ SheetOK(sheet[t], stored, edits, provider)
    BY <1>10
<1>15. \A t \in Desktop :
          /\ errand'[t] = errand[t]
          /\ errand[t] # Nothing /\ errand[t].pc = "writing" /\ errand[t].request.expected # Nothing =>
                stored'[errand[t].request.scope] = stored[errand[t].request.scope]
    BY <1>10
<1> QED
    BY <1>11, <1>13, <1>14, <1>15, ConsoleMoves

LEMMA ConsolesInitially == ConsolesInit => ConsolesInv
<1> SUFFICES ASSUME ConsolesInit PROVE ConsolesInv
    OBVIOUS
<1>1. StoredOK(stored, edits)
    BY DEF ConsolesInit, StoredOK
<1>2. PICK row : row = [registered |-> FALSE, enabled |-> FALSE, switches |-> 0, announced |-> FALSE, sure |-> FALSE]
    OBVIOUS
<1>3. provider = [p \in Provider |-> row]
    BY <1>2 DEF ConsolesInit
<1>4. row \in ProviderRecord /\ ~row.enabled /\ ~row.announced
    BY <1>2 DEF ProviderRecord
<1>5. RegisteredOK(provider, known)
  <2>1. provider \in [Provider -> ProviderRecord]
    BY <1>3, <1>4
  <2>2. \A p \in Provider : ~provider[p].enabled /\ ~provider[p].announced
    BY <1>3, <1>4
  <2>3. known = {}
    BY DEF ConsolesInit
  <2> QED
    BY <2>1, <2>2, <2>3, ConsolesAssumption DEF RegisteredOK
<1>6. /\ DOMAIN sheet = Desktop /\ DOMAIN errand = Desktop /\ DOMAIN sync = Provider
      /\ \A t \in Desktop : sheet[t] = Nothing /\ errand[t] = Nothing
    BY DEF ConsolesInit
<1>7. WritesAlone(errand)
    BY <1>6 DEF WritesAlone, Writes
<1>8. ASSUME NEW p \in Provider
      PROVE  QueueOK(p, sync[p], provider[p])
  <2>1. PICK queue : queue = [jobs |-> {}, last |-> "none", seen |-> 0]
    OBVIOUS
  <2>2. sync[p] = queue
    BY <1>8, <2>1 DEF ConsolesInit
  <2>3. queue.jobs = {} /\ queue.last # "refused" /\ queue = [jobs |-> queue.jobs, last |-> queue.last, seen |-> queue.seen]
    BY <2>1
  <2> QED
    BY <2>2, <2>3 DEF QueueOK
<1> QED
    BY <1>1, <1>5, <1>6, <1>7, <1>8 DEF ConsolesInv

LEMMA ConsolesStep == ConsolesInv /\ [ConsolesNext]_consoleVars => ConsolesInv'
<1> SUFFICES ASSUME ConsolesInv, [ConsolesNext]_consoleVars PROVE ConsolesInv'
    OBVIOUS
<1>1. ASSUME NEW t \in Desktop,
             \/ \E scope \in Scopes : OpenSetting(t, scope)
             \/ \E value \in Value \cup {Bad, Garbled} : PressSet(t, value)
             \/ PressReset(t)
      PROVE  ConsolesInv'
    BY <1>1, OpenSettingKeeps, PressSetKeeps, PressResetKeeps
<1>2. ASSUME NEW t \in Desktop, AssertNotStaleVersion(t) \/ WriteSetting(t) \/ ResetSetting(t)
      PROVE  ConsolesInv'
    BY <1>2, AssertNotStaleVersionKeeps, WriteSettingKeeps, ResetSettingKeeps
<1>3. ASSUME NEW t \in Desktop,
             OpenProviders(t) \/ \E p \in Provider : PressRegister(t, p) \/ PressSwitch(t, p) \/ PressSync(t, p)
      PROVE  ConsolesInv'
    BY <1>3, OpenProvidersKeeps, PressRegisterKeeps, PressSwitchKeeps, PressSyncKeeps
<1>4. ASSUME NEW t \in Desktop, FindSlug(t) \/ InsertProvider(t) \/ ReadProvider(t) \/ WriteProvider(t)
      PROVE  ConsolesInv'
    BY <1>4, FindSlugKeeps, InsertProviderKeeps, ReadProviderKeeps, WriteProviderKeeps
<1>5. ASSUME NEW t \in Desktop, ReloadRegistry(t) \/ QueueSync(t) \/ HearAnswer(t)
      PROVE  ConsolesInv'
    BY <1>5, ReloadRegistryKeeps, QueueSyncKeeps, HearAnswerKeeps
<1>6. ASSUME NEW p \in Provider, NEW job \in sync[p].jobs, RunSync(p, job)
      PROVE  ConsolesInv'
    BY <1>6, RunSyncKeeps
<1>7. CASE UNCHANGED consoleVars
    BY <1>7 DEF consoleVars, ConsolesInv
<1> QED
    BY <1>1, <1>2, <1>3, <1>4, <1>5, <1>6, <1>7 DEF ConsolesNext

\* What forms, errands, settings and providers have to do with one another, at
\* every step.
THEOREM ConsolesInductive == ConsolesSpec => []ConsolesInv
<1>1. ConsolesInv /\ [ConsolesNext]_consoleVars => ConsolesInv'
    BY ConsolesStep
<1> QED
    BY <1>1, ConsolesInitially, PTL DEF ConsolesSpec

\* Whatever the number of administrators, tabs, settings' scopes and providers,
\* what a console did and said is about what it showed (versionFor,
\* assertNotStale, setEnabled, requestSync, ProviderCard.svelte).
THEOREM ConsolesAreTrue == ConsolesSpec => []ConsolesTellTheTruth
<1>1. ConsolesInv => ConsolesTellTheTruth
  <2> SUFFICES ASSUME ConsolesInv PROVE ConsolesTellTheTruth
    OBVIOUS
  <2>1. ASSUME NEW t \in Desktop, errand[t] # Nothing, errand[t].pc = "answering"
        PROVE  LET form == errand[t].form
                   r == errand[t].request IN
               IF form.screen = "setting"
               THEN /\ errand[t].code = "done" =>
                          r.scope = form.scope /\ (form.rows[r.scope] # Nothing => errand[t].found = form.rows[r.scope])
                    /\ errand[t].code = "stale" => edits[r.scope] > form.edits[r.scope]
               ELSE errand[t].code = "conflict" =>
                       \/ provider[r.of].registered # form.rows[r.of].registered
                       \/ provider[r.of].switches > form.rows[r.of].switches
                       \/ r.of \in Broken
    <3>1. PICK e : e = errand[t]
      OBVIOUS
    <3>2. AnsweredTruly(e, edits, provider)
      BY <2>1, <3>1 DEF ConsolesInv, ErrandOK
    <3>3. CASE e.form.screen = "setting"
      BY <3>1, <3>2, <3>3 DEF AnsweredTruly
    <3>4. CASE e.form.screen # "setting"
      <4>1. ASSUME e.code = "conflict"
            PROVE  \/ provider[e.request.of].registered # e.form.rows[e.request.of].registered
                   \/ provider[e.request.of].switches > e.form.rows[e.request.of].switches
                   \/ e.request.of \in Broken
        <5>1. \/ provider[e.request.of].registered /\ ~e.form.rows[e.request.of].registered
              \/ provider[e.request.of].switches > e.form.rows[e.request.of].switches
              \/ e.request.of \in Broken
          BY <3>2, <3>4, <4>1 DEF AnsweredTruly
        <5> QED
          BY <5>1
      <4> QED
        BY <3>1, <3>4, <4>1
    <3> QED
      BY <3>3, <3>4
  <2>2. ASSUME NEW p \in Provider
        PROVE  /\ p \in Broken /\ provider[p].enabled => ~provider[p].sure
               /\ sync[p].last = "refused" => p \in Broken \/ provider[p].switches > sync[p].seen
    BY <2>2 DEF ConsolesInv, RegisteredOK, QueueOK
  <2> QED
    BY <2>1, <2>2 DEF ConsolesTellTheTruth
<1> QED
    BY <1>1, ConsolesInductive, PTL

-----------------------------------------------------------------------------
(* Lists.  A row's place is how many rows come before it; that says where a *)
(* query returns it only if no other row ties with it.                      *)

ListRow == [key : Int, here : BOOLEAN, due : BOOLEAN]

Prior(list, rs, i, j) ==
    \/ IF list # "queue" THEN rs[i].key > rs[j].key ELSE rs[i].key < rs[j].key
    \/ list = "wall" /\ rs[i].key = rs[j].key /\ i < j
Loose(list, rs, i) == list # "wall" /\ \E j \in DOMAIN rs \ {i} : rs[j].key = rs[i].key
Present(rs) == {i \in DOMAIN rs : rs[i].here}
Ahead(list, rs, i) == {j \in Present(rs) : Prior(list, rs, j, i)}

\* Of the rows that were there all along, and are bound to their place, those not
\* among what was got, and of them those with a place before n.
Missed(list, rs, there, got) == {i \in there \ got : ~Loose(list, rs, i)}
Short(list, rs, there, got, n) ==
    {i \in Missed(list, rs, there, got) : Cardinality(Ahead(list, rs, i)) < n}

LEMMA NothingCounts == Cardinality({}) = 0
<1>1. IsFiniteSet({})
  BY FS_EmptySet
<1> QED
  BY <1>1, FS_EmptySet

LEMMA PresentIsFinite ==
    ASSUME NEW rs \in Seq(ListRow)
    PROVE  /\ DOMAIN rs = 1..Len(rs) /\ Len(rs) \in Nat
           /\ IsFiniteSet(Present(rs)) /\ Cardinality(Present(rs)) \in Nat
           /\ \A i \in DOMAIN rs : i \in Nat /\ rs[i].key \in Int
<1>1. DOMAIN rs = 1..Len(rs) /\ Len(rs) \in Nat
  OBVIOUS
<1>2. IsFiniteSet(1..Len(rs)) /\ Present(rs) \subseteq 1..Len(rs)
  BY <1>1, FS_Interval DEF Present
<1>3. IsFiniteSet(Present(rs)) /\ Cardinality(Present(rs)) \in Nat
  BY <1>2, FS_Subset, FS_CardinalityType
<1>4. \A i \in DOMAIN rs : rs[i] \in ListRow
  BY <1>1
<1> QED
  BY <1>1, <1>3, <1>4 DEF ListRow

LEMMA AheadIsFinite ==
    ASSUME NEW rs \in Seq(ListRow), NEW list, NEW i \in Present(rs)
    PROVE  /\ Ahead(list, rs, i) \subseteq Present(rs) /\ i \notin Ahead(list, rs, i)
           /\ IsFiniteSet(Ahead(list, rs, i)) /\ Cardinality(Ahead(list, rs, i)) \in Nat
           /\ Cardinality(Ahead(list, rs, i)) < Cardinality(Present(rs))
<1>1. PICK P, A : P = Present(rs) /\ A = Ahead(list, rs, i)
  OBVIOUS
<1>2. IsFiniteSet(P) /\ A \subseteq P /\ i \in P
  BY <1>1, PresentIsFinite DEF Ahead
<1>3. i \notin A
  <2>1. rs[i].key \in Int /\ i \in Nat
    BY PresentIsFinite DEF Present
  <2> QED
    BY <1>1, <2>1 DEF Ahead, Prior
<1>4. IsFiniteSet(A) /\ Cardinality(A) \in Nat /\ Cardinality(P) \in Nat
  BY <1>2, FS_Subset, FS_CardinalityType
<1>5. Cardinality(A) < Cardinality(P)
  BY <1>2, <1>3, <1>4, FS_Subset
<1> QED
  BY <1>1, <1>2, <1>3, <1>4, <1>5

\* Rows that do not tie come one before the other.
LEMMA PriorOrders ==
    ASSUME NEW rs \in Seq(ListRow), NEW list
    PROVE  /\ \A i, j \in DOMAIN rs : i # j /\ ~Loose(list, rs, i) => Prior(list, rs, i, j) \/ Prior(list, rs, j, i)
           /\ \A i, j, h \in DOMAIN rs : Prior(list, rs, i, j) /\ Prior(list, rs, j, h) => Prior(list, rs, i, h)
           /\ \A i, j \in DOMAIN rs : ~(Prior(list, rs, i, j) /\ Prior(list, rs, j, i))
<1>1. \A i \in DOMAIN rs : i \in Nat /\ rs[i].key \in Int
  BY PresentIsFinite
<1>2. ASSUME NEW i \in DOMAIN rs, NEW j \in DOMAIN rs, i # j, ~Loose(list, rs, i)
      PROVE  Prior(list, rs, i, j) \/ Prior(list, rs, j, i)
  BY <1>1, <1>2 DEF Prior, Loose
<1>3. ASSUME NEW i \in DOMAIN rs, NEW j \in DOMAIN rs, NEW h \in DOMAIN rs,
             Prior(list, rs, i, j), Prior(list, rs, j, h)
      PROVE  Prior(list, rs, i, h)
  BY <1>1, <1>3 DEF Prior
<1>4. ASSUME NEW i \in DOMAIN rs, NEW j \in DOMAIN rs, Prior(list, rs, i, j), Prior(list, rs, j, i)
      PROVE  FALSE
  BY <1>1, <1>4 DEF Prior
<1> QED
  BY <1>2, <1>3, <1>4

\* ... and so have different places.
LEMMA PlacesDiffer ==
    ASSUME NEW rs \in Seq(ListRow), NEW list, NEW i \in Present(rs), NEW j \in Present(rs), i # j,
           ~Loose(list, rs, i)
    PROVE  Cardinality(Ahead(list, rs, i)) # Cardinality(Ahead(list, rs, j))
<1>0. i \in DOMAIN rs /\ j \in DOMAIN rs /\ Present(rs) \subseteq DOMAIN rs
  BY DEF Present
<1>1. ASSUME NEW g \in Present(rs), NEW h \in Present(rs), Prior(list, rs, g, h)
      PROVE  Cardinality(Ahead(list, rs, g)) < Cardinality(Ahead(list, rs, h))
  <2>1. PICK A, B : A = Ahead(list, rs, g) /\ B = Ahead(list, rs, h)
    OBVIOUS
  <2>2. IsFiniteSet(A) /\ IsFiniteSet(B) /\ Cardinality(A) \in Nat /\ Cardinality(B) \in Nat /\ g \notin A
    BY <2>1, AheadIsFinite
  <2>3. g \in B
    BY <1>1, <2>1 DEF Ahead
  <2>4. A \subseteq B
    BY <1>0, <1>1, <2>1, PriorOrders DEF Ahead
  <2>5. Cardinality(A) < Cardinality(B)
    BY <2>2, <2>3, <2>4, FS_Subset
  <2> QED
    BY <2>1, <2>5
<1>2. Prior(list, rs, i, j) \/ Prior(list, rs, j, i)
  BY <1>0, PriorOrders
<1>3. Cardinality(Ahead(list, rs, i)) \in Nat /\ Cardinality(Ahead(list, rs, j)) \in Nat
  BY AheadIsFinite
<1> QED
  BY <1>1, <1>2, <1>3

\* At most so many bound rows have a place at n or past it.
LEMMA PastCount ==
    ASSUME NEW rs \in Seq(ListRow), NEW list, NEW n \in Nat, NEW U, U \subseteq Present(rs),
           \A i \in U : ~Loose(list, rs, i) /\ Cardinality(Ahead(list, rs, i)) >= n
    PROVE  /\ IsFiniteSet(U) /\ Cardinality(U) \in Nat
           /\ Cardinality(U) <= IF n > Cardinality(Present(rs)) THEN 0 ELSE Cardinality(Present(rs)) - n
<1>1. PICK m \in Nat : m = Cardinality(Present(rs))
  BY PresentIsFinite
<1>2. PICK T : T = n .. m - 1
  OBVIOUS
<1>3. IsFiniteSet(T) /\ Cardinality(T) = IF n > m - 1 THEN 0 ELSE m - n
  BY <1>2, FS_Interval
<1>4. PICK f : f = [i \in U |-> Cardinality(Ahead(list, rs, i))]
  OBVIOUS
<1>5. \A i \in U : f[i] \in T
  BY <1>1, <1>2, <1>4, AheadIsFinite
<1>6. \A i, j \in U : f[i] = f[j] => i = j
  BY <1>4, PlacesDiffer
<1>7. f \in Injection(U, T)
  BY <1>4, <1>5, <1>6 DEF Injection, IsInjective
<1>8. IsFiniteSet(U) /\ Cardinality(U) <= Cardinality(T) /\ Cardinality(U) \in Nat
  BY <1>3, <1>7, FS_Injection, FS_CardinalityType
<1> QED
  BY <1>1, <1>3, <1>8

\* A query returns a bound row at its place.
LEMMA OrderPlaces ==
    ASSUME NEW rs \in Seq(ListRow), NEW list, NEW order \in SetToSeqs(Present(rs)),
           \A a, b \in DOMAIN order : Prior(list, rs, order[a], order[b]) => a < b,
           NEW i \in Present(rs), ~Loose(list, rs, i)
    PROVE  \E m \in DOMAIN order : order[m] = i /\ Cardinality(Ahead(list, rs, i)) = m - 1
<1>1. PICK P, n : P = Present(rs) /\ n = Cardinality(Present(rs))
  OBVIOUS
<1>2. IsFiniteSet(P) /\ n \in Nat /\ n = Cardinality(P) /\ P \subseteq DOMAIN rs
  BY <1>1, PresentIsFinite DEF Present
<1>3. IsFiniteSet(1..n) /\ Cardinality(1..n) = n
  BY <1>2, FS_Interval
<1>4. order \in [1..n -> P] /\ \A a, b \in 1..n : a # b => order[a] # order[b]
  BY <1>1 DEF SetToSeqs
<1>5. order \in Injection(1..n, P)
  BY <1>4 DEF Injection, IsInjective
<1>6. order \in Surjection(1..n, P)
  BY <1>2, <1>3, <1>5, FS_Injection
<1>7. PICK m \in 1..n : order[m] = i
  BY <1>1, <1>6 DEF Surjection
<1>8. PICK A : A = Ahead(list, rs, i)
  OBVIOUS
<1>9. \A a \in 1 .. m - 1 : a \in 1..n /\ a < m
  BY <1>2, <1>7
<1>10. \A a \in 1 .. m - 1 : order[a] \in A
  <2> SUFFICES ASSUME NEW a \in 1 .. m - 1 PROVE order[a] \in A
    OBVIOUS
  <2>1. a \in 1..n /\ a < m /\ a # m
    BY <1>9
  <2>2. order[a] # i /\ order[a] \in P
    BY <1>4, <1>7, <2>1
  <2>3. ~Prior(list, rs, i, order[a])
    <3>1. Prior(list, rs, order[m], order[a]) => m < a
      BY <1>4, <1>7, <2>1
    <3> QED
      BY <1>2, <1>7, <2>1, <3>1
  <2>4. Prior(list, rs, order[a], i)
    BY <1>1, <1>2, <2>2, <2>3, PriorOrders
  <2> QED
    BY <1>1, <1>8, <2>2, <2>4 DEF Ahead
<1>11. \A j \in A : \E a \in 1 .. m - 1 : order[a] = j
  <2> SUFFICES ASSUME NEW j \in A PROVE \E a \in 1 .. m - 1 : order[a] = j
    OBVIOUS
  <2>1. j \in P /\ Prior(list, rs, j, i)
    BY <1>1, <1>8 DEF Ahead
  <2>2. PICK a \in 1..n : order[a] = j
    BY <1>6, <2>1 DEF Surjection
  <2>3. a < m
    BY <1>4, <1>7, <2>1, <2>2
  <2> QED
    BY <2>2, <2>3
<1>12. PICK f : f = [a \in 1 .. m - 1 |-> order[a]]
  OBVIOUS
<1>13. f \in [1 .. m - 1 -> A] /\ \A a, b \in 1 .. m - 1 : f[a] = f[b] => a = b
  BY <1>4, <1>9, <1>10, <1>12
<1>14. f \in Surjection(1 .. m - 1, A)
  BY <1>11, <1>12, <1>13 DEF Surjection
<1>15. f \in Injection(1 .. m - 1, A)
  BY <1>13 DEF Injection, IsInjective
<1>16. IsFiniteSet(1 .. m - 1) /\ Cardinality(1 .. m - 1) = m - 1
  <2>1. m - 1 \in Int /\ m >= 1 /\ 1 \in Int
    BY <1>2, <1>7
  <2>2. IsFiniteSet(1 .. m - 1) /\ Cardinality(1 .. m - 1) = IF 1 > m - 1 THEN 0 ELSE (m - 1) - 1 + 1
    BY <2>1, FS_Interval
  <2> QED
    BY <2>1, <2>2
<1>17. Cardinality(A) = m - 1
  BY <1>14, <1>15, <1>16, FS_Surjection
<1> QED
  BY <1>4, <1>7, <1>8, <1>17

LEMMA SliceType ==
    ASSUME NEW rs \in Seq(ListRow), NEW order \in SetToSeqs(Present(rs)), NEW offset \in Nat
    PROVE  Slice(order, offset) \in Seq(Nat)
<1>1. PICK n \in Nat : n = Cardinality(Present(rs))
  BY PresentIsFinite
<1>2. order \in [1..n -> Nat]
  <2>1. order \in [1..n -> Present(rs)]
    BY <1>1 DEF SetToSeqs
  <2> QED
    BY <2>1, PresentIsFinite DEF Present
<1>3. Len(order) = n
  BY <1>2
<1>4. PICK last \in Int : last = IF offset + PageSize < n THEN offset + PageSize ELSE n
  BY ListsAssumption
<1>5. offset + 1 \in Int /\ \A a \in offset + 1 .. last : order[a] \in Nat
  BY <1>2, <1>4, ListsAssumption
<1> QED
  BY <1>3, <1>4, <1>5, SubSeqProperties DEF Slice

\* What a query returns from offset on.
LEMMA SliceGets ==
    ASSUME NEW rs \in Seq(ListRow), NEW list, NEW order \in SetToSeqs(Present(rs)),
           \A a, b \in DOMAIN order : Prior(list, rs, order[a], order[b]) => a < b,
           NEW offset \in Nat
    PROVE  /\ Range(Slice(order, offset)) \subseteq Present(rs)
           /\ Slice(order, offset) = <<>> => Cardinality(Present(rs)) <= offset
           /\ \A i \in Present(rs) :
                 ~Loose(list, rs, i) /\ offset <= Cardinality(Ahead(list, rs, i))
                 /\ Cardinality(Ahead(list, rs, i)) < offset + PageSize
                 => i \in Range(Slice(order, offset))
<1>1. PICK P, n : P = Present(rs) /\ n = Cardinality(P)
  OBVIOUS
<1>2. n \in Nat /\ PageSize \in Nat /\ PageSize > 0
  BY <1>1, PresentIsFinite, ListsAssumption
<1>3. order \in [1..n -> P]
  BY <1>1 DEF SetToSeqs
<1>4. Len(order) = n /\ DOMAIN order = 1..n
  BY <1>2, <1>3
<1>5. PICK last \in Nat : last = IF offset + PageSize < n THEN offset + PageSize ELSE n
  BY <1>2
<1>6. PICK items : items = Slice(order, offset)
  OBVIOUS
<1>7. items = SubSeq(order, offset + 1, last)
  BY <1>4, <1>5, <1>6 DEF Slice
<1>8. offset + 1 \in Int /\ last \in Int /\ \A a \in offset + 1 .. last : order[a] \in P
  BY <1>2, <1>3, <1>5
<1>9. /\ items \in Seq(P)
      /\ Len(items) = IF offset + 1 <= last THEN last - offset ELSE 0
      /\ \A a \in 1 .. last - offset : items[a] = order[a + offset]
  <2>1. /\ items \in Seq(P)
        /\ Len(items) = IF offset + 1 <= last THEN last - (offset + 1) + 1 ELSE 0
        /\ \A a \in 1 .. last - (offset + 1) + 1 : items[a] = order[offset + 1 + a - 1]
    BY <1>7, <1>8, SubSeqProperties
  <2>2. last - (offset + 1) + 1 = last - offset /\ \A a \in Int : offset + 1 + a - 1 = a + offset
    OBVIOUS
  <2> QED
    BY <2>1, <2>2
<1>10. Range(items) \subseteq P
  BY <1>9 DEF Range
<1>11. items = <<>> => n <= offset
  BY <1>2, <1>5, <1>9
<1>12. ASSUME NEW i \in P, ~Loose(list, rs, i), offset <= Cardinality(Ahead(list, rs, i)),
              Cardinality(Ahead(list, rs, i)) < offset + PageSize
       PROVE  i \in Range(items)
  <2>1. PICK m \in 1..n : order[m] = i /\ Cardinality(Ahead(list, rs, i)) = m - 1
    BY <1>1, <1>4, <1>12, OrderPlaces
  <2>2. m - offset \in 1 .. last - offset
    BY <1>2, <1>5, <1>12, <2>1
  <2>3. items[m - offset] = i
    <3>1. items[m - offset] = order[m - offset + offset]
      BY <1>9, <2>2
    <3>2. m - offset + offset = m
      BY <2>1
    <3> QED
      BY <2>1, <3>1, <3>2
  <2>4. m - offset \in DOMAIN items
    BY <1>9, <2>2
  <2> QED
    BY <2>3, <2>4 DEF Range
<1> QED
  BY <1>1, <1>6, <1>10, <1>11, <1>12

-----------------------------------------------------------------------------
(* What rows that come, leave, return or change their place do to the rest. *)

LEMMA ShortIsFinite ==
    ASSUME NEW rs \in Seq(ListRow), NEW list, NEW there, there \subseteq Present(rs), NEW got, NEW n
    PROVE  /\ IsFiniteSet(Missed(list, rs, there, got)) /\ Cardinality(Missed(list, rs, there, got)) \in Nat
           /\ IsFiniteSet(Short(list, rs, there, got, n)) /\ Cardinality(Short(list, rs, there, got, n)) \in Nat
<1>1. PICK M, D : M = Missed(list, rs, there, got) /\ D = Short(list, rs, there, got, n)
  OBVIOUS
<1>2. M \subseteq Present(rs) /\ D \subseteq Present(rs)
  BY <1>1 DEF Missed, Short
<1> QED
  BY <1>1, <1>2, PresentIsFinite, FS_Subset, FS_CardinalityType

\* What is a part of what was counted counts no more.
LEMMA FewerCount ==
    ASSUME NEW S, NEW T, IsFiniteSet(S), T \subseteq S
    PROVE  Cardinality(S) \in Nat /\ Cardinality(T) \in Nat /\ Cardinality(T) <= Cardinality(S)
  BY FS_Subset, FS_CardinalityType

\* Rows of which all that were there before keep their order and ties.
Grown(list, rs, rs2, there) ==
    /\ Present(rs) \subseteq Present(rs2)
    /\ \A i \in there : /\ Ahead(list, rs, i) \subseteq Ahead(list, rs2, i)
                        /\ Loose(list, rs, i) => Loose(list, rs2, i)

LEMMA GrownKeeps ==
    ASSUME NEW rs \in Seq(ListRow), NEW rs2 \in Seq(ListRow), NEW list, NEW there, NEW there2, NEW got, NEW n \in Nat,
           there \subseteq Present(rs), there2 \subseteq there, Grown(list, rs, rs2, there2)
    PROVE  /\ there2 \subseteq Present(rs2)
           /\ Cardinality(Missed(list, rs2, there2, got)) <= Cardinality(Missed(list, rs, there, got))
           /\ Cardinality(Short(list, rs2, there2, got, n)) <= Cardinality(Short(list, rs, there, got, n))
<1>1. PICK M, D, M2, D2 : /\ M = Missed(list, rs, there, got) /\ D = Short(list, rs, there, got, n)
                          /\ M2 = Missed(list, rs2, there2, got) /\ D2 = Short(list, rs2, there2, got, n)
  OBVIOUS
<1>2. IsFiniteSet(M) /\ IsFiniteSet(D)
  BY <1>1, ShortIsFinite
<1>3. there2 \subseteq Present(rs2)
  BY DEF Grown
<1>4. M2 \subseteq M
  BY <1>1 DEF Missed, Grown
<1>5. D2 \subseteq D
  <2> SUFFICES ASSUME NEW i \in D2 PROVE i \in D
    OBVIOUS
  <2>1. i \in there2 /\ i \in M /\ Cardinality(Ahead(list, rs2, i)) < n
    BY <1>1, <1>4 DEF Short, Missed
  <2>2. i \in Present(rs) /\ i \in Present(rs2) /\ Ahead(list, rs, i) \subseteq Ahead(list, rs2, i)
    BY <1>3, <2>1 DEF Grown
  <2>3. PICK A, A2 : A = Ahead(list, rs, i) /\ A2 = Ahead(list, rs2, i)
    OBVIOUS
  <2>4. IsFiniteSet(A2) /\ A \subseteq A2
    BY <2>2, <2>3, AheadIsFinite
  <2>5. Cardinality(A) \in Nat /\ Cardinality(A2) \in Nat /\ Cardinality(A) <= Cardinality(A2)
    BY <2>4, FewerCount
  <2>6. Cardinality(A) < n
    BY <2>1, <2>3, <2>5
  <2> QED
    BY <1>1, <2>1, <2>3, <2>6 DEF Short
<1> QED
  BY <1>1, <1>2, <1>3, <1>4, <1>5, FewerCount

\* A row that comes.
LEMMA AppendGrows ==
    ASSUME NEW rs \in Seq(ListRow), NEW row \in ListRow, NEW list, NEW there, there \subseteq Present(rs)
    PROVE  /\ Append(rs, row) \in Seq(ListRow)
           /\ Grown(list, rs, Append(rs, row), there)
           /\ Cardinality(Present(Append(rs, row))) <= Cardinality(Present(rs)) + 1
           /\ Cardinality(Present(rs)) <= Cardinality(Present(Append(rs, row)))
<1>1. PICK n, rs2 : n = Len(rs) + 1 /\ rs2 = Append(rs, row)
  OBVIOUS
<1>2. /\ rs2 \in Seq(ListRow) /\ Len(rs2) = n /\ DOMAIN rs2 = 1..n /\ DOMAIN rs = 1 .. Len(rs)
      /\ \A i \in DOMAIN rs : i \in DOMAIN rs2 /\ rs2[i] = rs[i]
  <2>1. Len(rs) \in Nat /\ \A i \in 1..Len(rs) : rs2[i] = rs[i]
    BY <1>1
  <2>2. rs2 \in Seq(ListRow) /\ Len(rs2) = n
    BY <1>1
  <2> QED
    BY <1>1, <2>1, <2>2
<1>3. PICK P, P2 : P = Present(rs) /\ P2 = Present(rs2)
  OBVIOUS
<1>4. P \subseteq P2 /\ P \subseteq DOMAIN rs
  BY <1>2, <1>3 DEF Present
<1>5. P2 \subseteq P \cup {n}
  <2>1. \A i \in P2 : i \in 1..n /\ rs2[i].here
    BY <1>2, <1>3 DEF Present
  <2>2. \A i \in 1..n : i = n \/ i \in DOMAIN rs
    BY <1>1, <1>2
  <2> QED
    BY <1>2, <1>3, <2>1, <2>2 DEF Present
<1>6. Cardinality(P2) <= Cardinality(P) + 1 /\ Cardinality(P) <= Cardinality(P2)
  <2>1. IsFiniteSet(P) /\ IsFiniteSet(P2) /\ Cardinality(P) \in Nat
    BY <1>2, <1>3, PresentIsFinite
  <2>2. IsFiniteSet(P \cup {n}) /\ Cardinality(P \cup {n}) <= Cardinality(P) + 1
    <3>1. /\ IsFiniteSet(P \cup {n})
          /\ Cardinality(P \cup {n}) = IF n \in P THEN Cardinality(P) ELSE Cardinality(P) + 1
      BY <2>1, FS_AddElement
    <3> QED
      BY <2>1, <3>1
  <2>3. Cardinality(P2) \in Nat /\ Cardinality(P \cup {n}) \in Nat /\ Cardinality(P2) <= Cardinality(P \cup {n})
    BY <1>5, <2>2, FewerCount
  <2>4. Cardinality(P) <= Cardinality(P2)
    BY <1>4, <2>1, FewerCount
  <2> QED
    BY <2>1, <2>2, <2>3, <2>4
<1>7. ASSUME NEW i \in there
      PROVE  /\ Ahead(list, rs, i) \subseteq Ahead(list, rs2, i)
             /\ Loose(list, rs, i) => Loose(list, rs2, i)
  <2>1. i \in DOMAIN rs
    BY <1>3, <1>4
  <2>2. \A j \in P : Prior(list, rs, j, i) => Prior(list, rs2, j, i)
    BY <1>2, <1>4, <2>1 DEF Prior
  <2>3. Ahead(list, rs, i) \subseteq Ahead(list, rs2, i)
    BY <1>3, <1>4, <2>2 DEF Ahead
  <2>4. Loose(list, rs, i) => Loose(list, rs2, i)
    BY <1>2, <2>1 DEF Loose
  <2> QED
    BY <2>3, <2>4
<1> QED
  BY <1>1, <1>2, <1>3, <1>4, <1>6, <1>7 DEF Grown

\* One row is another than it was, in the wall perhaps elsewhere.
Shifted(list, rs, rs2, k) ==
    /\ k \in DOMAIN rs
    /\ DOMAIN rs2 = DOMAIN rs
    /\ \A i \in DOMAIN rs \ {k} : rs2[i] = rs[i]
    /\ list = "wall" \/ rs2[k].key = rs[k].key

\* A row that leaves, returns or changes its place: one more may be passed over,
\* unless there is one more.
LEMMA MoveShifts ==
    ASSUME NEW rs \in Seq(ListRow), NEW rs2 \in Seq(ListRow), NEW list, NEW k, Shifted(list, rs, rs2, k),
           NEW there, there \subseteq Present(rs), NEW got, NEW n \in Nat
    PROVE  /\ there \ {k} \subseteq Present(rs2)
           /\ Cardinality(Missed(list, rs2, there \ {k}, got)) <= Cardinality(Missed(list, rs, there, got))
           /\ Cardinality(Short(list, rs2, there \ {k}, got, n)) <= Cardinality(Short(list, rs, there, got, n)) + 1
           /\ Cardinality(Present(rs2)) + Cardinality(Short(list, rs2, there \ {k}, got, n))
                <= Cardinality(Present(rs)) + Cardinality(Short(list, rs, there, got, n)) + 1
<1>0. /\ k \in DOMAIN rs /\ DOMAIN rs2 = DOMAIN rs /\ \A i \in DOMAIN rs \ {k} : rs2[i] = rs[i]
      /\ list = "wall" \/ rs2[k].key = rs[k].key
  BY DEF Shifted
<1>1. PICK there2 : there2 = there \ {k}
  OBVIOUS
<1>2. PICK P, P2 : P = Present(rs) /\ P2 = Present(rs2)
  OBVIOUS
<1>3. /\ IsFiniteSet(P) /\ IsFiniteSet(P2) /\ Cardinality(P) \in Nat /\ Cardinality(P2) \in Nat
      /\ P \subseteq DOMAIN rs
  BY <1>2, PresentIsFinite DEF Present
<1>4. P2 \subseteq P \cup {k} /\ P \subseteq P2 \cup {k}
  BY <1>0, <1>2 DEF Present
<1>5. there2 \subseteq P2 /\ there2 \subseteq P /\ there2 \subseteq DOMAIN rs /\ k \notin there2
  BY <1>1, <1>2, <1>3, <1>4
<1>6. ASSUME NEW i \in there2
      PROVE  /\ Loose(list, rs, i) <=> Loose(list, rs2, i)
             /\ \A j \in DOMAIN rs \ {k} : Prior(list, rs, j, i) <=> Prior(list, rs2, j, i)
  <2>1. rs2[i] = rs[i] /\ i # k /\ i \in DOMAIN rs
    BY <1>0, <1>5
  <2>2. \A j \in DOMAIN rs : rs2[j].key = rs[j].key \/ list = "wall"
    BY <1>0
  <2> QED
    BY <1>0, <2>1, <2>2 DEF Loose, Prior
<1>7. PICK M, D, M2, D2 : /\ M = Missed(list, rs, there, got) /\ D = Short(list, rs, there, got, n)
                          /\ M2 = Missed(list, rs2, there2, got) /\ D2 = Short(list, rs2, there2, got, n)
  OBVIOUS
<1>8. IsFiniteSet(M) /\ IsFiniteSet(D) /\ Cardinality(M) \in Nat /\ Cardinality(D) \in Nat
  BY <1>7, ShortIsFinite
<1>9. IsFiniteSet(D2) /\ Cardinality(D2) \in Nat
  BY <1>2, <1>5, <1>7, ShortIsFinite
<1>10. M2 \subseteq M
  BY <1>1, <1>6, <1>7 DEF Missed
<1>11. Cardinality(M2) <= Cardinality(M)
  BY <1>8, <1>10, FewerCount
<1>12. CASE k \notin P
  <2>1. P \subseteq P2
    BY <1>4, <1>12
  <2>2. \A i \in there2 : Ahead(list, rs, i) \subseteq Ahead(list, rs2, i)
    BY <1>2, <1>3, <1>6, <1>12, <2>1 DEF Ahead
  <2>3. Grown(list, rs, rs2, there2)
    BY <1>2, <1>6, <2>1, <2>2 DEF Grown
  <2>4. Cardinality(D2) <= Cardinality(D)
    BY <1>1, <1>7, <2>3, GrownKeeps
  <2>5. Cardinality(P2) <= Cardinality(P) + 1
    <3>1. IsFiniteSet(P \cup {k}) /\ Cardinality(P \cup {k}) = Cardinality(P) + 1
      BY <1>3, <1>12, FS_AddElement
    <3> QED
      BY <1>4, <3>1, FewerCount
  <2> QED
    BY <1>1, <1>2, <1>3, <1>5, <1>7, <1>8, <1>9, <1>11, <2>4, <2>5
<1>13. CASE k \in P
  <2>1. P2 \subseteq P
    BY <1>4, <1>13
  <2>2. Cardinality(P2) <= Cardinality(P)
    BY <1>3, <2>1, FewerCount
  <2>3. PICK E : E = {i \in M : Cardinality(Ahead(list, rs, i)) = n}
    OBVIOUS
  <2>4. IsFiniteSet(E) /\ Cardinality(E) \in Nat /\ Cardinality(E) <= 1
    <3>1. IsFiniteSet(E)
      BY <1>8, <2>3, FS_Subset
    <3>2. \A i, j \in E : i = j
      <4>1. \A i \in E : i \in P /\ ~Loose(list, rs, i) /\ Cardinality(Ahead(list, rs, i)) = n
        BY <1>2, <1>7, <2>3 DEF Missed
      <4> QED
        BY <1>2, <4>1, PlacesDiffer
    <3>3. CASE E = {}
      BY <3>1, <3>3, FS_EmptySet
    <3>4. CASE E # {}
      <4>1. PICK i : i \in E
        BY <3>4
      <4>2. E = {i}
        BY <3>2, <4>1
      <4>3. Cardinality(E) = 1
        BY <4>2, FS_Singleton
      <4> QED
        BY <3>1, <4>3
    <3> QED
      BY <3>3, <3>4
  <2>5. D2 \subseteq D \cup E
    <3> SUFFICES ASSUME NEW i \in D2 PROVE i \in D \cup E
      OBVIOUS
    <3>1. i \in there2 /\ i \in M /\ Cardinality(Ahead(list, rs2, i)) < n
      BY <1>7, <1>10 DEF Short, Missed
    <3>2. i \in Present(rs) /\ i \in Present(rs2)
      BY <1>2, <1>5, <3>1
    <3>3. PICK A, A2 : A = Ahead(list, rs, i) /\ A2 = Ahead(list, rs2, i)
      OBVIOUS
    <3>4. A \subseteq A2 \cup {k}
      <4> SUFFICES ASSUME NEW j \in A, j # k PROVE j \in A2
        OBVIOUS
      <4>1. j \in P /\ j \in DOMAIN rs \ {k} /\ Prior(list, rs, j, i)
        BY <1>2, <1>3, <3>3 DEF Ahead
      <4>2. Prior(list, rs2, j, i) /\ j \in P2
        BY <1>4, <1>6, <3>1, <4>1
      <4> QED
        BY <1>2, <3>3, <4>2 DEF Ahead
    <3>5. IsFiniteSet(A2) /\ Cardinality(A2) \in Nat /\ Cardinality(A) \in Nat
      BY <3>2, <3>3, AheadIsFinite
    <3>6. Cardinality(A) <= Cardinality(A2) + 1
      <4>1. /\ IsFiniteSet(A2 \cup {k})
            /\ Cardinality(A2 \cup {k}) = IF k \in A2 THEN Cardinality(A2) ELSE Cardinality(A2) + 1
        BY <3>5, FS_AddElement
      <4>2. Cardinality(A) <= Cardinality(A2 \cup {k})
        BY <3>4, <4>1, FewerCount
      <4> QED
        BY <3>5, <4>1, <4>2
    <3>7. Cardinality(A) < n \/ Cardinality(A) = n
      BY <3>1, <3>3, <3>5, <3>6
    <3> QED
      BY <1>7, <2>3, <3>1, <3>3, <3>7 DEF Short
  <2>6. Cardinality(D2) <= Cardinality(D) + 1
    <3>1. /\ IsFiniteSet(D \cup E)
          /\ Cardinality(D \cup E) = Cardinality(D) + Cardinality(E) - Cardinality(D \cap E)
      BY <1>8, <2>4, FS_Union
    <3>2. Cardinality(D \cap E) \in Nat
      BY <1>8, FS_Intersection, FS_CardinalityType
    <3>3. Cardinality(D2) <= Cardinality(D \cup E)
      BY <2>5, <3>1, FewerCount
    <3> QED
      BY <1>8, <1>9, <2>4, <3>1, <3>2, <3>3
  <2> QED
    BY <1>1, <1>2, <1>3, <1>5, <1>7, <1>8, <1>9, <1>11, <2>2, <2>6
<1> QED
  BY <1>12, <1>13

-----------------------------------------------------------------------------
(* The inductive invariant: what was passed over before the offset of a page, *)
(* and before its end once its rows are read, are at most as many rows as     *)
(* moved.                                                                     *)

WalkRecord ==
    [offset : Nat, items : Seq(Nat) \cup {Unread}, total : Nat \cup {Unread},
     page : {"none", "loading", "failed", "empty", "rows"},
     seen : SUBSET Nat, there : SUBSET Nat, moves : Nat, late : Nat]

Read(w) == w.items # Unread
Counted(w) == w.total # Unread
Got(w) == w.seen \cup Range(w.items)

\* Of what a walker has got, and may yet get.
Skips(list, rs, w) ==
    /\ Cardinality(Short(list, rs, w.there, w.seen, w.offset)) <= w.moves
    /\ Read(w) => Cardinality(Short(list, rs, w.there, Got(w), w.offset + PageSize)) <= w.moves
    /\ ~Read(w) /\ Counted(w) =>
          Cardinality(Present(rs)) + Cardinality(Short(list, rs, w.there, w.seen, w.offset))
             <= w.total + w.moves + w.late
    /\ Read(w) /\ Counted(w) /\ w.total <= w.offset + PageSize =>
          Cardinality(Missed(list, rs, w.there, Got(w))) <= w.moves + w.late

\* Where no row has moved, the list has not become shorter.
Stays(rs, w) ==
    w.moves = 0 => /\ w.offset > 0 => Cardinality(Present(rs)) > w.offset
                   /\ Counted(w) => Cardinality(Present(rs)) >= w.total

WalkOK(list, rs, w) ==
    /\ w.there \subseteq Present(rs)
    /\ Skips(list, rs, w)
    /\ Stays(rs, w)
    /\ Read(w) /\ w.items = <<>> => w.there = {} \/ w.moves > 0
    /\ w.page = "rows" => Read(w) /\ Counted(w) /\ Range(w.items) \subseteq w.seen
    /\ w.page = "empty" => Read(w) /\ w.items = <<>>
    /\ list = "statement" => w.seen \subseteq Present(rs) /\ (Read(w) => Range(w.items) \subseteq Present(rs))

ListKinds == [list : {"statement"}, status : Statuses] \cup [list : Kinds \ {"statement"}, status : {"any"}]

ListsInv ==
    /\ kind \in ListKinds
    /\ rows \in Seq(ListRow)
    /\ \A i \in DOMAIN rows : rows[i].here = rows[i].due
    /\ walk \in WalkRecord
    /\ WalkOK(kind.list, rows, walk)

\* A movement has one status, and a filter selects what has it.
LEMMA FiltersAgree ==
    ASSUME NEW m \in Movement, NEW status \in Statuses
    PROVE  WhereForStatus(status, m) \in BOOLEAN /\ (WhereForStatus(status, m) <=> StatusOf(m) = status)
<1> DEFINE Falls(s) ==
      /\ m.type \in StatusRules[s].types
      /\ StatusRules[s].sign = "positive" => m.pending > 0
      /\ StatusRules[s].sign = "nonPositive" => ~(m.pending > 0)
<1>1. m.pending \in {-1, 0, 1} /\ m.type \in UNION {StatusRules[s].types : s \in Statuses}
  BY DEF Movement
<1>2. WhereForStatus(status, m) \in BOOLEAN /\ (WhereForStatus(status, m) <=> Falls(status))
  BY <1>1 DEF WhereForStatus
<1>3. Statuses = {"PENDING", "AVAILABLE", "CLEARED", "REVERSED", "IN_REVIEW", "PAID", "RETURNED", "ADJUSTED"}
  BY DEF Statuses, StatusRules
<1>4. \A s, t \in Statuses : Falls(s) /\ Falls(t) => s = t
  BY <1>1, <1>3 DEF StatusRules, Rule, Credits
<1>5. \E s \in Statuses : Falls(s)
  <2>1. PICK s \in Statuses : m.type \in StatusRules[s].types
    BY <1>1
  <2>2. CASE s \in {"PENDING", "AVAILABLE"}
    <3>1. Falls("PENDING") \/ Falls("AVAILABLE")
      BY <2>1, <2>2 DEF StatusRules, Rule, Credits
    <3> QED
      BY <1>3, <3>1
  <2>3. CASE s \notin {"PENDING", "AVAILABLE"}
    BY <1>3, <2>1, <2>3 DEF StatusRules, Rule
  <2> QED
    BY <2>2, <2>3
<1>6. StatusOf(m) = CHOOSE s \in Statuses : Falls(s)
  BY DEF StatusOf
<1>7. StatusOf(m) \in Statuses /\ Falls(StatusOf(m))
  <2> HIDE DEF Falls
  <2> QED
    BY <1>5, <1>6
<1> QED
  BY <1>2, <1>4, <1>7

\* What it takes to see what a walk is.
LEMMA WalkTypes ==
    ASSUME NEW rs \in Seq(ListRow), NEW list, NEW w \in WalkRecord, WalkOK(list, rs, w)
    PROVE  /\ w.offset \in Nat /\ w.moves \in Nat /\ w.late \in Nat /\ PageSize \in Nat /\ PageSize > 0
           /\ w.offset + PageSize \in Nat
           /\ Counted(w) => w.total \in Nat
           /\ \A got, n : /\ Cardinality(Missed(list, rs, w.there, got)) \in Nat
                          /\ IsFiniteSet(Missed(list, rs, w.there, got))
                          /\ Cardinality(Short(list, rs, w.there, got, n)) \in Nat
                          /\ IsFiniteSet(Short(list, rs, w.there, got, n))
           /\ Cardinality(Present(rs)) \in Nat
<1>1. w.offset \in Nat /\ w.moves \in Nat /\ w.late \in Nat /\ w.total \in Nat \cup {Unread}
  BY DEF WalkRecord
<1>2. PageSize \in Nat /\ PageSize > 0
  BY ListsAssumption
<1>3. w.offset + PageSize \in Nat
  BY <1>1, <1>2
<1>4. w.there \subseteq Present(rs)
  BY DEF WalkOK
<1>5. \A got, n : /\ Cardinality(Missed(list, rs, w.there, got)) \in Nat
                  /\ IsFiniteSet(Missed(list, rs, w.there, got))
                  /\ Cardinality(Short(list, rs, w.there, got, n)) \in Nat
                  /\ IsFiniteSet(Short(list, rs, w.there, got, n))
  BY <1>4, ShortIsFinite
<1>6. Cardinality(Present(rs)) \in Nat
  BY PresentIsFinite
<1> QED
  BY <1>1, <1>2, <1>3, <1>5, <1>6 DEF Counted

-----------------------------------------------------------------------------
(* The rows change. *)

LEMMA OneMore ==
    ASSUME NEW a \in Nat, NEW b \in Nat, NEW c \in Nat, NEW d \in Nat, NEW t \in Nat, NEW m \in Nat, NEW l \in Nat,
           a + b <= c + d + 1, c + d <= t + m + l
    PROVE  a + b <= t + (m + 1) + l
  OBVIOUS

LEMMA OneLate ==
    ASSUME NEW a \in Nat, NEW b \in Nat, NEW c \in Nat, NEW d \in Nat, NEW t \in Nat, NEW m \in Nat, NEW l \in Nat,
           a <= c + 1, b <= d, c + d <= t + m + l
    PROVE  a + b <= t + m + (l + 1)
  OBVIOUS

LEMMA AddKeeps ==
    ASSUME NEW rs \in Seq(ListRow), NEW row \in ListRow, NEW list, NEW w \in WalkRecord, WalkOK(list, rs, w),
           NEW w2, w2 = IF Counted(w) /\ ~Read(w) THEN [w EXCEPT !.late = @ + 1] ELSE w
    PROVE  w2 \in WalkRecord /\ WalkOK(list, Append(rs, row), w2)
<1>0. /\ w.offset \in Nat /\ w.moves \in Nat /\ w.late \in Nat /\ w.offset + PageSize \in Nat
      /\ Counted(w) => w.total \in Nat
      /\ Cardinality(Present(rs)) \in Nat
      /\ \A got : Cardinality(Missed(list, rs, w.there, got)) \in Nat
      /\ \A got, n : Cardinality(Short(list, rs, w.there, got, n)) \in Nat
  BY WalkTypes
<1>1. PICK rs2 : rs2 = Append(rs, row)
  OBVIOUS
<1>2. /\ rs2 \in Seq(ListRow) /\ Grown(list, rs, rs2, w.there)
      /\ Cardinality(Present(rs2)) <= Cardinality(Present(rs)) + 1
      /\ Cardinality(Present(rs)) <= Cardinality(Present(rs2))
  BY <1>1, AppendGrows DEF WalkOK
<1>3. /\ w2 \in WalkRecord
      /\ w2.offset = w.offset /\ w2.items = w.items /\ w2.total = w.total /\ w2.page = w.page
      /\ w2.seen = w.seen /\ w2.there = w.there /\ w2.moves = w.moves
      /\ w2.late = (IF Counted(w) /\ ~Read(w) THEN w.late + 1 ELSE w.late)
  <2>1. PICK late \in Nat : late = w.late + 1
    BY <1>0
  <2>2. w2 = IF Counted(w) /\ ~Read(w) THEN [w EXCEPT !.late = late] ELSE w
    BY <2>1
  <2>3. CASE Counted(w) /\ ~Read(w)
    BY <2>1, <2>2, <2>3 DEF WalkRecord
  <2>4. CASE ~(Counted(w) /\ ~Read(w))
    BY <2>2, <2>4
  <2> QED
    BY <2>3, <2>4
<1>4. w.there \subseteq Present(rs2) /\ Present(rs) \subseteq Present(rs2)
  BY <1>2 DEF Grown, WalkOK
<1>5. \A got : Cardinality(Missed(list, rs2, w.there, got)) <= Cardinality(Missed(list, rs, w.there, got))
  BY <1>2, GrownKeeps DEF WalkOK
<1>6. \A got : \A n \in Nat :
         Cardinality(Short(list, rs2, w.there, got, n)) <= Cardinality(Short(list, rs, w.there, got, n))
  BY <1>2, GrownKeeps DEF WalkOK
<1>7. /\ \A got : Cardinality(Missed(list, rs2, w.there, got)) \in Nat
      /\ \A got, n : Cardinality(Short(list, rs2, w.there, got, n)) \in Nat
      /\ Cardinality(Present(rs2)) \in Nat
  BY <1>2, <1>4, ShortIsFinite, PresentIsFinite
<1>8. Read(w2) = Read(w) /\ Counted(w2) = Counted(w) /\ Got(w2) = Got(w)
  BY <1>3 DEF Read, Counted, Got
<1>9. Skips(list, rs2, w2)
  <2>1. Skips(list, rs, w)
    BY DEF WalkOK
  <2>2. Cardinality(Short(list, rs2, w.there, w.seen, w.offset)) <= Cardinality(Short(list, rs, w.there, w.seen, w.offset))
    BY <1>0, <1>6
  <2>3. Cardinality(Short(list, rs2, w.there, Got(w), w.offset + PageSize))
           <= Cardinality(Short(list, rs, w.there, Got(w), w.offset + PageSize))
    BY <1>0, <1>6
  <2>4. Cardinality(Short(list, rs2, w2.there, w2.seen, w2.offset)) <= w2.moves
    BY <1>0, <1>3, <1>7, <2>1, <2>2 DEF Skips
  <2>5. Read(w2) => Cardinality(Short(list, rs2, w2.there, Got(w2), w2.offset + PageSize)) <= w2.moves
    BY <1>0, <1>3, <1>7, <1>8, <2>1, <2>3 DEF Skips
  <2>6. ~Read(w2) /\ Counted(w2) =>
            Cardinality(Present(rs2)) + Cardinality(Short(list, rs2, w2.there, w2.seen, w2.offset))
               <= w2.total + w2.moves + w2.late
    <3> SUFFICES ASSUME ~Read(w), Counted(w)
                 PROVE  Cardinality(Present(rs2)) + Cardinality(Short(list, rs2, w.there, w.seen, w.offset))
                           <= w.total + w.moves + (w.late + 1)
      BY <1>3, <1>8
    <3>1. Cardinality(Present(rs)) + Cardinality(Short(list, rs, w.there, w.seen, w.offset)) <= w.total + w.moves + w.late
      BY <2>1 DEF Skips
    <3>2. /\ Cardinality(Short(list, rs2, w.there, w.seen, w.offset)) \in Nat /\ Cardinality(Present(rs2)) \in Nat
          /\ Cardinality(Short(list, rs, w.there, w.seen, w.offset)) \in Nat /\ Cardinality(Present(rs)) \in Nat
          /\ w.total \in Nat /\ w.moves \in Nat /\ w.late \in Nat
      BY <1>0, <1>7
    <3>3. Cardinality(Present(rs2)) <= Cardinality(Present(rs)) + 1
      BY <1>2
    <3> QED
      BY <2>2, <3>1, <3>2, <3>3, OneLate
  <2>7. Read(w2) /\ Counted(w2) /\ w2.total <= w2.offset + PageSize =>
            Cardinality(Missed(list, rs2, w2.there, Got(w2))) <= w2.moves + w2.late
    <3> SUFFICES ASSUME Read(w), Counted(w), w.total <= w.offset + PageSize
                 PROVE  Cardinality(Missed(list, rs2, w.there, Got(w))) <= w.moves + w.late
      BY <1>3, <1>8
    <3>1. Cardinality(Missed(list, rs, w.there, Got(w))) <= w.moves + w.late
      BY <2>1 DEF Skips
    <3> QED
      BY <1>0, <1>5, <1>7, <3>1
  <2> QED
    BY <2>4, <2>5, <2>6, <2>7 DEF Skips
<1>10. Stays(rs2, w2)
  BY <1>0, <1>2, <1>3, <1>7, <1>8 DEF WalkOK, Stays
<1> QED
  BY <1>1, <1>3, <1>4, <1>8, <1>9, <1>10 DEF WalkOK

Without(w, k) == [w EXCEPT !.there = @ \ {k}, !.moves = @ + 1]

LEMMA MoveKeeps ==
    ASSUME NEW rs \in Seq(ListRow), NEW rs2 \in Seq(ListRow), NEW list, NEW k, Shifted(list, rs, rs2, k),
           list # "statement",
           NEW w \in WalkRecord, WalkOK(list, rs, w),
           NEW w2, w2 = Without(w, k)
    PROVE  w2 \in WalkRecord /\ WalkOK(list, rs2, w2)
<1>0. /\ w.offset \in Nat /\ w.moves \in Nat /\ w.late \in Nat /\ w.offset + PageSize \in Nat
      /\ Counted(w) => w.total \in Nat
      /\ Cardinality(Present(rs)) \in Nat
      /\ \A got : Cardinality(Missed(list, rs, w.there, got)) \in Nat
      /\ \A got, n : Cardinality(Short(list, rs, w.there, got, n)) \in Nat
  BY WalkTypes
<1>1. PICK there2 : there2 = w.there \ {k}
  OBVIOUS
<1>2. /\ w2 \in WalkRecord /\ w2.there = there2 /\ w2.moves = w.moves + 1
      /\ w2.offset = w.offset /\ w2.items = w.items /\ w2.total = w.total /\ w2.page = w.page
      /\ w2.seen = w.seen /\ w2.late = w.late
  <2>1. PICK moves \in Nat : moves = w.moves + 1
    BY <1>0
  <2>2. w2 = [w EXCEPT !.there = there2, !.moves = moves]
    BY <1>1, <2>1 DEF Without
  <2>3. there2 \in SUBSET Nat
    BY <1>1 DEF WalkRecord
  <2> QED
    BY <2>1, <2>2, <2>3 DEF WalkRecord
<1>3. w.there \subseteq Present(rs)
  BY DEF WalkOK
<1>4. ASSUME NEW got, NEW n \in Nat
      PROVE  /\ there2 \subseteq Present(rs2)
             /\ Cardinality(Missed(list, rs2, there2, got)) <= Cardinality(Missed(list, rs, w.there, got))
             /\ Cardinality(Short(list, rs2, there2, got, n)) <= Cardinality(Short(list, rs, w.there, got, n)) + 1
             /\ Cardinality(Present(rs2)) + Cardinality(Short(list, rs2, there2, got, n))
                  <= Cardinality(Present(rs)) + Cardinality(Short(list, rs, w.there, got, n)) + 1
  BY <1>1, <1>3, MoveShifts
<1>5. there2 \subseteq Present(rs2)
  BY <1>0, <1>4
<1>6. /\ \A got : Cardinality(Missed(list, rs2, there2, got)) \in Nat
      /\ \A got, n : Cardinality(Short(list, rs2, there2, got, n)) \in Nat
      /\ Cardinality(Present(rs2)) \in Nat
  BY <1>5, ShortIsFinite, PresentIsFinite
<1>7. Read(w2) = Read(w) /\ Counted(w2) = Counted(w) /\ Got(w2) = Got(w)
  BY <1>2 DEF Read, Counted, Got
<1>8. Skips(list, rs2, w2)
  <2>1. Skips(list, rs, w)
    BY DEF WalkOK
  <2>2. /\ Cardinality(Short(list, rs2, there2, w.seen, w.offset)) <= Cardinality(Short(list, rs, w.there, w.seen, w.offset)) + 1
        /\ Cardinality(Present(rs2)) + Cardinality(Short(list, rs2, there2, w.seen, w.offset))
              <= Cardinality(Present(rs)) + Cardinality(Short(list, rs, w.there, w.seen, w.offset)) + 1
    BY <1>0, <1>4
  <2>3. Cardinality(Short(list, rs2, there2, Got(w), w.offset + PageSize))
           <= Cardinality(Short(list, rs, w.there, Got(w), w.offset + PageSize)) + 1
    BY <1>0, <1>4
  <2>4. Cardinality(Short(list, rs2, w2.there, w2.seen, w2.offset)) <= w2.moves
    <3>1. Cardinality(Short(list, rs, w.there, w.seen, w.offset)) <= w.moves
      BY <2>1 DEF Skips
    <3>2. Cardinality(Short(list, rs2, there2, w.seen, w.offset)) <= w.moves + 1
      BY <1>0, <1>6, <2>2, <3>1
    <3> QED
      BY <1>2, <3>2
  <2>5. Read(w2) => Cardinality(Short(list, rs2, w2.there, Got(w2), w2.offset + PageSize)) <= w2.moves
    <3> SUFFICES ASSUME Read(w)
                 PROVE  Cardinality(Short(list, rs2, there2, Got(w), w.offset + PageSize)) <= w.moves + 1
      BY <1>2, <1>7
    <3>1. Cardinality(Short(list, rs, w.there, Got(w), w.offset + PageSize)) <= w.moves
      BY <2>1 DEF Skips
    <3>2. /\ Cardinality(Short(list, rs, w.there, Got(w), w.offset + PageSize)) \in Nat
          /\ Cardinality(Short(list, rs2, there2, Got(w), w.offset + PageSize)) \in Nat
      BY <1>0, <1>6
    <3> QED
      BY <1>0, <2>3, <3>1, <3>2
  <2>6. ~Read(w2) /\ Counted(w2) =>
            Cardinality(Present(rs2)) + Cardinality(Short(list, rs2, w2.there, w2.seen, w2.offset))
               <= w2.total + w2.moves + w2.late
    <3> SUFFICES ASSUME ~Read(w), Counted(w)
                 PROVE  Cardinality(Present(rs2)) + Cardinality(Short(list, rs2, there2, w.seen, w.offset))
                           <= w.total + (w.moves + 1) + w.late
      BY <1>2, <1>7
    <3>1. Cardinality(Present(rs)) + Cardinality(Short(list, rs, w.there, w.seen, w.offset)) <= w.total + w.moves + w.late
      BY <2>1 DEF Skips
    <3>2. /\ Cardinality(Short(list, rs2, there2, w.seen, w.offset)) \in Nat /\ Cardinality(Present(rs2)) \in Nat
          /\ Cardinality(Short(list, rs, w.there, w.seen, w.offset)) \in Nat /\ Cardinality(Present(rs)) \in Nat
          /\ w.total \in Nat /\ w.moves \in Nat /\ w.late \in Nat
      BY <1>0, <1>6
    <3> QED
      BY <2>2, <3>1, <3>2, OneMore
  <2>7. Read(w2) /\ Counted(w2) /\ w2.total <= w2.offset + PageSize =>
            Cardinality(Missed(list, rs2, w2.there, Got(w2))) <= w2.moves + w2.late
    <3> SUFFICES ASSUME Read(w), Counted(w), w.total <= w.offset + PageSize
                 PROVE  Cardinality(Missed(list, rs2, there2, Got(w))) <= (w.moves + 1) + w.late
      BY <1>2, <1>7
    <3>1. Cardinality(Missed(list, rs, w.there, Got(w))) <= w.moves + w.late
      BY <2>1 DEF Skips
    <3>2. Cardinality(Missed(list, rs2, there2, Got(w))) <= Cardinality(Missed(list, rs, w.there, Got(w)))
      BY <1>0, <1>4
    <3>3. /\ Cardinality(Missed(list, rs2, there2, Got(w))) \in Nat
          /\ Cardinality(Missed(list, rs, w.there, Got(w))) \in Nat
      BY <1>0, <1>6
    <3> QED
      BY <1>0, <3>1, <3>2, <3>3
  <2> QED
    BY <2>4, <2>5, <2>6, <2>7 DEF Skips
<1>9. w2.moves > 0
  BY <1>0, <1>2
<1>10. Stays(rs2, w2)
  BY <1>0, <1>2, <1>9 DEF Stays
<1> QED
  BY <1>2, <1>5, <1>7, <1>8, <1>9, <1>10 DEF WalkOK

-----------------------------------------------------------------------------
(* A page is asked for, read, counted and shown. *)

\* A page at an offset before which at most as many rows were passed over as moved.
LEMMA AskKeeps ==
    ASSUME NEW rs \in Seq(ListRow), NEW list, NEW w \in WalkRecord, NEW offset \in Nat,
           w.there \subseteq Present(rs),
           Cardinality(Short(list, rs, w.there, w.seen, offset)) <= w.moves,
           w.moves = 0 /\ offset > 0 => Cardinality(Present(rs)) > offset,
           list = "statement" => w.seen \subseteq Present(rs),
           NEW w2, w2 = [w EXCEPT !.offset = offset, !.items = Unread, !.total = Unread, !.page = "loading", !.late = 0]
    PROVE  w2 \in WalkRecord /\ WalkOK(list, rs, w2)
<1>1. /\ w2 \in WalkRecord /\ w2.offset = offset /\ w2.items = Unread /\ w2.total = Unread /\ w2.page = "loading"
      /\ w2.seen = w.seen /\ w2.there = w.there /\ w2.moves = w.moves
  BY DEF WalkRecord
<1>2. ~Read(w2) /\ ~Counted(w2)
  BY <1>1 DEF Read, Counted
<1> QED
  BY <1>1, <1>2 DEF WalkOK, Skips, Stays

LEMMA NoMore ==
    ASSUME NEW a \in Nat, NEW b \in Nat, NEW u \in Nat, NEW p \in Nat, NEW t \in Nat, NEW m \in Nat, NEW l \in Nat,
           a <= b + u, u <= p - t, p + b <= t + m + l
    PROVE  a <= m + l
  OBVIOUS

LEMMA ReadKeeps ==
    ASSUME NEW rs \in Seq(ListRow), NEW list, NEW w \in WalkRecord, WalkOK(list, rs, w), ~Read(w), w.page = "loading",
           NEW order \in SetToSeqs(Present(rs)),
           \A a, b \in DOMAIN order : Prior(list, rs, order[a], order[b]) => a < b,
           NEW w2, w2 = [w EXCEPT !.items = Slice(order, w.offset)]
    PROVE  w2 \in WalkRecord /\ WalkOK(list, rs, w2)
<1>0. /\ w.offset \in Nat /\ w.moves \in Nat /\ w.late \in Nat /\ PageSize \in Nat /\ w.offset + PageSize \in Nat
      /\ Counted(w) => w.total \in Nat
      /\ Cardinality(Present(rs)) \in Nat /\ IsFiniteSet(Present(rs))
  BY WalkTypes, PresentIsFinite
<1>1. PICK items : items = Slice(order, w.offset)
  OBVIOUS
<1>2. /\ Range(items) \subseteq Present(rs)
      /\ items = <<>> => Cardinality(Present(rs)) <= w.offset
      /\ \A i \in Present(rs) :
            ~Loose(list, rs, i) /\ w.offset <= Cardinality(Ahead(list, rs, i))
            /\ Cardinality(Ahead(list, rs, i)) < w.offset + PageSize
            => i \in Range(items)
  BY <1>0, <1>1, SliceGets
<1>3. items \in Seq(Nat)
  BY <1>0, <1>1, SliceType
<1>4. /\ w2 \in WalkRecord /\ w2.items = items /\ w2.page = "loading"
      /\ w2.offset = w.offset /\ w2.total = w.total /\ w2.seen = w.seen /\ w2.there = w.there
      /\ w2.moves = w.moves /\ w2.late = w.late
  BY <1>1, <1>3 DEF WalkRecord
<1>5. Counted(w2) = Counted(w) /\ Got(w2) = w.seen \cup Range(items)
  BY <1>4 DEF Counted, Got
<1>6. PICK S, M, T : /\ S = Short(list, rs, w.there, w.seen, w.offset)
                     /\ M = Missed(list, rs, w.there, Got(w2))
                     /\ T = Short(list, rs, w.there, Got(w2), w.offset + PageSize)
  OBVIOUS
<1>7. /\ IsFiniteSet(S) /\ Cardinality(S) \in Nat /\ Cardinality(M) \in Nat /\ Cardinality(T) \in Nat
      /\ w.there \subseteq Present(rs) /\ Cardinality(S) <= w.moves
  BY <1>6, ShortIsFinite DEF WalkOK, Skips
<1>8. \A i \in M : /\ i \in w.there /\ i \in Present(rs) /\ i \notin w.seen /\ i \notin Range(items)
                   /\ ~Loose(list, rs, i) /\ Cardinality(Ahead(list, rs, i)) \in Nat
  <2>1. \A i \in M : i \in w.there /\ i \notin w.seen /\ i \notin Range(items) /\ ~Loose(list, rs, i)
    BY <1>5, <1>6 DEF Missed
  <2> QED
    BY <1>7, <2>1, AheadIsFinite
<1>9. \A i \in M : Cardinality(Ahead(list, rs, i)) < w.offset + PageSize => i \in S
  <2> SUFFICES ASSUME NEW i \in M, Cardinality(Ahead(list, rs, i)) < w.offset + PageSize
               PROVE  i \in S
    OBVIOUS
  <2>1. Cardinality(Ahead(list, rs, i)) < w.offset
    BY <1>0, <1>2, <1>8
  <2> QED
    BY <1>6, <1>8, <2>1 DEF Short, Missed
<1>10. T \subseteq S
  <2>1. \A i \in T : i \in M /\ Cardinality(Ahead(list, rs, i)) < w.offset + PageSize
    BY <1>6 DEF Short
  <2> QED
    BY <1>9, <2>1
<1>11. Cardinality(T) <= w.moves
  BY <1>0, <1>7, <1>10, FewerCount
<1>12. ASSUME Counted(w), w.total <= w.offset + PageSize
       PROVE  Cardinality(M) <= w.moves + w.late
  <2>1. PICK U : U = {i \in M : Cardinality(Ahead(list, rs, i)) >= w.offset + PageSize}
    OBVIOUS
  <2>2. /\ IsFiniteSet(U) /\ Cardinality(U) \in Nat
        /\ Cardinality(U) <= IF w.offset + PageSize > Cardinality(Present(rs)) THEN 0
                             ELSE Cardinality(Present(rs)) - (w.offset + PageSize)
    BY <1>0, <1>8, <2>1, PastCount
  <2>3. M \subseteq S \cup U
    BY <1>0, <1>8, <1>9, <2>1
  <2>4. /\ IsFiniteSet(S \cup U)
        /\ Cardinality(S \cup U) = Cardinality(S) + Cardinality(U) - Cardinality(S \cap U)
    BY <1>7, <2>2, FS_Union
  <2>5. Cardinality(S \cap U) \in Nat
    BY <1>7, FS_Intersection, FS_CardinalityType
  <2>6. Cardinality(M) <= Cardinality(S) + Cardinality(U)
    <3>1. Cardinality(M) <= Cardinality(S \cup U) /\ Cardinality(S \cup U) \in Nat
      BY <2>3, <2>4, FewerCount
    <3> QED
      BY <1>7, <2>2, <2>4, <2>5, <3>1
  <2>7. Cardinality(Present(rs)) + Cardinality(S) <= w.total + w.moves + w.late
    BY <1>6, <1>12 DEF WalkOK, Skips
  <2>8. w.total \in Nat /\ w.moves \in Nat /\ w.late \in Nat
    BY <1>0, <1>12
  <2>9. CASE w.offset + PageSize > Cardinality(Present(rs))
    <3>1. Cardinality(U) = 0
      BY <2>2, <2>9
    <3> QED
      BY <1>7, <2>6, <2>8, <3>1
  <2>10. CASE ~(w.offset + PageSize > Cardinality(Present(rs)))
    <3>1. Cardinality(U) <= Cardinality(Present(rs)) - (w.offset + PageSize)
      BY <2>2, <2>10
    <3>2. Cardinality(U) <= Cardinality(Present(rs)) - w.total
      BY <1>0, <1>12, <2>2, <2>8, <3>1
    <3>3. /\ Cardinality(M) \in Nat /\ Cardinality(S) \in Nat /\ Cardinality(U) \in Nat
          /\ Cardinality(Present(rs)) \in Nat
      BY <1>0, <1>7, <2>2
    <3>4. PICK a, b, u, p : /\ a = Cardinality(M) /\ b = Cardinality(S) /\ u = Cardinality(U)
                            /\ p = Cardinality(Present(rs))
      OBVIOUS
    <3>5. PICK t, m, l : t = w.total /\ m = w.moves /\ l = w.late
      OBVIOUS
    <3>6. /\ a \in Nat /\ b \in Nat /\ u \in Nat /\ p \in Nat /\ t \in Nat /\ m \in Nat /\ l \in Nat
          /\ a <= b + u /\ u <= p - t /\ p + b <= t + m + l
      BY <2>6, <2>7, <2>8, <3>2, <3>3, <3>4, <3>5
    <3>7. a <= m + l
      BY <3>6, NoMore
    <3> QED
      BY <3>4, <3>5, <3>7
  <2> QED
    BY <2>9, <2>10
<1>13. Skips(list, rs, w2)
  <2>1. ~Read(w2) /\ Counted(w2) => Cardinality(Present(rs)) + Cardinality(S) <= w.total + w.moves + w.late
    BY <1>5, <1>6 DEF WalkOK, Skips
  <2> QED
    BY <1>4, <1>5, <1>6, <1>7, <1>11, <1>12, <2>1 DEF Skips
<1>14. Stays(rs, w2)
  BY <1>4, <1>5 DEF WalkOK, Stays
<1>15. Read(w2) /\ w2.items = <<>> => w2.there = {} \/ w2.moves > 0
  <2> SUFFICES ASSUME items = <<>>, w.moves = 0 PROVE w.there = {}
    BY <1>0, <1>4
  <2>1. w.offset = 0 /\ Cardinality(Present(rs)) = 0
    BY <1>0, <1>2 DEF WalkOK, Stays
  <2> QED
    BY <1>0, <1>7, <2>1, FS_EmptySet
<1> QED
  BY <1>2, <1>4, <1>13, <1>14, <1>15 DEF WalkOK

LEMMA CountKeeps ==
    ASSUME NEW rs \in Seq(ListRow), NEW list, NEW w \in WalkRecord, WalkOK(list, rs, w), ~Counted(w), w.page = "loading",
           NEW w2, w2 = [w EXCEPT !.total = Cardinality(Present(rs))]
    PROVE  w2 \in WalkRecord /\ WalkOK(list, rs, w2)
<1>0. /\ w.offset \in Nat /\ w.moves \in Nat /\ w.late \in Nat /\ w.offset + PageSize \in Nat
      /\ Cardinality(Present(rs)) \in Nat
  BY WalkTypes
<1>1. PICK n \in Nat : n = Cardinality(Present(rs))
  BY <1>0
<1>2. /\ w2 \in WalkRecord /\ w2.total = n /\ w2.page = "loading"
      /\ w2.offset = w.offset /\ w2.items = w.items /\ w2.seen = w.seen /\ w2.there = w.there
      /\ w2.moves = w.moves /\ w2.late = w.late
  BY <1>1 DEF WalkRecord
<1>3. Read(w2) = Read(w) /\ Got(w2) = Got(w)
  BY <1>2 DEF Read, Got
<1>4. w.there \subseteq Present(rs) /\ Skips(list, rs, w)
  BY DEF WalkOK
<1>5. n + Cardinality(Short(list, rs, w.there, w.seen, w.offset)) <= n + w.moves + w.late
  <2>1. Cardinality(Short(list, rs, w.there, w.seen, w.offset)) \in Nat
    BY <1>4, ShortIsFinite
  <2>2. Cardinality(Short(list, rs, w.there, w.seen, w.offset)) <= w.moves
    BY <1>4 DEF Skips
  <2> QED
    BY <1>0, <2>1, <2>2
<1>6. ASSUME Read(w), n <= w.offset + PageSize
      PROVE  Cardinality(Missed(list, rs, w.there, Got(w))) <= w.moves + w.late
  <2>1. PICK M, T : /\ M = Missed(list, rs, w.there, Got(w))
                    /\ T = Short(list, rs, w.there, Got(w), w.offset + PageSize)
    OBVIOUS
  <2>2. M \subseteq T
    <3> SUFFICES ASSUME NEW i \in M PROVE i \in T
      OBVIOUS
    <3>1. i \in Present(rs)
      BY <1>4, <2>1 DEF Missed
    <3>2. Cardinality(Ahead(list, rs, i)) < w.offset + PageSize
      <4>1. Cardinality(Ahead(list, rs, i)) \in Nat /\ Cardinality(Ahead(list, rs, i)) < n
        BY <1>1, <3>1, AheadIsFinite
      <4> QED
        BY <1>0, <1>6, <4>1
    <3> QED
      BY <2>1, <3>2 DEF Short
  <2>3. IsFiniteSet(T)
    BY <1>4, <2>1, ShortIsFinite
  <2>4. Cardinality(M) <= Cardinality(T) /\ Cardinality(M) \in Nat /\ Cardinality(T) \in Nat
    BY <2>2, <2>3, FewerCount
  <2>5. Cardinality(T) <= w.moves
    BY <1>4, <1>6, <2>1 DEF Skips
  <2> QED
    BY <1>0, <2>1, <2>4, <2>5
<1>7. Skips(list, rs, w2)
  BY <1>1, <1>2, <1>3, <1>4, <1>5, <1>6 DEF Skips
<1>8. Stays(rs, w2)
  BY <1>1, <1>2 DEF WalkOK, Stays
<1> QED
  BY <1>2, <1>3, <1>4, <1>7, <1>8 DEF WalkOK

LEMMA ShowKeeps ==
    ASSUME NEW rs \in Seq(ListRow), NEW list, NEW w \in WalkRecord, WalkOK(list, rs, w), Read(w), Counted(w),
           NEW w2, w2 = [w EXCEPT !.page = IF w.items = <<>> THEN "empty" ELSE "rows",
                                  !.seen = @ \cup Range(w.items)]
    PROVE  w2 \in WalkRecord /\ WalkOK(list, rs, w2)
<1>0. /\ w.offset \in Nat /\ w.moves \in Nat /\ w.late \in Nat /\ w.offset + PageSize \in Nat /\ w.offset < w.offset + PageSize
  BY WalkTypes
<1>1. Got(w) = w.seen \cup Range(w.items) /\ Got(w) \in SUBSET Nat
  <2>1. w.items \in Seq(Nat)
    BY DEF WalkRecord, Read
  <2>2. Range(w.items) \subseteq Nat
    BY <2>1 DEF Range
  <2> QED
    BY <2>2 DEF Got, WalkRecord
<1>2. /\ w2 \in WalkRecord /\ w2.seen = Got(w) /\ w2.page = (IF w.items = <<>> THEN "empty" ELSE "rows")
      /\ w2.offset = w.offset /\ w2.items = w.items /\ w2.total = w.total /\ w2.there = w.there
      /\ w2.moves = w.moves /\ w2.late = w.late
  BY <1>1 DEF WalkRecord
<1>3. Read(w2) /\ Counted(w2) /\ Got(w2) = Got(w)
  BY <1>1, <1>2 DEF Read, Counted, Got
<1>4. w.there \subseteq Present(rs) /\ Skips(list, rs, w)
  BY DEF WalkOK
<1>5. Cardinality(Short(list, rs, w.there, Got(w), w.offset)) <= w.moves
  <2>1. PICK S, T : /\ S = Short(list, rs, w.there, Got(w), w.offset)
                    /\ T = Short(list, rs, w.there, Got(w), w.offset + PageSize)
    OBVIOUS
  <2>2. S \subseteq T
    <3> SUFFICES ASSUME NEW i \in S PROVE i \in T
      OBVIOUS
    <3>1. i \in Missed(list, rs, w.there, Got(w)) /\ Cardinality(Ahead(list, rs, i)) < w.offset
      BY <2>1 DEF Short
    <3>2. Cardinality(Ahead(list, rs, i)) \in Nat
      BY <1>4, <3>1, AheadIsFinite DEF Missed
    <3>3. Cardinality(Ahead(list, rs, i)) < w.offset + PageSize
      BY <1>0, <3>1, <3>2
    <3> QED
      BY <2>1, <3>1, <3>3 DEF Short
  <2>3. IsFiniteSet(T)
    BY <1>4, <2>1, ShortIsFinite
  <2>4. Cardinality(S) <= Cardinality(T) /\ Cardinality(S) \in Nat /\ Cardinality(T) \in Nat
    BY <2>2, <2>3, FewerCount
  <2>5. Cardinality(T) <= w.moves
    BY <1>4, <2>1 DEF Skips
  <2> QED
    BY <1>0, <2>1, <2>4, <2>5
<1>6. Skips(list, rs, w2)
  BY <1>2, <1>3, <1>4, <1>5 DEF Skips
<1>7. Stays(rs, w2)
  BY <1>2, <1>3 DEF WalkOK, Stays
<1>8. list = "statement" => Got(w) \subseteq Present(rs)
  BY <1>1 DEF WalkOK
<1>9. Range(w.items) \subseteq Got(w)
  BY <1>1
<1>10. w.items = <<>> => w.there = {} \/ w.moves > 0
  BY DEF WalkOK
<1>11. w2.page = "rows" => Read(w2) /\ Counted(w2) /\ Range(w2.items) \subseteq w2.seen
  BY <1>2, <1>3, <1>9
<1>12. w2.page = "empty" => Read(w2) /\ w2.items = <<>>
  BY <1>2, <1>3
<1>13. list = "statement" => w2.seen \subseteq Present(rs) /\ (Read(w2) => Range(w2.items) \subseteq Present(rs))
  BY <1>2, <1>8, <1>9
<1>14. w2.there \subseteq Present(rs) /\ (Read(w2) /\ w2.items = <<>> => w2.there = {} \/ w2.moves > 0)
  BY <1>2, <1>4, <1>10
<1> QED
  BY <1>2, <1>6, <1>7, <1>11, <1>12, <1>13, <1>14 DEF WalkOK

LEMMA FailKeeps ==
    ASSUME NEW rs \in Seq(ListRow), NEW list, NEW w \in WalkRecord, WalkOK(list, rs, w),
           NEW w2, w2 = [w EXCEPT !.page = "failed"]
    PROVE  w2 \in WalkRecord /\ WalkOK(list, rs, w2)
<1>1. /\ w2 \in WalkRecord /\ w2.page = "failed"
      /\ w2.offset = w.offset /\ w2.items = w.items /\ w2.total = w.total /\ w2.there = w.there
      /\ w2.moves = w.moves /\ w2.late = w.late /\ w2.seen = w.seen
  BY DEF WalkRecord
<1>2. Read(w2) = Read(w) /\ Counted(w2) = Counted(w) /\ Got(w2) = Got(w)
  BY <1>1 DEF Read, Counted, Got
<1>3. Skips(list, rs, w2)
  BY <1>1, <1>2 DEF WalkOK, Skips
<1>4. Stays(rs, w2)
  BY <1>1, <1>2 DEF WalkOK, Stays
<1> QED
  BY <1>1, <1>2, <1>3, <1>4 DEF WalkOK

\* The next page, the one before, and the same again.
LEMMA TurnKeeps ==
    ASSUME NEW rs \in Seq(ListRow), NEW list, NEW w \in WalkRecord, WalkOK(list, rs, w),
           NEW offset, \/ w.page = "rows" /\ w.offset + PageSize < w.total /\ offset = w.offset + PageSize
                       \/ offset = IF w.offset > PageSize THEN w.offset - PageSize ELSE 0
                       \/ offset = w.offset,
           NEW w2, w2 = [w EXCEPT !.offset = offset, !.items = Unread, !.total = Unread, !.page = "loading", !.late = 0]
    PROVE  w2 \in WalkRecord /\ WalkOK(list, rs, w2)
<1>0. /\ w.offset \in Nat /\ w.moves \in Nat /\ PageSize \in Nat /\ PageSize > 0 /\ w.offset + PageSize \in Nat
      /\ Counted(w) => w.total \in Nat
      /\ Cardinality(Present(rs)) \in Nat /\ w.there \subseteq Present(rs)
      /\ list = "statement" => w.seen \subseteq Present(rs)
  BY WalkTypes DEF WalkOK
<1>1. CASE w.page = "rows" /\ w.offset + PageSize < w.total /\ offset = w.offset + PageSize
  <2>1. Read(w) /\ Counted(w) /\ Got(w) = w.seen
    BY <1>1 DEF WalkOK, Got
  <2>2. Cardinality(Short(list, rs, w.there, w.seen, offset)) <= w.moves
    BY <1>1, <2>1 DEF WalkOK, Skips
  <2>3. w.moves = 0 => Cardinality(Present(rs)) > offset
    <3>1. w.moves = 0 => Cardinality(Present(rs)) >= w.total
      BY <2>1 DEF WalkOK, Stays
    <3> QED
      BY <1>0, <1>1, <2>1, <3>1
  <2> QED
    BY <1>0, <1>1, <2>2, <2>3, AskKeeps
<1>2. CASE offset \in Nat /\ offset <= w.offset
  <2>1. PICK S, T : /\ S = Short(list, rs, w.there, w.seen, offset)
                    /\ T = Short(list, rs, w.there, w.seen, w.offset)
    OBVIOUS
  <2>2. S \subseteq T
    <3> SUFFICES ASSUME NEW i \in S PROVE i \in T
      OBVIOUS
    <3>1. i \in Missed(list, rs, w.there, w.seen) /\ Cardinality(Ahead(list, rs, i)) < offset
      BY <2>1 DEF Short
    <3>2. Cardinality(Ahead(list, rs, i)) \in Nat
      BY <1>0, <3>1, AheadIsFinite DEF Missed
    <3>3. Cardinality(Ahead(list, rs, i)) < w.offset
      BY <1>0, <1>2, <3>1, <3>2
    <3> QED
      BY <2>1, <3>1, <3>3 DEF Short
  <2>3. IsFiniteSet(T)
    BY <1>0, <2>1, ShortIsFinite
  <2>4. Cardinality(S) <= Cardinality(T) /\ Cardinality(S) \in Nat /\ Cardinality(T) \in Nat
    BY <2>2, <2>3, FewerCount
  <2>5. Cardinality(T) <= w.moves
    BY <2>1 DEF WalkOK, Skips
  <2>6. Cardinality(Short(list, rs, w.there, w.seen, offset)) <= w.moves
    BY <1>0, <2>1, <2>4, <2>5
  <2>7. w.moves = 0 /\ offset > 0 => Cardinality(Present(rs)) > offset
    <3>1. w.moves = 0 /\ w.offset > 0 => Cardinality(Present(rs)) > w.offset
      BY DEF WalkOK, Stays
    <3> QED
      BY <1>0, <1>2, <3>1
  <2> QED
    BY <1>0, <1>2, <2>6, <2>7, AskKeeps
<1>3. offset = (IF w.offset > PageSize THEN w.offset - PageSize ELSE 0) => offset \in Nat /\ offset <= w.offset
  BY <1>0
<1> QED
  BY <1>0, <1>1, <1>2, <1>3

-----------------------------------------------------------------------------
\* What the operators of the lists say of the rows and the walk.
LEMMA RowsSay ==
    /\ Here = Present(rows)
    /\ \A i, j : Before(i, j) <=> Prior(kind.list, rows, i, j)
    /\ \A i : Tied(i) <=> Loose(kind.list, rows, i)
  BY DEF Here, Present, Before, Prior, Descends, Ties, Tied, Loose

LEMMA NewRowsAre ==
    ASSUME ListsInv, NEW row \in NewRows
    PROVE  row \in ListRow /\ row.here = row.due
<1>1. PICK latest \in Int : latest = IF rows = <<>> THEN 1 ELSE rows[Len(rows)].key
  <2>1. rows # <<>> => Len(rows) \in DOMAIN rows
    BY DEF ListsInv
  <2> QED
    BY <2>1, PresentIsFinite DEF ListsInv
<1>2. CASE kind.list = "statement"
  <2>1. kind.status \in Statuses
    BY <1>2 DEF ListsInv, ListKinds
  <2>2. PICK key \in {latest, latest + 1}, m \in Movement :
           row = [key |-> key, here |-> WhereForStatus(kind.status, m), due |-> StatusOf(m) = kind.status]
    BY <1>1, <1>2 DEF NewRows, Row
  <2>3. /\ WhereForStatus(kind.status, m) \in BOOLEAN
        /\ WhereForStatus(kind.status, m) <=> StatusOf(m) = kind.status
    BY <2>1, FiltersAgree
  <2>4. WhereForStatus(kind.status, m) = (StatusOf(m) = kind.status)
    BY <2>3
  <2> QED
    BY <1>1, <2>2, <2>3, <2>4 DEF ListRow
<1>3. CASE kind.list \in {"queue", "accounts", "wall"}
  <2>1. PICK key \in Int : row = [key |-> key, here |-> TRUE, due |-> TRUE]
    BY <1>1, <1>3 DEF NewRows, Row
  <2> QED
    BY <2>1 DEF ListRow
<1> QED
  BY <1>2, <1>3 DEF ListsInv, ListKinds, Kinds

LEMMA AddRowKeeps ==
    ASSUME ListsInv, AddRow
    PROVE  ListsInv'
<1>1. PICK row \in NewRows : rows' = Append(rows, row)
  BY DEF AddRow
<1>2. row \in ListRow /\ row.here = row.due
  BY NewRowsAre
<1>3. walk' \in WalkRecord /\ WalkOK(kind.list, rows', walk')
  <2>1. PICK rs \in Seq(ListRow), w \in WalkRecord : rs = rows /\ w = walk
    BY DEF ListsInv
  <2>2. walk' = IF Counted(w) /\ ~Read(w) THEN [w EXCEPT !.late = @ + 1] ELSE w
    BY <2>1 DEF AddRow, Counted, Read
  <2>3. WalkOK(kind.list, rs, w)
    BY <2>1 DEF ListsInv
  <2> QED
    BY <1>1, <1>2, <2>1, <2>2, <2>3, AddKeeps
<1>4. rows' \in Seq(ListRow) /\ \A i \in DOMAIN rows' : rows'[i].here = rows'[i].due
  <2>1. PICK rs \in Seq(ListRow) : rs = rows
    BY DEF ListsInv
  <2>2. /\ Append(rs, row) \in Seq(ListRow) /\ Len(Append(rs, row)) = Len(rs) + 1 /\ Len(rs) \in Nat
        /\ Append(rs, row)[Len(rs) + 1] = row /\ \A i \in 1..Len(rs) : Append(rs, row)[i] = rs[i]
    BY <1>2
  <2>3. \A i \in DOMAIN Append(rs, row) : i \in 1..Len(rs) \/ i = Len(rs) + 1
    BY <2>2
  <2>4. \A i \in 1..Len(rs) : rs[i].here = rs[i].due
    BY <2>1 DEF ListsInv
  <2> QED
    BY <1>1, <1>2, <2>1, <2>2, <2>3, <2>4
<1>5. kind' = kind
  BY DEF AddRow
<1> QED
  BY <1>3, <1>4, <1>5 DEF ListsInv

LEMMA MoveRowKeeps ==
    ASSUME ListsInv, NEW k \in DOMAIN rows, MoveRow(k)
    PROVE  ListsInv'
<1>1. PICK rs \in Seq(ListRow), w \in WalkRecord : rs = rows /\ w = walk
  BY DEF ListsInv
<1>2. PICK row \in ListRow : /\ rows' = [rs EXCEPT ![k] = row] /\ row.here = row.due
                             /\ kind.list = "wall" \/ row.key = rs[k].key
  <2>1. rs[k] \in ListRow /\ rs[k].here = rs[k].due /\ rs[k].key \in Int
    <3>1. rs[k] \in ListRow
      BY <1>1
    <3> QED
      BY <1>1, <3>1 DEF ListsInv, ListRow
  <2>2. CASE rows' = [rs EXCEPT ![k].here = FALSE, ![k].due = FALSE]
    <3>1. PICK row : row = [rs[k] EXCEPT !.here = FALSE, !.due = FALSE]
      OBVIOUS
    <3>2. row \in ListRow /\ row.here = row.due /\ row.key = rs[k].key
      BY <2>1, <3>1 DEF ListRow
    <3>3. rows' = [rs EXCEPT ![k] = row]
      BY <1>1, <2>2, <3>1
    <3> QED
      BY <3>2, <3>3
  <2>3. CASE rows' = [rs EXCEPT ![k].here = TRUE, ![k].due = TRUE]
    <3>1. PICK row : row = [rs[k] EXCEPT !.here = TRUE, !.due = TRUE]
      OBVIOUS
    <3>2. row \in ListRow /\ row.here = row.due /\ row.key = rs[k].key
      BY <2>1, <3>1 DEF ListRow
    <3>3. rows' = [rs EXCEPT ![k] = row]
      BY <1>1, <2>3, <3>1
    <3> QED
      BY <3>2, <3>3
  <2>4. CASE kind.list = "wall" /\ rows' = [rs EXCEPT ![k].key = 3 - @]
    <3>1. PICK key \in Int : key = 3 - rs[k].key
      BY <2>1
    <3>2. PICK row : row = [rs[k] EXCEPT !.key = key]
      OBVIOUS
    <3>3. row \in ListRow /\ row.here = row.due
      BY <2>1, <3>2 DEF ListRow
    <3>4. rows' = [rs EXCEPT ![k] = row]
      BY <1>1, <2>4, <3>1, <3>2
    <3> QED
      BY <2>4, <3>3, <3>4
  <2> QED
    BY <1>1, <2>2, <2>3, <2>4 DEF MoveRow
<1>3. kind.list # "statement"
  BY DEF MoveRow, Leaves, Returns
<1>4. PICK rs2 \in Seq(ListRow) : rs2 = rows'
  BY <1>1, <1>2
<1>5. /\ DOMAIN rs2 = DOMAIN rs /\ k \in DOMAIN rs /\ rs2[k] = row
      /\ \A i \in DOMAIN rs \ {k} : rs2[i] = rs[i]
  BY <1>1, <1>2, <1>4
<1>6. walk' = [w EXCEPT !.there = @ \ {k}, !.moves = @ + 1]
  BY <1>1 DEF MoveRow, Moved
<1>7. WalkOK(kind.list, rs, w)
  BY <1>1 DEF ListsInv
<1>8. walk' \in WalkRecord /\ WalkOK(kind.list, rs2, walk')
  <2>1. PICK w2, list : w2 = walk' /\ list = kind.list
    OBVIOUS
  <2>2. list # "statement" /\ Shifted(list, rs, rs2, k)
    BY <1>2, <1>3, <1>5, <2>1 DEF Shifted
  <2>3. w2 = Without(w, k) /\ WalkOK(list, rs, w)
    BY <1>6, <1>7, <2>1 DEF Without
  <2>4. w2 \in WalkRecord /\ WalkOK(list, rs2, w2)
    BY <2>2, <2>3, MoveKeeps
  <2> QED
    BY <2>1, <2>4
<1>9. \A i \in DOMAIN rs2 : rs2[i].here = rs2[i].due
  BY <1>1, <1>2, <1>5 DEF ListsInv
<1>10. kind' = kind
  BY DEF MoveRow
<1> QED
  BY <1>4, <1>8, <1>9, <1>10 DEF ListsInv

\* A step of the reader leaves the rows alone.
LEMMA ReaderKeeps ==
    ASSUME ListsInv, OpenList \/ ReadItems \/ CountTotal \/ ShowPage \/ TurnPage
    PROVE  ListsInv'
<1>0. PICK list : list = kind.list
  OBVIOUS
<1>1. PICK rs \in Seq(ListRow), w \in WalkRecord : rs = rows /\ w = walk
  BY DEF ListsInv
<1>2. WalkOK(list, rs, w) /\ \A i \in DOMAIN rs : rs[i].here = rs[i].due
  BY <1>0, <1>1 DEF ListsInv
<1>3. kind' = kind /\ rows' = rows
  BY DEF OpenList, ReadItems, CountTotal, ShowPage, TurnPage
<1> SUFFICES walk' \in WalkRecord /\ WalkOK(list, rs, walk')
  BY <1>0, <1>1, <1>3 DEF ListsInv
<1>4. CASE OpenList
  <2>1. PICK there : there = {i \in DOMAIN rs : rs[i].due}
    OBVIOUS
  <2>2. there = Present(rs) /\ there \in SUBSET Nat
    BY <1>2, <2>1, PresentIsFinite DEF Present
  <2>3. PICK w0 : w0 = [w EXCEPT !.there = there, !.moves = 0]
    OBVIOUS
  <2>4. w0 \in WalkRecord /\ w0.there = there /\ w0.moves = 0 /\ w0.seen = w.seen
    BY <2>2, <2>3 DEF WalkRecord
  <2>5. walk' = [w0 EXCEPT !.offset = 0, !.items = Unread, !.total = Unread, !.page = "loading", !.late = 0]
    BY <1>0, <1>1, <1>4, <2>1, <2>3 DEF OpenList, Asks, WalkRecord
  <2>6. Cardinality(Short(list, rs, there, w.seen, 0)) <= 0
    <3>1. \A i \in Missed(list, rs, there, w.seen) : Cardinality(Ahead(list, rs, i)) \in Nat
      BY <2>2, AheadIsFinite DEF Missed
    <3>2. Short(list, rs, there, w.seen, 0) = {}
      BY <3>1 DEF Short
    <3> QED
      BY <3>2, NothingCounts
  <2>7. list = "statement" => w.seen \subseteq Present(rs)
    BY <1>2 DEF WalkOK
  <2>8. PICK w2, offset : w2 = walk' /\ offset = 0
    OBVIOUS
  <2>9. /\ w0.there \subseteq Present(rs) /\ Cardinality(Short(list, rs, w0.there, w0.seen, offset)) <= w0.moves
        /\ offset \in Nat /\ ~(offset > 0)
        /\ w2 = [w0 EXCEPT !.offset = offset, !.items = Unread, !.total = Unread, !.page = "loading", !.late = 0]
        /\ list = "statement" => w0.seen \subseteq Present(rs)
    BY <2>2, <2>4, <2>5, <2>6, <2>7, <2>8
  <2>10. w2 \in WalkRecord /\ WalkOK(list, rs, w2)
    BY <2>4, <2>9, AskKeeps
  <2> QED
    BY <2>8, <2>10
<1>5. CASE ReadItems
  <2>1. PICK order \in SetToSeqs(Present(rs)) :
           /\ \A a, b \in DOMAIN order : Prior(list, rs, order[a], order[b]) => a < b
           /\ walk' = [w EXCEPT !.items = Slice(order, w.offset)]
    BY <1>0, <1>1, <1>5, RowsSay DEF ReadItems, Orders
  <2>2. ~Read(w) /\ w.page = "loading"
    BY <1>0, <1>1, <1>5 DEF ReadItems, Read
  <2> QED
    BY <1>2, <2>1, <2>2, ReadKeeps
<1>6. CASE CountTotal
  <2>1. ~Counted(w) /\ w.page = "loading" /\ walk' = [w EXCEPT !.total = Cardinality(Present(rs))]
    BY <1>0, <1>1, <1>6, RowsSay DEF CountTotal, Counted
  <2> QED
    BY <1>2, <2>1, CountKeeps
<1>7. CASE ShowPage
  <2>1. CASE walk' = [w EXCEPT !.page = "failed"]
    BY <1>2, <2>1, FailKeeps
  <2>2. CASE /\ Read(w) /\ Counted(w)
             /\ walk' = [w EXCEPT !.page = IF w.items = <<>> THEN "empty" ELSE "rows", !.seen = @ \cup Range(w.items)]
    BY <1>2, <2>2, ShowKeeps
  <2> QED
    BY <1>0, <1>1, <1>7, <2>1, <2>2 DEF ShowPage, Read, Counted
<1>8. CASE TurnPage
  <2>1. PICK offset :
           /\ \/ w.page = "rows" /\ w.offset + PageSize < w.total /\ offset = w.offset + PageSize
              \/ offset = IF w.offset > PageSize THEN w.offset - PageSize ELSE 0
              \/ offset = w.offset
           /\ walk' = [w EXCEPT !.offset = offset, !.items = Unread, !.total = Unread, !.page = "loading", !.late = 0]
    BY <1>0, <1>1, <1>8 DEF TurnPage, HasNext, Asks
  <2> QED
    BY <1>2, <2>1, TurnKeeps
<1> QED
  BY <1>4, <1>5, <1>6, <1>7, <1>8

LEMMA ListsInitially == ListsInit => ListsInv
<1> SUFFICES ASSUME ListsInit PROVE ListsInv
  OBVIOUS
<1>1. rows = <<>> /\ rows \in Seq(ListRow) /\ DOMAIN rows = {} /\ walk = Unopened
  BY DEF ListsInit
<1>2. PICK rs, w : rs \in Seq(ListRow) /\ rs = rows /\ w = walk
  BY <1>1
<1>3. w \in WalkRecord
  BY <1>1, <1>2 DEF Unopened, WalkRecord
<1>4. ~Read(w) /\ ~Counted(w)
  BY <1>1, <1>2 DEF Unopened, Read, Counted
<1>5. Short(kind.list, rs, w.there, w.seen, w.offset) = {}
  BY <1>1, <1>2 DEF Unopened, Short, Missed
<1>6. Skips(kind.list, rs, w)
  <2>1. Cardinality(Short(kind.list, rs, w.there, w.seen, w.offset)) = 0 /\ w.moves = 0
    BY <1>1, <1>2, <1>5, NothingCounts DEF Unopened
  <2> QED
    BY <1>4, <2>1 DEF Skips
<1>7. Stays(rs, w)
  BY <1>1, <1>2, <1>4 DEF Stays, Unopened
<1>8. WalkOK(kind.list, rs, w)
  BY <1>1, <1>2, <1>4, <1>6, <1>7 DEF WalkOK, Unopened
<1> QED
  BY <1>1, <1>2, <1>3, <1>8 DEF ListsInv, ListsInit, ListKinds

LEMMA ListsStep == ListsInv /\ [ListsNext \/ SweepNext]_listVars => ListsInv'
<1> SUFFICES ASSUME ListsInv, [ListsNext \/ SweepNext]_listVars PROVE ListsInv'
  OBVIOUS
<1>1. CASE UNCHANGED <<kind, rows, walk>>
  BY <1>1 DEF ListsInv
<1>2. SweepNext => UNCHANGED <<kind, rows, walk>>
  BY DEF SweepNext, Tick, TakeJob, CheckPage, EndJob, GiveBack, ThrowJob, StallJob, SignUp
<1> QED
  BY <1>1, <1>2, ReaderKeeps, AddRowKeeps, MoveRowKeeps DEF ListsNext, listVars

\* The invariant of the walk through a list, for pages of any size and however
\* many rows come and move.
THEOREM ListsInductive == ListsSpec => []ListsInv
<1>1. ListsInit => ListsInv
  BY ListsInitially
<1>2. ListsInv /\ [ListsNext \/ SweepNext]_listVars => ListsInv'
  BY ListsStep
<1> QED
  BY <1>1, <1>2, PTL DEF ListsSpec

\* Whoever pages through a list to its end misses no more rows than moved or came
\* too late, of the rows that do not tie, for pages of any size and lists of any
\* length (skip, take and count of each service).
THEOREM WalksAreWhole == ListsSpec => []WalksMissLittle
<1>1. ListsInv => WalksMissLittle
  <2> SUFFICES ASSUME ListsInv PROVE WalksMissLittle
    OBVIOUS
  <2>0. PICK list : list = kind.list
    OBVIOUS
  <2>1. PICK rs \in Seq(ListRow), w \in WalkRecord : rs = rows /\ w = walk
    BY DEF ListsInv
  <2>2. WalkOK(list, rs, w) /\ \A i \in DOMAIN rs : rs[i].here = rs[i].due
    BY <2>0, <2>1 DEF ListsInv
  <2>3. ASSUME w.page = "rows", ~HasNext
        PROVE  Cardinality({i \in w.there \ w.seen : ~Tied(i)}) <= w.moves + w.late
    <3>1. Read(w) /\ Counted(w) /\ Got(w) = w.seen
      BY <2>2, <2>3 DEF WalkOK, Got
    <3>2. w.total \in Nat /\ w.offset + PageSize \in Nat
      BY <2>2, <3>1, WalkTypes
    <3>3. w.total <= w.offset + PageSize
      BY <2>0, <2>1, <2>3, <3>2 DEF HasNext
    <3>4. Cardinality(Missed(list, rs, w.there, w.seen)) <= w.moves + w.late
      BY <2>2, <3>1, <3>3 DEF WalkOK, Skips
    <3>5. Missed(list, rs, w.there, w.seen) = {i \in w.there \ w.seen : ~Tied(i)}
      BY <2>0, <2>1, RowsSay DEF Missed
    <3> QED
      BY <3>4, <3>5
  <2>4. w.page = "empty" => w.there = {} \/ w.moves > 0
    BY <2>2 DEF WalkOK
  <2>5. list = "statement" => \A i \in w.seen : rs[i].due
    BY <2>2 DEF WalkOK, Present
  <2> QED
    BY <2>0, <2>1, <2>3, <2>4, <2>5 DEF WalksMissLittle
<1> QED
  BY <1>1, ListsInductive, PTL

-----------------------------------------------------------------------------
(* The sweep.  A user past the cursor who is not in its page comes after the *)
(* whole page, and the page is full.                                        *)

LEMMA SomeLeast ==
    ASSUME NEW S, S \subseteq Nat, S # {}
    PROVE  \E n \in S : \A m \in S : n <= m
<1>1. PICK less : less = {ss \in Nat \X Nat : ss[1] < ss[2]}
  OBVIOUS
<1>2. IsWellFoundedOn(less, Nat)
  BY <1>1, NatLessThanWellFounded DEF OpToRel
<1>3. PICK n \in S : \A m \in S : <<m, n>> \notin less
  BY <1>2, WFMin
<1>4. \A m \in S : m \in Nat /\ n \in Nat /\ ~(m < n)
  BY <1>1, <1>3
<1> QED
  BY <1>4

\* The last user of a page.
LEMMA SomeGreatest ==
    ASSUME NEW S, S \subseteq 1..MaxRows, S # {}
    PROVE  Max(S) \in S /\ \A m \in S : Max(S) >= m
<1>1. PICK down : down = {n \in Nat : \E m \in S : n = MaxRows - m}
  OBVIOUS
<1>2. \A m \in S : m \in Nat /\ MaxRows - m \in Nat /\ MaxRows \in Nat
  BY ListsAssumption
<1>3. down \subseteq Nat /\ down # {}
  BY <1>1, <1>2
<1>4. PICK n \in down : \A m \in down : n <= m
  BY <1>3, SomeLeast
<1>5. PICK top \in S : n = MaxRows - top
  BY <1>1, <1>4
<1>6. ASSUME NEW m \in S PROVE top >= m
  <2>1. MaxRows - m \in down
    BY <1>1, <1>2
  <2>2. MaxRows - top <= MaxRows - m
    BY <1>4, <1>5, <2>1
  <2> QED
    BY <1>2, <2>2
<1>7. \E x \in S : \A m \in S : x >= m
  BY <1>6
<1> QED
  BY <1>7 DEF Max

Past(owners, after) == {u \in owners : u > after}
Rank(owners, after, u) == Cardinality({v \in Past(owners, after) : v < u})
Paged(owners, after) == {u \in Past(owners, after) : Rank(owners, after, u) < PageSize}

\* Whom a page has, or leaves for the next.
Reached(page, u) == u \in page \/ (Cardinality(page) >= PageSize /\ \A v \in page : v < u)

LEMMA PagesReach ==
    ASSUME NEW owners, owners \subseteq 1..MaxRows, NEW after \in Nat, NEW u \in owners, u > after
    PROVE  Reached(Paged(owners, after), u)
<1>0. MaxRows \in Nat /\ PageSize \in Nat /\ PageSize > 0
  BY ListsAssumption
<1>1. PICK past, page : past = Past(owners, after) /\ page = Paged(owners, after)
  OBVIOUS
<1>2. PICK rank : rank = [x \in past |-> Cardinality({v \in past : v < x})]
  OBVIOUS
<1>3. page = {x \in past : rank[x] < PageSize}
  BY <1>1, <1>2 DEF Paged, Rank
<1>4. IsFiniteSet(past) /\ past \subseteq Nat /\ u \in past
  <2>1. IsFiniteSet(1..MaxRows)
    BY <1>0, FS_Interval
  <2>2. past \subseteq 1..MaxRows
    BY <1>1 DEF Past
  <2>3. IsFiniteSet(past)
    BY <2>1, <2>2, FS_Subset
  <2>4. past \subseteq Nat
    BY <1>0, <2>2
  <2> QED
    BY <1>1, <2>3, <2>4 DEF Past
<1>5. \A x \in past : rank[x] \in Nat
  <2> SUFFICES ASSUME NEW x \in past PROVE rank[x] \in Nat
    OBVIOUS
  <2> QED
    BY <1>2, <1>4, FewerCount
<1> SUFFICES ASSUME u \notin page
             PROVE  Cardinality(page) >= PageSize /\ \A v \in page : v < u
  BY <1>1 DEF Reached
<1>6. ASSUME NEW v \in page PROVE v < u
  <2>1. v \in past /\ rank[v] < PageSize /\ rank[u] >= PageSize
    BY <1>0, <1>3, <1>4, <1>5
  <2>2. v \in Nat /\ u \in Nat
    BY <1>4, <2>1
  <2>3. CASE ~(v < u)
    <3>1. PICK A, B : A = {x \in past : x < u} /\ B = {x \in past : x < v}
      OBVIOUS
    <3>2. A \subseteq B
      <4> SUFFICES ASSUME NEW x \in A PROVE x \in B
        OBVIOUS
      <4>1. x \in past /\ x < u /\ x \in Nat
        BY <1>4, <3>1
      <4>2. x < v
        BY <2>2, <2>3, <4>1
      <4> QED
        BY <3>1, <4>1, <4>2
    <3>3. IsFiniteSet(B)
      BY <1>4, <3>1, FS_Subset
    <3>4. Cardinality(A) <= Cardinality(B)
      BY <3>2, <3>3, FewerCount
    <3>5. rank[u] <= rank[v]
      BY <1>2, <1>4, <2>1, <3>1, <3>4
    <3>6. rank[u] \in Nat /\ rank[v] \in Nat
      BY <1>4, <1>5, <2>1
    <3> QED
      BY <1>0, <2>1, <3>5, <3>6
  <2> QED
    BY <2>3
<1>7. Cardinality(page) >= PageSize
  <2>1. PICK S : S = {x \in past : rank[x] >= PageSize}
    OBVIOUS
  <2>2. S \subseteq Nat /\ S # {}
    <3>1. u \in S
      BY <1>0, <1>3, <1>4, <1>5, <2>1
    <3> QED
      BY <1>4, <2>1, <3>1
  <2>3. PICK w \in S : \A x \in S : w <= x
    BY <2>2, SomeLeast
  <2>4. PICK A : A = {x \in past : x < w}
    OBVIOUS
  <2>5. A \subseteq page
    <3> SUFFICES ASSUME NEW x \in A PROVE x \in page
      OBVIOUS
    <3>1. x \in past /\ x < w /\ x \in Nat /\ w \in Nat
      BY <1>4, <2>2, <2>4
    <3>2. x \notin S
      BY <2>3, <3>1
    <3>3. rank[x] \in Nat /\ ~(rank[x] >= PageSize)
      BY <1>5, <2>1, <3>1, <3>2
    <3> QED
      BY <1>0, <1>3, <3>1, <3>3
  <2>6. IsFiniteSet(page)
    BY <1>3, <1>4, FS_Subset
  <2>7. Cardinality(A) <= Cardinality(page) /\ Cardinality(A) \in Nat /\ Cardinality(page) \in Nat
    BY <2>5, <2>6, FewerCount
  <2>8. Cardinality(A) >= PageSize
    BY <1>2, <2>1, <2>4
  <2> QED
    BY <1>0, <2>7, <2>8
<1> QED
  BY <1>6, <1>7

\* The inductive invariant of the sweep: who was there at the tick has been looked
\* at, or is past the cursor of a job that waits or failed and never got through
\* its page, or is in the page at hand or past it.
Awaited(sw, u) ==
    \/ u \in sw.checked
    \/ \E job \in sw.jobs \cup sw.failed : ~job.passed /\ job.after < u
    \/ /\ sw.job.pc = "checking" /\ ~sw.job.of.passed
       /\ sw.job.of.after < u /\ Reached(sw.job.page, u)

Queued == [id : Nat, after : Nat, failures : Nat, stalls : Nat, passed : BOOLEAN]
AtHand == [of : Queued, page : SUBSET (1..MaxRows), pc : {"idle", "checking", "ending"}]

SweepRecord ==
    [users : SUBSET (1..MaxRows), asked : SUBSET (1..MaxRows), enqueued : Nat, jobs : SUBSET Queued,
     job : AtHand, checked : SUBSET (1..MaxRows), failed : SUBSET Queued, deaths : Nat]

SweepInv ==
    /\ sweep \in SweepRecord
    /\ sweep.asked \subseteq sweep.users
    /\ sweep.job.pc = "checking" => \A u \in sweep.job.page : sweep.job.of.after < u
    /\ sweep.job.pc = "ending" => sweep.job.of.passed
    /\ \A u \in sweep.asked : Awaited(sweep, u)

LEMMA FreshJob ==
    ASSUME NEW id \in Nat, NEW after \in Nat
    PROVE  SweepJob(id, after) \in Queued /\ SweepJob(id, after).after = after /\ ~SweepJob(id, after).passed
  BY DEF SweepJob, Queued

LEMMA NobodyAtHand == NoJob \in AtHand /\ NoJob.pc = "idle"
<1>1. SweepJob(0, FirstPage) \in Queued
  BY FreshJob DEF FirstPage
<1> QED
  BY <1>1 DEF NoJob, AtHand

LEMMA PageAfterIs == \A after : PageAfter(after) = Paged(sweep.users, after)
  BY DEF PageAfter, Paged, Past, Rank

LEMMA TickKeeps ==
    ASSUME SweepInv, Tick
    PROVE  SweepInv'
<1>1. PICK sw \in SweepRecord : sw = sweep
  BY DEF SweepInv
<1>2. PICK first \in Queued : first = SweepJob(1, FirstPage) /\ first.after = 0 /\ ~first.passed
  BY FreshJob DEF FirstPage
<1>3. PICK sw2 : sw2 = [sw EXCEPT !.asked = sw.users, !.enqueued = 1, !.jobs = {first}]
  OBVIOUS
<1>4. sweep' = sw2
  BY <1>1, <1>2, <1>3 DEF Tick
<1>5. /\ sw2 \in SweepRecord /\ sw2.asked = sw.users /\ sw2.users = sw.users
      /\ first \in sw2.jobs /\ sw2.job = sw.job
  BY <1>2, <1>3 DEF SweepRecord
<1>6. \A u \in sw2.asked : u \in 1..MaxRows /\ 0 < u
  BY <1>5, ListsAssumption DEF SweepRecord
<1>7. \A u \in sw2.asked : Awaited(sw2, u)
  BY <1>2, <1>5, <1>6 DEF Awaited
<1> QED
  BY <1>1, <1>4, <1>5, <1>7 DEF SweepInv

LEMMA TakeJobKeeps ==
    ASSUME SweepInv, NEW job \in sweep.jobs, TakeJob(job)
    PROVE  SweepInv'
<1>1. PICK sw \in SweepRecord : sw = sweep
  BY DEF SweepInv
<1>2. PICK page : page = Paged(sw.users, job.after)
  OBVIOUS
<1>3. job \in Queued /\ job.after \in Nat /\ sw.users \subseteq 1..MaxRows /\ sw.job.pc = "idle"
  BY <1>1 DEF SweepRecord, Queued, TakeJob
<1>4. page \subseteq 1..MaxRows /\ \A u \in page : job.after < u
  BY <1>2, <1>3 DEF Paged, Past
<1>5. PICK hand : hand = [of |-> job, page |-> page, pc |-> "checking"]
  OBVIOUS
<1>6. hand \in AtHand /\ hand.of = job /\ hand.page = page /\ hand.pc = "checking"
  BY <1>3, <1>4, <1>5 DEF AtHand
<1>7. PICK sw2 : sw2 = [sw EXCEPT !.jobs = sw.jobs \ {job}, !.job = hand]
  OBVIOUS
<1>8. sweep' = sw2
  BY <1>1, <1>2, <1>5, <1>7, PageAfterIs DEF TakeJob
<1>9. /\ sw2 \in SweepRecord /\ sw2.users = sw.users /\ sw2.asked = sw.asked /\ sw2.checked = sw.checked
      /\ sw2.jobs = sw.jobs \ {job} /\ sw2.job = hand /\ sw2.failed = sw.failed
  BY <1>6, <1>7 DEF SweepRecord
<1>10. ASSUME NEW u \in sw2.asked PROVE Awaited(sw2, u)
  <2>1. Awaited(sw, u) /\ u \in sw.users
    BY <1>1, <1>9, <1>10 DEF SweepInv
  <2>2. CASE \/ u \in sw.checked
             \/ \E j \in (sw.jobs \ {job}) \cup sw.failed : ~j.passed /\ j.after < u
    BY <1>9, <2>2 DEF Awaited
  <2>3. CASE ~job.passed /\ job.after < u
    <3>1. u > job.after
      BY <2>3
    <3>2. Reached(page, u)
      BY <1>2, <1>3, <2>1, <3>1, PagesReach
    <3> QED
      BY <1>6, <1>9, <2>3, <3>2 DEF Awaited
  <2> QED
    BY <1>3, <2>1, <2>2, <2>3 DEF Awaited
<1> QED
  BY <1>1, <1>4, <1>6, <1>8, <1>9, <1>10 DEF SweepInv

LEMMA CheckPageKeeps ==
    ASSUME SweepInv, CheckPage
    PROVE  SweepInv'
<1>0. PICK job : job = sweep.job
  OBVIOUS
<1>1. PICK sw \in SweepRecord : sw = sweep
  BY DEF SweepInv
<1>2. /\ job.pc = "checking" /\ job.of \in Queued /\ job.of.after \in Nat /\ job.page \subseteq 1..MaxRows
      /\ \A u \in job.page : job.of.after < u
  BY <1>0, <1>1 DEF SweepInv, SweepRecord, AtHand, Queued, CheckPage
<1>3. PICK next : next = SweepJob(sw.enqueued + 1, Max(job.page))
  OBVIOUS
<1>4. PICK jobs, enqueued :
        /\ jobs = IF LastOfSweep(job) THEN sw.jobs ELSE sw.jobs \cup {next}
        /\ enqueued = IF LastOfSweep(job) THEN sw.enqueued ELSE sw.enqueued + 1
  OBVIOUS
<1>5. PICK hand : hand = [of |-> [job.of EXCEPT !.passed = TRUE], page |-> job.page, pc |-> "ending"]
  OBVIOUS
<1>6. Cardinality(job.page) \in Nat /\ (Cardinality(job.page) >= PageSize => job.page # {})
  <2>1. IsFiniteSet(1..MaxRows)
    BY FS_Interval, ListsAssumption
  <2>2. IsFiniteSet(job.page)
    BY <1>2, <2>1, FS_Subset
  <2>3. Cardinality(job.page) \in Nat
    BY <2>2, FS_CardinalityType
  <2> QED
    BY <2>3, NothingCounts, ListsAssumption
<1>7. job.page # {} => Max(job.page) \in job.page /\ Max(job.page) # job.of.after /\ Max(job.page) \in Nat
  <2> SUFFICES ASSUME job.page # {}
               PROVE  Max(job.page) \in job.page /\ Max(job.page) # job.of.after /\ Max(job.page) \in Nat
    OBVIOUS
  <2>1. Max(job.page) \in job.page
    BY <1>2, SomeGreatest
  <2> QED
    BY <1>2, <2>1
<1>8. ~LastOfSweep(job) => next \in Queued /\ next.after = Max(job.page) /\ ~next.passed
  <2>1. ~LastOfSweep(job) => job.page # {}
    BY <1>6, ListsAssumption DEF LastOfSweep
  <2>2. sw.enqueued + 1 \in Nat
    BY DEF SweepRecord
  <2> QED
    BY <1>3, <1>7, <2>1, <2>2, FreshJob
<1>9. jobs \in SUBSET Queued /\ sw.jobs \subseteq jobs /\ enqueued \in Nat
  <2>1. sw.jobs \subseteq Queued /\ sw.enqueued \in Nat
    BY DEF SweepRecord
  <2> QED
    BY <1>4, <1>8, <2>1
<1>10. hand \in AtHand /\ hand.pc = "ending" /\ hand.of.passed
  <2>1. [job.of EXCEPT !.passed = TRUE] \in Queued /\ [job.of EXCEPT !.passed = TRUE].passed
    BY <1>2 DEF Queued
  <2> QED
    BY <1>2, <1>5, <2>1 DEF AtHand
<1>11. PICK sw2 : sw2 = [sw EXCEPT !.checked = sw.checked \cup job.page, !.jobs = jobs,
                                   !.enqueued = enqueued, !.job = hand]
  OBVIOUS
<1>12. sweep' = sw2
  BY <1>0, <1>1, <1>3, <1>4, <1>5, <1>11 DEF CheckPage
<1>13. /\ sw2 \in SweepRecord /\ sw2.users = sw.users /\ sw2.asked = sw.asked
       /\ sw2.checked = sw.checked \cup job.page /\ sw2.jobs = jobs /\ sw2.job = hand
       /\ sw2.failed = sw.failed
  BY <1>2, <1>9, <1>10, <1>11 DEF SweepRecord
<1>14. ASSUME NEW u \in sw2.asked PROVE Awaited(sw2, u)
  <2>1. Awaited(sw, u) /\ u \in Nat
    BY <1>0, <1>1, <1>13, <1>14 DEF SweepInv, SweepRecord
  <2>2. CASE u \in sw.checked \/ u \in job.page
    BY <1>13, <2>2 DEF Awaited
  <2>3. CASE \E j \in sw.jobs \cup sw.failed : ~j.passed /\ j.after < u
    BY <1>9, <1>13, <2>3 DEF Awaited
  <2>4. CASE Cardinality(job.page) >= PageSize /\ \A v \in job.page : v < u
    <3>1. Max(job.page) \in job.page /\ Max(job.page) # job.of.after /\ Max(job.page) < u
      BY <1>6, <1>7, <2>4
    <3>2. ~LastOfSweep(job)
      BY <1>6, <2>4, <3>1, ListsAssumption DEF LastOfSweep
    <3>3. next \in sw2.jobs /\ next.after < u /\ ~next.passed
      BY <1>4, <1>8, <1>13, <3>1, <3>2
    <3> QED
      BY <3>3 DEF Awaited
  <2> QED
    BY <1>0, <1>1, <2>1, <2>2, <2>3, <2>4 DEF Awaited, Reached
<1> QED
  BY <1>1, <1>10, <1>12, <1>13, <1>14 DEF SweepInv

LEMMA EndJobKeeps ==
    ASSUME SweepInv, EndJob
    PROVE  SweepInv'
<1>1. PICK sw \in SweepRecord : sw = sweep
  BY DEF SweepInv
<1>2. PICK sw2 : sw2 = [sw EXCEPT !.job = NoJob]
  OBVIOUS
<1>3. /\ sweep' = sw2 /\ sw2 \in SweepRecord /\ sw2.users = sw.users /\ sw2.asked = sw.asked
      /\ sw2.checked = sw.checked /\ sw2.jobs = sw.jobs /\ sw2.failed = sw.failed /\ sw2.job.pc = "idle"
  BY <1>1, <1>2, NobodyAtHand DEF EndJob, SweepRecord
<1>4. \A u \in sw2.asked : Awaited(sw2, u)
  BY <1>1, <1>3 DEF SweepInv, EndJob, Awaited
<1> QED
  BY <1>1, <1>3, <1>4 DEF SweepInv

\* A job that is given back, to wait or to have failed, covers what it covered.
LEMMA GiveBackKeeps ==
    ASSUME SweepInv, NEW job \in Queued, NEW again \in BOOLEAN, GiveBack(job, again),
           job.after = sweep.job.of.after, job.passed = sweep.job.of.passed
    PROVE  SweepInv'
<1>1. PICK sw \in SweepRecord : sw = sweep
  BY DEF SweepInv
<1>2. PICK jobs, failed :
        /\ jobs = IF again THEN sw.jobs \cup {job} ELSE sw.jobs
        /\ failed = IF again THEN sw.failed ELSE sw.failed \cup {job}
  OBVIOUS
<1>3. /\ jobs \in SUBSET Queued /\ failed \in SUBSET Queued /\ sw.deaths + 1 \in Nat
      /\ jobs \cup failed = sw.jobs \cup sw.failed \cup {job}
  <2>1. sw.jobs \subseteq Queued /\ sw.failed \subseteq Queued /\ sw.deaths \in Nat
    BY DEF SweepRecord
  <2> QED
    BY <1>2, <2>1
<1>4. PICK sw2 : sw2 = [sw EXCEPT !.job = NoJob, !.deaths = sw.deaths + 1, !.jobs = jobs, !.failed = failed]
  OBVIOUS
<1>5. sweep' = sw2
  BY <1>1, <1>2, <1>4 DEF GiveBack
<1>6. /\ sw2 \in SweepRecord /\ sw2.users = sw.users /\ sw2.asked = sw.asked
      /\ sw2.checked = sw.checked /\ sw2.jobs = jobs /\ sw2.failed = failed /\ sw2.job.pc = "idle"
  BY <1>3, <1>4, NobodyAtHand DEF SweepRecord
<1>7. \A u \in sw2.asked : Awaited(sw2, u)
  BY <1>1, <1>3, <1>6 DEF SweepInv, Awaited
<1> QED
  BY <1>1, <1>5, <1>6, <1>7 DEF SweepInv

LEMMA LossKeeps ==
    ASSUME SweepInv, ThrowJob \/ StallJob
    PROVE  SweepInv'
<1>1. PICK job \in Queued : job = sweep.job.of
  BY DEF SweepInv, SweepRecord, AtHand
<1>2. CASE ThrowJob
  <2>1. PICK thrown : thrown = [job EXCEPT !.failures = @ + 1]
    OBVIOUS
  <2>2. thrown \in Queued /\ thrown.after = job.after /\ thrown.passed = job.passed
    BY <2>1 DEF Queued
  <2>3. GiveBack(thrown, TRUE) \/ GiveBack(thrown, FALSE)
    <3>1. CASE job.failures + 1 < MaxAttempts
      BY <1>1, <1>2, <2>1, <3>1 DEF ThrowJob, GiveBack
    <3>2. CASE ~(job.failures + 1 < MaxAttempts)
      BY <1>1, <1>2, <2>1, <3>2 DEF ThrowJob, GiveBack
    <3> QED
      BY <3>1, <3>2
  <2> QED
    BY <1>1, <2>2, <2>3, GiveBackKeeps
<1>3. CASE StallJob
  <2>1. PICK stalled : stalled = [job EXCEPT !.stalls = @ + 1]
    OBVIOUS
  <2>2. stalled \in Queued /\ stalled.after = job.after /\ stalled.passed = job.passed
    BY <2>1 DEF Queued
  <2>3. GiveBack(stalled, TRUE) \/ GiveBack(stalled, FALSE)
    <3>1. CASE job.stalls < MaxStalled
      BY <1>1, <1>3, <2>1, <3>1 DEF StallJob, GiveBack
    <3>2. CASE ~(job.stalls < MaxStalled)
      BY <1>1, <1>3, <2>1, <3>2 DEF StallJob, GiveBack
    <3> QED
      BY <3>1, <3>2
  <2> QED
    BY <1>1, <2>2, <2>3, GiveBackKeeps
<1> QED
  BY <1>2, <1>3

LEMMA SignUpKeeps ==
    ASSUME SweepInv, NEW u \in 1..MaxRows, SignUp(u)
    PROVE  SweepInv'
<1>1. PICK sw \in SweepRecord : sw = sweep
  BY DEF SweepInv
<1>2. PICK sw2 : sw2 = [sw EXCEPT !.users = @ \cup {u}]
  OBVIOUS
<1>3. /\ sweep' = sw2 /\ sw2 \in SweepRecord /\ sw2.users = sw.users \cup {u} /\ sw2.asked = sw.asked
      /\ sw2.checked = sw.checked /\ sw2.jobs = sw.jobs /\ sw2.job = sw.job /\ sw2.failed = sw.failed
  BY <1>1, <1>2 DEF SignUp, SweepRecord
<1>4. \A v \in sw2.asked : Awaited(sw2, v)
  BY <1>1, <1>3 DEF SweepInv, Awaited
<1> QED
  BY <1>1, <1>3, <1>4 DEF SweepInv

LEMMA SweepStep == SweepInv /\ [ListsNext \/ SweepNext]_listVars => SweepInv'
<1> SUFFICES ASSUME SweepInv, [ListsNext \/ SweepNext]_listVars PROVE SweepInv'
  OBVIOUS
<1>1. CASE UNCHANGED sweep
  BY <1>1 DEF SweepInv
<1>2. ListsNext => UNCHANGED sweep
  BY DEF ListsNext, OpenList, ReadItems, CountTotal, ShowPage, TurnPage, AddRow, MoveRow
<1> QED
  BY <1>1, <1>2, TickKeeps, TakeJobKeeps, CheckPageKeeps, EndJobKeeps, LossKeeps, SignUpKeeps
     DEF SweepNext, listVars

\* When the night's sweep has run out of jobs, every balance that existed at the
\* tick has been looked at or comes after the cursor of a job that failed for good
\* and never got through its page, for pages of any size and any number of users,
\* of attempts and of stalls, however many registered meanwhile
\* (findUsersToReconcile, sweep, defaultJobOptions).
THEOREM SweepIsWhole == ListsSpec => []SweepSkipsNobody
<1>1. ListsInit => SweepInv
  <2> SUFFICES ASSUME ListsInit PROVE SweepInv
    OBVIOUS
  <2>1. /\ sweep = [users |-> {}, asked |-> {}, enqueued |-> 0, jobs |-> {}, job |-> NoJob,
                    checked |-> {}, failed |-> {}, deaths |-> 0]
        /\ NoJob \in AtHand /\ NoJob.pc = "idle"
    BY NobodyAtHand DEF ListsInit
  <2> QED
    BY <2>1 DEF SweepInv, SweepRecord
<1>2. SweepInv /\ [ListsNext \/ SweepNext]_listVars => SweepInv'
  BY SweepStep
<1>3. SweepInv => SweepSkipsNobody
  BY DEF SweepInv, Awaited, SweepSkipsNobody
<1> QED
  BY <1>1, <1>2, <1>3, PTL DEF ListsSpec

-----------------------------------------------------------------------------
(* The screens side by side.                                               *)

\* Whatever part moves, each sees a step of its own, or none.
LEMMA ScreensAlone ==
    ScreensSpec => WebSpec /\ WithdrawalsSpec /\ ListsSpec /\ ConsolesSpec /\ WallSpec
<1>1. ScreensInit => WebInit /\ WithdrawalsInit /\ ListsInit /\ ConsolesInit /\ WallInit
  BY DEF ScreensInit
<1>2. [ScreensNext]_screenVars =>
         /\ [WebNext]_webVars /\ [WithdrawalsNext]_withdrawalVars
         /\ [ListsNext \/ SweepNext]_listVars
         /\ [ConsolesNext]_consoleVars /\ [WallNext]_wallVars
  BY DEF ScreensNext, screenVars
<1> QED
  BY <1>1, <1>2, PTL DEF ScreensSpec, WebSpec, WithdrawalsSpec, ListsSpec, ConsolesSpec, WallSpec

\* What each screen promises holds where they are run side by side, as the
\* instances of Screens are, whichever of them moves: of sessions and links, of
\* withdrawals, of lists and the sweep, of the consoles and of the wall.
THEOREM ScreensHold ==
    ScreensSpec =>
        /\ []AnAdminAlwaysRemains /\ []ForksOverlap /\ []LinksDoTheirOwn /\ []TrailTellsStanding
        /\ ClearedIsDead
        /\ []CapIsKept /\ []FormsTellTheTruth
        /\ []WalksMissLittle /\ []SweepSkipsNobody
        /\ []ConsolesTellTheTruth
        /\ []WallKeepsItsWord /\ []PricedTogether
  BY ScreensAlone, AdminsRemain, ForksAreOverlaps, LinksDo, TrailIsTrue, ClearedWasDead,
     CapKept, FormsAreTrue, WalksAreWhole, SweepIsWhole, ConsolesAreTrue, WordKept, OneSetOfRates, PTL
=============================================================================
