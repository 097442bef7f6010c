--------------------------------- MODULE Desk ---------------------------------
(***************************************************************************)
(* The administrators' screens of the web application: a payout request, a *)
(* held conversion and an account, each with the buttons it offers, and    *)
(* what the API answers when one is pressed (payout-queue.ts, fraud.ts,    *)
(* users.ts and the routes that use them).                                 *)
(*                                                                         *)
(* A page shows what it was loaded with, and others decide meanwhile: the  *)
(* tab of one administrator is followed, every other is a call of the API. *)
(* A call is one step here; what happens within one is Payouts,            *)
(* Conversions and Accounts.                                               *)
(***************************************************************************)
EXTENDS FiniteSets

CONSTANTS
    Person,     \* accounts
    Me,         \* whose tab it is
    Payout,     \* payout requests
    Held,       \* conversions that were held
    Closed      \* a tab with no page

ASSUME DeskAssumption ==
    /\ Me \in Person
    /\ Person \cap Payout = {} /\ Person \cap Held = {} /\ Payout \cap Held = {}

VARIABLES
    records,    \* what the database has of each
    page        \* what the tab shows, and what it said last

deskVars == <<records, page>>

-----------------------------------------------------------------------------
Subjects == Person \cup Payout \cup Held

PayoutStatuses == {"PENDING_REVIEW", "APPROVED", "PAID", "REJECTED", "FAILED"}
UserStatuses == {"ACTIVE", "SUSPENDED", "BANNED", "CLOSED"}
UserRoles == {"USER", "ADMIN"}

Button(field, to, text) == [field |-> field, to |-> to, text |-> text]

\* The forms of ReviewActions, HeldConversion and UserActions, and whether the
\* API insists on a reason or a reference.
PayoutForms   == {Button("status", to, to # "APPROVED") : to \in PayoutStatuses \ {"PENDING_REVIEW"}}
HoldForms     == {Button("status", to, TRUE) : to \in {"CREDITED", "REJECTED"}}
StandingForms == {Button("status", to, TRUE) : to \in UserStatuses}
RoleForms     == {Button("role", to, TRUE) : to \in UserRoles}

Buttons(s) ==
    CASE s \in Payout -> PayoutForms
      [] s \in Held -> HoldForms
      [] s \in Person -> StandingForms \cup RoleForms

-----------------------------------------------------------------------------
(* The screens *)

\* Mutant of ActionsFor: what is decided can be paid.
ActionsForEarly(status) ==
    CASE status = "PENDING_REVIEW" -> {"APPROVED", "REJECTED", "PAID"}
      [] status = "APPROVED" -> {"PAID", "FAILED"}
      [] OTHER -> {}

ActionsFor(status) ==
    CASE status = "PENDING_REVIEW" -> {"APPROVED", "REJECTED"}
      [] status = "APPROVED" -> {"PAID", "FAILED"}
      [] OTHER -> {}

IsSelf(s) == s = Me

\* statusChangesFor and roleChangeFor: whatever the account is not.
ChangesFor(s, shown) ==
    IF IsSelf(s) THEN {} ELSE {b \in Buttons(s) : shown[b.field] # b.to}

\* The buttons of a page.  The queue lists only what is held.
Offered(s, shown) ==
    CASE s \in Payout -> {b \in Buttons(s) : b.to \in ActionsFor(shown.status)}
      [] s \in Held -> IF shown.status = "HELD" THEN Buttons(s) ELSE {}
      [] s \in Person -> ChangesFor(s, shown)

-----------------------------------------------------------------------------
(* The API *)

IsActiveAdmin(u) == records[u].status = "ACTIVE" /\ records[u].role = "ADMIN"

\* assertTransition of a payout, resolveHold, canTransition of an account and
\* the role that is not the one already.
Permitted(s, b) ==
    CASE s \in Payout -> <<records[s].status, b.to>> \in
                              {<<"PENDING_REVIEW", "APPROVED">>, <<"PENDING_REVIEW", "REJECTED">>,
                               <<"APPROVED", "PAID">>, <<"APPROVED", "FAILED">>}
      [] s \in Held -> records[s].status = "HELD"
      [] s \in Person -> /\ records[s][b.field] # b.to
                         /\ b.field = "status" => records[s].status # "CLOSED"

\* The guards, the pipe and the service, in their order.
Answer(by, s, b, text) ==
    IF ~IsActiveAdmin(by) THEN "forbidden"
    ELSE IF b.text /\ ~text THEN "incomplete"
    ELSE IF s = by THEN "forbidden"
    ELSE IF Permitted(s, b) THEN "done" ELSE "conflict"

Record(s, b) == records' = [records EXCEPT ![s][b.field] = b.to]

-----------------------------------------------------------------------------
Shows(s, shown, said) == [of |-> s, shown |-> shown, said |-> said]

\* The layout turns away whoever is no administrator, and every load asks.
Open(s) ==
    /\ page' = IF IsActiveAdmin(Me) THEN Shows(s, records[s], "nothing") ELSE Closed
    /\ UNCHANGED records

\* What was done is loaded again; a refusal leaves the page as it was, or a
\* browser without scripts loads it with the refusal.
Press(b, text) ==
    LET s == page.of
        answer == Answer(Me, s, b, text) IN
    /\ page # Closed /\ b \in Offered(s, page.shown)
    /\ IF answer = "done" THEN Record(s, b) ELSE UNCHANGED records
    /\ page' \in {Shows(s, records'[s], answer)} \cup
                 (IF answer = "done" THEN {} ELSE {Shows(s, page.shown, answer)})

\* Another administrator decides.
Elsewhere(by, s, b) ==
    /\ by # Me /\ Answer(by, s, b, TRUE) = "done"
    /\ Record(s, b)
    /\ UNCHANGED page

\* A chargeback takes back what is held.
TakeBack(s) ==
    /\ records[s].status = "HELD"
    /\ records' = [records EXCEPT ![s].status = "REVERSED"]
    /\ UNCHANGED page

DeskInit ==
    /\ records = [s \in Subjects |-> IF s \in Payout THEN [status |-> "PENDING_REVIEW"]
                                     ELSE IF s \in Held THEN [status |-> "HELD"]
                                     ELSE [status |-> "ACTIVE", role |-> "ADMIN"]]
    /\ page = Closed

DeskNext ==
    \/ \E s \in Subjects : Open(s)
    \/ page # Closed /\ \E b \in Buttons(page.of), text \in BOOLEAN : Press(b, text)
    \/ \E by \in Person, s \in Subjects : \E b \in Buttons(s) : Elsewhere(by, s, b)
    \/ \E s \in Held : TakeBack(s)

DeskSpec == DeskInit /\ [][DeskNext]_deskVars

-----------------------------------------------------------------------------
(* Properties *)

\* Between a page and the machine behind it (actionsFor, FRAUD_DECISIONS,
\* statusChangesFor): what a button did to a request or a hold, it did to the
\* state its page showed, however old the page; a conflict tells of a page that
\* is old, but for an account that is closed; a refusal tells of an
\* administrator who no longer is one; and a page that is not old offers
\* everything the API would do for its reader.
PagesTellTheTruth ==
    [][page # Closed =>
          LET s == page.of IN
          /\ \A b \in Offered(s, page.shown), text \in BOOLEAN :
                Press(b, text) =>
                   /\ page'.said = "done" /\ s \notin Person => records[s] = page.shown
                   /\ page'.said = "conflict" => records[s] # page.shown \/ records[s].status = "CLOSED"
                   /\ page'.said = "forbidden" => ~IsActiveAdmin(Me)
          /\ records[s] = page.shown =>
                {b \in Buttons(s) : Answer(Me, s, b, TRUE) = "done"} \subseteq Offered(s, page.shown)]_deskVars
=============================================================================
