------------------------------ MODULE Accounts ------------------------------
(***************************************************************************)
(* Accounts and their sessions: AuthService, TokenService,                 *)
(* VerificationService, UsersService and AdminUsersService.                *)
(*                                                                         *)
(* A request handler is a caller.  What it read before a write may be      *)
(* stale when it writes: a rotation reads the token and the account, and   *)
(* only then opens the transaction that spends the token and issues its    *)
(* successor; a login reads the account and inserts the session later.     *)
(* Administrators' changes of role and standing run in transactions that   *)
(* first lock every active administrator FOR UPDATE, and a password reset  *)
(* in one that spends its link, sets the password and revokes sessions.    *)
(*                                                                         *)
(* Tokens and links are sequences: an id is a position, and Len(tokens)    *)
(* dates a read.  Passwords are counted, never compared by content.  An    *)
(* insert that references an administrator's locked row does not wait      *)
(* here, which only allows more interleavings.                             *)
(***************************************************************************)
EXTENDS Integers, FiniteSets, Sequences, SequencesExt

CONSTANTS
    User,
    Caller,
    InitialAdmins,
    Standings,      \* the values of user_status in play
    MaxRequests     \* bound on the requests made and the clocks run out

ASSUME AccountsAssumption ==
    /\ InitialAdmins \subseteq User
    /\ InitialAdmins # {}
    /\ "ACTIVE" \in Standings
    /\ "NONE" \notin Standings
    /\ MaxRequests \in Nat

VARIABLES
    users,      \* users, with "NONE" as the status of an address not registered
    tokens,     \* refresh_tokens
    links,      \* verification_tokens
    held,       \* the rows of users each caller's transaction has locked
    req,        \* where each caller stands
    audit,      \* admin_audit_log, the entries about roles and standings
    left        \* how many more requests are made

vars == <<users, tokens, links, held, req, audit, left>>

-----------------------------------------------------------------------------
Roles    == {"USER", "ADMIN"}
Purposes == {"EMAIL_VERIFICATION", "PASSWORD_RESET"}

Account == [role : Roles, status : Standings \cup {"NONE"}, password : Nat, verified : BOOLEAN]

\* refresh_tokens: parent is 0 for the first of a family and at dates the read
\* its issuer acted on; the family is named by its first token.
Token == [user : User, family : Nat, parent : Nat, at : Nat,
          used : BOOLEAN, revoked : BOOLEAN, expired : BOOLEAN]

\* verification_tokens.
Link == [user : User, purpose : Purposes, used : BOOLEAN, expired : BOOLEAN]

IsActive(u)      == users[u].status = "ACTIVE"
IsRegistered(u)  == users[u].status # "NONE"
ActiveAdmins(us) == {u \in User : us[u].role = "ADMIN" /\ us[u].status = "ACTIVE"}

Live(t) == ~tokens[t].used /\ ~tokens[t].revoked /\ ~tokens[t].expired

Idle == [op |-> "idle"]

\* Nobody else's transaction has the row.
Unlocked(c, us) == \A d \in Caller \ {c} : held[d] \cap us = {}

\* What an open transaction will revoke, and the rows it therefore holds.
Revoking(d) == IF req[d].op \in {"changed", "resetting"} THEN req[d].revoking ELSE {}
UnlockedTokens(c, ts) == \A d \in Caller \ {c} : Revoking(d) \cap ts = {}

Begin(c, state) == req' = [req EXCEPT ![c] = state]
End(c)          == Begin(c, Idle)

\* One more request, or one more clock that runs out.
Spend == left > 0 /\ left' = left - 1
Start(c) == req[c] = Idle /\ Spend
Answer(c, status, token) == Begin(c, [op |-> "answered", status |-> status, token |-> token])

\* The rows of a user, or of a family, that are not revoked yet.
TokensOf(u)       == {t \in DOMAIN tokens : tokens[t].user = u /\ ~tokens[t].revoked}
TokensOfFamily(f) == {t \in DOMAIN tokens : tokens[t].family = f /\ ~tokens[t].revoked}

Revoked(ts) ==
    [t \in DOMAIN tokens |-> IF t \in ts THEN [tokens[t] EXCEPT !.revoked = TRUE] ELSE tokens[t]]

\* issueInFamily: one more live token.
WithToken(ts, u, family, parent, at) ==
    Append(ts, [user |-> u, family |-> family, parent |-> parent, at |-> at,
                used |-> FALSE, revoked |-> FALSE, expired |-> FALSE])

-----------------------------------------------------------------------------
(* Registration and login *)

\* users.create: the unique address admits one account, opened together with
\* its balance (RewardLedger).
Register(c, u) ==
    /\ Start(c)
    /\ ~IsRegistered(u)
    /\ users' = [users EXCEPT ![u].status = "ACTIVE"]
    /\ Begin(c, [op |-> "welcoming", user |-> u])
    /\ UNCHANGED <<tokens, links, held, audit>>

\* sendVerificationEmail: the link is stored or not, registration goes on.
SendVerificationEmail(c) ==
    /\ req[c].op = "welcoming"
    /\ \/ links' = Append(links, [user |-> req[c].user, purpose |-> "EMAIL_VERIFICATION",
                                  used |-> FALSE, expired |-> FALSE])
       \/ UNCHANGED links
    /\ Begin(c, [op |-> "issuing", user |-> req[c].user, at |-> Len(tokens)])
    /\ UNCHANGED <<users, tokens, held, audit, left>>

\* login with the right password; one read gives the hash and the standing.
Login(c, u) ==
    /\ Start(c)
    /\ IsActive(u)
    /\ Begin(c, [op |-> "issuing", user |-> u, at |-> Len(tokens)])
    /\ UNCHANGED <<users, tokens, links, held, audit>>

\* issueSession: a family of its own.
IssueSession(c) ==
    /\ req[c].op = "issuing"
    /\ tokens' = WithToken(tokens, req[c].user, Len(tokens) + 1, 0, req[c].at)
    /\ Answer(c, "ok", Len(tokens) + 1)
    /\ UNCHANGED <<users, links, held, audit, left>>

-----------------------------------------------------------------------------
(* Refresh and logout *)

\* Mutant of Presented: the check for reuse is gone.
PresentedAgain(t) ==
    IF tokens[t].expired THEN [op |-> "answered", status |-> "refused", token |-> t]
    ELSE IF ~IsActive(tokens[t].user) THEN [op |-> "revokingAll", token |-> t]
    ELSE [op |-> "rotating", token |-> t, at |-> Len(tokens)]

\* rotate, up to its transaction: what the stored token and its account say.
Presented(t) ==
    IF tokens[t].used THEN [op |-> "revokingFamily", token |-> t]
    ELSE IF tokens[t].revoked \/ tokens[t].expired
        THEN [op |-> "answered", status |-> "refused", token |-> t]
    ELSE IF ~IsActive(tokens[t].user) THEN [op |-> "revokingAll", token |-> t]
    ELSE [op |-> "rotating", token |-> t, at |-> Len(tokens)]

Refresh(c, t) ==
    /\ Start(c)
    /\ Begin(c, Presented(t))
    /\ UNCHANGED <<users, tokens, links, held, audit>>

\* The transaction: the token is spent, whatever has become of it, and its
\* successor issued.
Rotate(c) ==
    LET t == req[c].token IN
    /\ req[c].op = "rotating"
    /\ UnlockedTokens(c, {t})
    /\ tokens' = WithToken([tokens EXCEPT ![t].used = TRUE, ![t].revoked = TRUE],
                           tokens[t].user, tokens[t].family, t, req[c].at)
    /\ Answer(c, "ok", Len(tokens) + 1)
    /\ UNCHANGED <<users, links, held, audit, left>>

\* revokeByToken, up to the update.
RevokeByToken(c, t) ==
    /\ Start(c)
    /\ ~tokens[t].revoked
    /\ Begin(c, [op |-> "leaving", token |-> t])
    /\ UNCHANGED <<users, tokens, links, held, audit>>

\* revokeFamily, for reuse and for a logout.
RevokeFamily(c) ==
    LET ts == TokensOfFamily(tokens[req[c].token].family) IN
    /\ req[c].op \in {"revokingFamily", "leaving"}
    /\ UnlockedTokens(c, ts)
    /\ tokens' = Revoked(ts)
    /\ Answer(c, IF req[c].op = "leaving" THEN "ok" ELSE "refused", req[c].token)
    /\ UNCHANGED <<users, links, held, audit, left>>

\* revokeAllForUser, when an inactive account tries to refresh.
RevokeAllForUser(c) ==
    LET ts == TokensOf(tokens[req[c].token].user) IN
    /\ req[c].op = "revokingAll"
    /\ UnlockedTokens(c, ts)
    /\ tokens' = Revoked(ts)
    /\ Answer(c, "refused", req[c].token)
    /\ UNCHANGED <<users, links, held, audit, left>>

-----------------------------------------------------------------------------
(* Links *)

\* requestPasswordReset: silent for an address that is unknown or inactive.
RequestPasswordReset(u) ==
    /\ Spend
    /\ IsActive(u)
    /\ links' = Append(links, [user |-> u, purpose |-> "PASSWORD_RESET",
                               used |-> FALSE, expired |-> FALSE])
    /\ UNCHANGED <<users, tokens, held, req, audit>>

\* Mutant of Spendable: used links are not excluded.
SpendableAgain(l, purpose) == links[l].purpose = purpose /\ ~links[l].expired

\* consume's WHERE clause.
Spendable(l, purpose) == links[l].purpose = purpose /\ ~links[l].used /\ ~links[l].expired

\* Another reset's transaction has spent the link and not committed.
Spending(l) == \E d \in Caller : req[d].op = "resetting" /\ req[d].link = l

\* confirmEmail spends the link in a statement of its own,
ConsumeVerification(c, l) ==
    /\ Start(c)
    /\ Spendable(l, "EMAIL_VERIFICATION")
    /\ ~Spending(l)
    /\ links' = [links EXCEPT ![l].used = TRUE]
    /\ Begin(c, [op |-> "verifying", user |-> links[l].user])
    /\ UNCHANGED <<users, tokens, held, audit>>

\* and marks the address in another.
ConfirmEmail(c) ==
    LET u == req[c].user IN
    /\ req[c].op = "verifying"
    /\ Unlocked(c, {u})
    /\ users' = [users EXCEPT ![u].verified = TRUE]
    /\ End(c)
    /\ UNCHANGED <<tokens, links, held, audit, left>>

\* resetPassword's transaction: the link, the password and the sessions are
\* written and their rows held;
ConsumePasswordReset(c, l) ==
    LET u == links[l].user IN
    /\ Start(c)
    /\ Spendable(l, "PASSWORD_RESET")
    /\ ~Spending(l)
    /\ Unlocked(c, {u})
    /\ UnlockedTokens(c, TokensOf(u))
    /\ Begin(c, [op |-> "resetting", link |-> l, revoking |-> TokensOf(u)])
    /\ held' = [held EXCEPT ![c] = {u}]
    /\ UNCHANGED <<users, tokens, links, audit>>

\* and committed together.
ResetPassword(c) ==
    LET l == req[c].link IN
    /\ req[c].op = "resetting"
    /\ links' = [links EXCEPT ![l].used = TRUE]
    /\ users' = [users EXCEPT ![links[l].user].password = @ + 1]
    /\ tokens' = Revoked(req[c].revoking)
    /\ held' = [held EXCEPT ![c] = {}]
    /\ End(c)
    /\ UNCHANGED <<audit, left>>

-----------------------------------------------------------------------------
(* Administration *)

\* JwtAuthGuard and RolesGuard: read from the account on every request.
MayAdminister(a) == users[a].role = "ADMIN" /\ IsActive(a)

\* setStatus and setRole up to their transaction: nobody acts on themselves,
\* and what the account was is read outside it.
OpenChange(c, a, u, column, to) ==
    /\ Start(c)
    /\ MayAdminister(a)
    /\ a # u
    /\ IsRegistered(u)
    /\ to \in IF column = "role" THEN Roles ELSE Standings
    /\ Begin(c, [op |-> "changing", user |-> u, column |-> column, to |-> to,
                 before |-> users[u][column], revoking |-> {}])
    /\ UNCHANGED <<users, tokens, links, held, audit>>

\* Mutant of LockSet: nothing is locked.
LockSetEmpty(us) == {}

\* The rows every decision about the last administrator is made from.
LockSet(us) == ActiveAdmins(us)

LockActiveAdmins(c) ==
    /\ req[c].op = "changing"
    /\ Unlocked(c, LockSet(users))
    /\ held' = [held EXCEPT ![c] = LockSet(users)]
    /\ Begin(c, [req[c] EXCEPT !.op = "locked"])
    /\ UNCHANGED <<users, tokens, links, audit, left>>

\* canTransition, and for both columns the refusal to change nothing.
CanTransition(column, from, to) == from # to /\ ~(column = "status" /\ from = "CLOSED")

Changed(r) ==
    IF r.column = "role" THEN [users EXCEPT ![r.user].role = r.to]
    ELSE [users EXCEPT ![r.user].status = r.to]

\* assertAnAdminRemains, counted over the world being proposed.
AnAdminRemains(us) == ActiveAdmins(us) # {}

Permitted(r) ==
    /\ CanTransition(r.column, users[r.user][r.column], r.to)
    /\ AnAdminRemains(Changed(r))

\* Whose sessions the change ends: setStatus revokes, setRole does not.
Ended(r) == IF r.column = "status" /\ r.to # "ACTIVE" THEN TokensOf(r.user) ELSE {}

\* updateStatus and updateRole under the lock, then revokeAllForUser.
Change(c) ==
    LET r == req[c] IN
    /\ r.op = "locked"
    /\ Unlocked(c, {r.user})
    /\ Permitted(r)
    /\ UnlockedTokens(c, Ended(r))
    /\ held' = [held EXCEPT ![c] = @ \cup {r.user}]
    /\ Begin(c, [r EXCEPT !.op = "changed", !.revoking = Ended(r)])
    /\ UNCHANGED <<users, tokens, links, audit, left>>

\* record: what it was, and what it became.
AuditEntry(r) == [user |-> r.user, column |-> r.column, before |-> r.before, after |-> r.to]

\* Mutant of RefuseChange: the entry is not written in the transaction.
RefuseChangeTold(c) ==
    /\ req[c].op = "locked"
    /\ Unlocked(c, {req[c].user})
    /\ ~Permitted(req[c])
    /\ audit' = Append(audit, AuditEntry(req[c]))
    /\ held' = [held EXCEPT ![c] = {}]
    /\ End(c)
    /\ UNCHANGED <<users, tokens, links, left>>

\* A refused change rolls back.
RefuseChange(c) ==
    /\ req[c].op = "locked"
    /\ Unlocked(c, {req[c].user})
    /\ ~Permitted(req[c])
    /\ held' = [held EXCEPT ![c] = {}]
    /\ End(c)
    /\ UNCHANGED <<users, tokens, links, audit, left>>

\* The audit entry, and the commit.
CommitChange(c) ==
    LET r == req[c] IN
    /\ r.op = "changed"
    /\ users' = Changed(r)
    /\ tokens' = Revoked(r.revoking)
    /\ audit' = Append(audit, AuditEntry(r))
    /\ held' = [held EXCEPT ![c] = {}]
    /\ End(c)
    /\ UNCHANGED <<links, left>>

\* revokeSessions: the standing stays, the sessions end.
RevokeSessions(a, u) ==
    /\ Spend
    /\ MayAdminister(a)
    /\ IsRegistered(u)
    /\ \A d \in Caller : Revoking(d) \cap TokensOf(u) = {}
    /\ TokensOf(u) # {}
    /\ tokens' = Revoked(TokensOf(u))
    /\ UNCHANGED <<users, links, held, req, audit>>

\* create-admin promotes an account outside any handler.
ProvisionAdmin(u) ==
    /\ Spend
    /\ IsRegistered(u)
    /\ users[u].role # "ADMIN"
    /\ \A d \in Caller : u \notin held[d]
    /\ users' = [users EXCEPT ![u].role = "ADMIN"]
    /\ UNCHANGED <<tokens, links, held, req, audit>>

-----------------------------------------------------------------------------
(* The caller gets its answer; handlers crash; time passes *)

\* The response reaches whoever asked.
Return(c) ==
    /\ req[c].op = "answered"
    /\ End(c)
    /\ UNCHANGED <<users, tokens, links, held, audit, left>>

\* The process dies or the connection breaks: an open transaction rolls back.
Crash(c) ==
    /\ req[c].op \notin {"idle", "answered"}
    /\ held' = [held EXCEPT ![c] = {}]
    /\ End(c)
    /\ UNCHANGED <<users, tokens, links, audit, left>>

Expire(t) ==
    /\ Spend
    /\ ~tokens[t].expired
    /\ tokens' = [tokens EXCEPT ![t].expired = TRUE]
    /\ UNCHANGED <<users, links, held, req, audit>>

ExpireLink(l) ==
    /\ Spend
    /\ ~links[l].expired
    /\ links' = [links EXCEPT ![l].expired = TRUE]
    /\ UNCHANGED <<users, tokens, held, req, audit>>

-----------------------------------------------------------------------------
Init ==
    /\ users = [u \in User |->
                  [role |-> IF u \in InitialAdmins THEN "ADMIN" ELSE "USER",
                   status |-> IF u \in InitialAdmins THEN "ACTIVE" ELSE "NONE",
                   password |-> 0, verified |-> FALSE]]
    /\ tokens = <<>> /\ links = <<>> /\ audit = <<>>
    /\ held = [c \in Caller |-> {}]
    /\ req = [c \in Caller |-> Idle]
    /\ left = MaxRequests

\* The steps of a request after its first.
Proceed(c) ==
    \/ SendVerificationEmail(c) \/ IssueSession(c)
    \/ Rotate(c) \/ RevokeFamily(c) \/ RevokeAllForUser(c)
    \/ ConfirmEmail(c) \/ ResetPassword(c)
    \/ LockActiveAdmins(c) \/ Change(c) \/ RefuseChange(c) \/ CommitChange(c)
    \/ Crash(c)

\* Links and administration.
Manage(c) ==
    \/ \E l \in DOMAIN links : ConsumeVerification(c, l) \/ ConsumePasswordReset(c, l)
    \/ \E a, u \in User, column \in {"role", "status"}, to \in Roles \cup Standings :
          OpenChange(c, a, u, column, to)

Environment ==
    \/ \E u \in User : RequestPasswordReset(u) \/ ProvisionAdmin(u)
    \/ \E a, u \in User : RevokeSessions(a, u)
    \/ \E t \in DOMAIN tokens : Expire(t)
    \/ \E l \in DOMAIN links : ExpireLink(l)

=============================================================================
