----------------------------- MODULE WebSession -----------------------------
(***************************************************************************)
(* The whole of signing in: a browser with one cookie, the web server that *)
(* acts for its tabs (apiAuthed, establishSession and endSession), other   *)
(* clients, and the accounts behind them.                                  *)
(*                                                                         *)
(* The access token is not modelled: that a tab is told 401 and refreshes  *)
(* may happen at any time.  A tab acts on the session it read when its     *)
(* request began, and writes the cookie when its own answer arrives.       *)
(***************************************************************************)
EXTENDS Accounts

VARIABLES
    cookie,     \* the refresh token in the browser's cookie, 0 for none
    tab         \* what the web server awaits for each of its requests

webVars == <<vars, cookie, tab>>

\* Nothing; the answer to a login; the answer to a refresh of that token; or to
\* the call that is retried after it, with what it issued.
Quiet == [awaits |-> "nothing"]

-----------------------------------------------------------------------------
\* establishSession: login and registration.
EstablishSession(c, u) ==
    /\ tab[c] = Quiet
    /\ Login(c, u) \/ Register(c, u)
    /\ tab' = [tab EXCEPT ![c] = [awaits |-> "session", token |-> 0]]
    /\ UNCHANGED cookie

\* apiAuthed, told 401: refreshSession presents the cookie it has read.
RefreshSession(c) ==
    /\ tab[c] = Quiet
    /\ cookie # 0
    /\ Refresh(c, cookie)
    /\ tab' = [tab EXCEPT ![c] = [awaits |-> "refresh", token |-> cookie]]
    /\ UNCHANGED cookie

\* writeSession of a login: the cookie reaches the browser with the answer.
Accepted(c) ==
    /\ tab[c].awaits = "session"
    /\ req[c].op = "answered" /\ req[c].status = "ok"
    /\ cookie' = req[c].token
    /\ tab' = [tab EXCEPT ![c] = Quiet]
    /\ Return(c)

\* The refresh succeeded: the call goes out again with what it issued, and the
\* browser, which waits for that one answer, still has the old cookie.
Refreshed(c) ==
    /\ tab[c].awaits = "refresh"
    /\ req[c].op = "answered" /\ req[c].status = "ok"
    /\ tab' = [tab EXCEPT ![c] = [awaits |-> "retry", token |-> tab[c].token,
                                  issued |-> req[c].token]]
    /\ Return(c)
    /\ UNCHANGED cookie

\* The second answer is no 401: the browser is told of the new session.
Retried(c) ==
    /\ tab[c].awaits = "retry"
    /\ cookie' = tab[c].issued
    /\ tab' = [tab EXCEPT ![c] = Quiet]
    /\ UNCHANGED vars

\* The second answer is a 401 too, of the access token and never of the token
\* just issued with it: clearSession all the same.
RefusedAgain(c) ==
    /\ tab[c].awaits = "retry"
    /\ cookie' = 0
    /\ tab' = [tab EXCEPT ![c] = Quiet]
    /\ UNCHANGED vars

\* Mutant of Transient: every failure ends the session.
TransientNever(c) == FALSE

\* refreshSession's verdict on what is no success: 429, 5xx and silence say
\* nothing about the token.
Transient(c) == req[c] = Idle

\* clearSession: of the refreshes that fail, only a refused one ends the session.
Ended401(c) ==
    /\ tab[c].awaits = "refresh"
    /\ req[c] = Idle \/ (req[c].op = "answered" /\ req[c].status = "refused")
    /\ ~Transient(c)
    /\ cookie' = 0
    /\ tab' = [tab EXCEPT ![c] = Quiet]
    /\ IF req[c] = Idle THEN UNCHANGED vars ELSE Return(c)

\* The answer never comes, or comes as a failure that says nothing.
Unanswered(c) ==
    /\ tab[c] # Quiet
    /\ \/ req[c] = Idle /\ UNCHANGED vars
       \/ Return(c)
    /\ tab' = [tab EXCEPT ![c] = Quiet]
    /\ UNCHANGED cookie

\* endSession: the cookie goes first; the API may never hear of it.
EndSession(c) ==
    /\ tab[c] = Quiet
    /\ cookie # 0
    /\ cookie' = 0
    /\ RevokeByToken(c, cookie) \/ UNCHANGED vars
    /\ UNCHANGED tab

\* A client without a browser, which may hold any token it was ever given.
OtherClient(c) ==
    /\ tab[c] = Quiet
    /\ (\E t \in DOMAIN tokens : Refresh(c, t)) \/ Return(c)
    /\ UNCHANGED <<cookie, tab>>

-----------------------------------------------------------------------------
Web(c) ==
    \/ \E u \in User : EstablishSession(c, u)
    \/ RefreshSession(c) \/ Accepted(c) \/ Refreshed(c) \/ Retried(c) \/ RefusedAgain(c)
    \/ Ended401(c) \/ Unanswered(c) \/ EndSession(c)
    \/ OtherClient(c)

WebInit == Init /\ cookie = 0 /\ tab = [c \in Caller |-> Quiet]

WebNext ==
    \/ \E c \in Caller : Web(c)
    \/ /\ (\E c \in Caller : (tab[c] = Quiet /\ Manage(c)) \/ Proceed(c)) \/ Environment
       /\ UNCHANGED <<cookie, tab>>

WebSpec == WebInit /\ [][WebNext]_webVars

-----------------------------------------------------------------------------
(* Properties *)

\* Every state component has its shape.
TypeOK ==
    /\ users \in [User -> Account]
    /\ tokens \in Seq(Token)
    /\ links \in Seq(Link)
    /\ held \in [Caller -> SUBSET User]
    /\ DOMAIN req = Caller
    /\ cookie \in 0..Len(tokens)
    /\ \A c \in Caller :
          /\ tab[c] = Quiet \/ tab[c].token \in 0..Len(tokens)
          /\ tab[c].awaits = "retry" => tab[c].issued \in 1..Len(tokens)

\* However administrators demote, suspend and appoint one another at the same
\* time, somebody active can still administer (assertAnAdminRemains under
\* lockActiveAdmins).
AnAdminAlwaysRemains == ActiveAdmins(users) # {}

\* A token gets a second successor only from a rotation that had read it before
\* the first successor existed: presented any later it is recognised as spent
\* (rotate's reuse detection, section 8.2).
ForksOverlap ==
    \A s, t \in DOMAIN tokens :
        (s < t /\ tokens[s].parent = tokens[t].parent /\ tokens[s].parent # 0)
            => tokens[t].at < s

SpentOn(u, purpose) ==
    {l \in DOMAIN links : links[l].user = u /\ links[l].purpose = purpose /\ links[l].used}

\* The links that were spent on a password are as many as the passwords that
\* were set, through crashes and clicks that race: none is spent without its
\* password, none sets two (resetPassword's one transaction); and an address is
\* verified only by a link made for that.
LinksDoTheirOwn ==
    \A u \in User :
        /\ users[u].password = Cardinality(SpentOn(u, "PASSWORD_RESET"))
        /\ users[u].verified => SpentOn(u, "EMAIL_VERIFICATION") # {}

\* What the trail last says of an account's standing is what the account has,
\* through roll-backs and crashes (setStatus's one transaction).
LastSaid(n) ==
    /\ audit[n].column = "status"
    /\ \A m \in n + 1 .. Len(audit) : audit[m].column = "status" => audit[m].user # audit[n].user

TrailTellsStanding ==
    \A n \in DOMAIN audit : LastSaid(n) => users[audit[n].user].status = audit[n].after

\* A session is taken from the browser only when the token its request had
\* presented can never be exchanged again: a blip, a crash or a lost answer to a
\* refresh never signs anybody out.  That token is dead when the refresh was
\* refused, and when it succeeded and the retried call is answered 401; what
\* apiAuthed throws away in the second case is the token that the refresh has
\* just issued, and nothing here says that it is dead: it may well be live.
ClearedIsDead ==
    [][\A c \in Caller :
          Ended401(c) \/ RefusedAgain(c) => ~Live(tab[c].token)]_webVars
=============================================================================
