--------------------------- MODULE WebSessionProofs ---------------------------
(***************************************************************************)
(* What holds of accounts and sessions for every set of users, callers and *)
(* standings and any number of requests: the types, the last administrator,*)
(* the successors of a token, links and what they do, the trail of         *)
(* standings, and when the browser loses its session.                      *)
(***************************************************************************)
EXTENDS WebSession, SequenceTheorems, FiniteSetTheorems, TLAPS

-----------------------------------------------------------------------------
(* Types *)

RequestOK(r, issued) ==
    /\ r.op \in {"welcoming", "issuing", "verifying"} => r.user \in User
    /\ r.op \in {"issuing", "rotating"} => r.at \in 0..issued
    /\ r.op \in {"rotating", "revokingFamily", "revokingAll", "leaving", "answered"}
          => r.token \in 1..issued
    /\ r.op \in {"changing", "locked", "changed"}
          => /\ r.user \in User
             /\ \/ r.column = "role" /\ r.to \in Roles
                \/ r.column = "status" /\ r.to \in Standings

AccountsOK ==
    /\ users \in [User -> Account]
    /\ tokens \in Seq(Token)
    /\ links \in Seq(Link)
    /\ held \in [Caller -> SUBSET User]
    /\ DOMAIN req = Caller
    /\ \A c \in Caller : RequestOK(req[c], Len(tokens))

WebOK ==
    /\ cookie \in 0..Len(tokens)
    /\ \A c \in Caller :
          /\ tab[c] = Quiet \/ tab[c].token \in 0..Len(tokens)
          /\ tab[c].awaits = "retry" => tab[c].issued \in 1..Len(tokens)

\* A step of the accounts, whoever asked for it.
AccountsStep ==
    \/ \E c \in Caller, u \in User : Register(c, u) \/ Login(c, u)
    \/ \E c \in Caller, t \in DOMAIN tokens : Refresh(c, t) \/ RevokeByToken(c, t)
    \/ \E c \in Caller : Proceed(c) \/ Manage(c) \/ Return(c)
    \/ Environment

\* The children of a token and what they were issued on do not change, nor does
\* a spent token become fresh.
Kin ==
    /\ Len(tokens) <= Len(tokens')
    /\ \A t \in DOMAIN tokens :
          /\ tokens'[t].parent = tokens[t].parent /\ tokens'[t].at = tokens[t].at
          /\ tokens[t].used => tokens'[t].used

\* Every token is as it was but for what spends, revokes or expires it.
Rewritten ==
    /\ tokens' \in Seq(Token)
    /\ Len(tokens') = Len(tokens)
    /\ Kin

LEMMA SameTokens ==
    ASSUME tokens \in Seq(Token), UNCHANGED tokens
    PROVE  Rewritten
  BY DEF Rewritten, Kin

\* Revoking tokens changes nothing else of them (revokeFamily, revokeAllForUser).
LEMMA RevokedRewrites ==
    ASSUME tokens \in Seq(Token), NEW ts, tokens' = Revoked(ts)
    PROVE  Rewritten
<1>0. DOMAIN tokens = 1..Len(tokens)
  OBVIOUS
<1>1. /\ DOMAIN tokens' = 1..Len(tokens)
      /\ \A t \in 1..Len(tokens) :
            tokens'[t] = IF t \in ts THEN [tokens[t] EXCEPT !.revoked = TRUE] ELSE tokens[t]
  BY <1>0 DEF Revoked
<1>2. \A t \in 1..Len(tokens) : tokens[t] \in Token
  OBVIOUS
<1>3. \A t \in 1..Len(tokens) :
         /\ tokens'[t] \in Token
         /\ tokens'[t].parent = tokens[t].parent /\ tokens'[t].at = tokens[t].at
         /\ tokens[t].used => tokens'[t].used
  <2>1. ASSUME NEW t \in 1..Len(tokens), NEW old, old = tokens[t], NEW new, new = tokens'[t]
        PROVE  /\ new \in Token /\ new.parent = old.parent /\ new.at = old.at
               /\ old.used => new.used
    <3>1. old \in Token
      BY <1>2, <2>1
    <3>2. new = [old EXCEPT !.revoked = TRUE] \/ new = old
      BY <1>1, <2>1
    <3> HIDE <2>1
    <3> QED
      BY <3>1, <3>2 DEF Token
  <2> QED
    BY <2>1
<1>4. tokens' = [t \in 1..Len(tokens) |-> tokens'[t]]
  BY <1>0 DEF Revoked
<1>5. tokens' \in Seq(Token) /\ Len(tokens') = Len(tokens)
  BY <1>1, <1>3, <1>4
<1> QED
  BY <1>3, <1>5 DEF Rewritten, Kin

LEMMA ExpireRewrites ==
    ASSUME tokens \in Seq(Token), NEW t \in DOMAIN tokens, Expire(t)
    PROVE  Rewritten
<1>1. tokens' = [tokens EXCEPT ![t].expired = TRUE]
  BY DEF Expire
<1>2. \A s \in DOMAIN tokens : tokens[s] \in Token
  OBVIOUS
<1>3. [tokens[t] EXCEPT !.expired = TRUE] \in Token
  BY <1>2 DEF Token
<1>4. tokens' \in Seq(Token) /\ Len(tokens') = Len(tokens)
  BY <1>1, <1>3
<1>5. \A s \in DOMAIN tokens :
         /\ tokens'[s].parent = tokens[s].parent /\ tokens'[s].at = tokens[s].at
         /\ tokens[s].used => tokens'[s].used
  BY <1>1, <1>2 DEF Token
<1> QED
  BY <1>4, <1>5 DEF Rewritten, Kin

\* What a new session and a rotation issue.
LEMMA Issued ==
    ASSUME AccountsOK, NEW c \in Caller
    PROVE  /\ IssueSession(c) =>
                 \E row \in Token : tokens' = Append(tokens, row) /\ row.parent = 0 /\ row.at = req[c].at
           /\ Rotate(c) =>
                 /\ req[c].token \in DOMAIN tokens
                 /\ \E row \in Token, spent \in Token :
                       /\ tokens' = Append([tokens EXCEPT ![req[c].token] = spent], row)
                       /\ row.parent = req[c].token /\ row.at = req[c].at
                       /\ spent.parent = tokens[req[c].token].parent
                       /\ spent.at = tokens[req[c].token].at /\ spent.used
<1>1. RequestOK(req[c], Len(tokens)) /\ tokens \in Seq(Token)
  BY DEF AccountsOK
<1>2. ASSUME IssueSession(c)
      PROVE  \E row \in Token : tokens' = Append(tokens, row) /\ row.parent = 0 /\ row.at = req[c].at
  <2> DEFINE row == [user |-> req[c].user, family |-> Len(tokens) + 1, parent |-> 0, at |-> req[c].at,
                     used |-> FALSE, revoked |-> FALSE, expired |-> FALSE]
  <2>1. req[c].user \in User /\ req[c].at \in Nat /\ Len(tokens) + 1 \in Nat
    BY <1>1, <1>2 DEF IssueSession, RequestOK
  <2>2. tokens' = Append(tokens, row)
    BY <1>2 DEF IssueSession, WithToken
  <2>3. row \in Token /\ row.parent = 0 /\ row.at = req[c].at
    BY <2>1 DEF Token
  <2> QED
    BY <2>2, <2>3
<1>3. ASSUME Rotate(c)
      PROVE  /\ req[c].token \in DOMAIN tokens
             /\ \E row \in Token, spent \in Token :
                   /\ tokens' = Append([tokens EXCEPT ![req[c].token] = spent], row)
                   /\ row.parent = req[c].token /\ row.at = req[c].at
                   /\ spent.parent = tokens[req[c].token].parent
                   /\ spent.at = tokens[req[c].token].at /\ spent.used
  <2> DEFINE t == req[c].token
             spent == [tokens[t] EXCEPT !.used = TRUE, !.revoked = TRUE]
             after == [tokens EXCEPT ![t] = spent]
             row == [user |-> tokens[t].user, family |-> tokens[t].family, parent |-> t,
                     at |-> req[c].at, used |-> FALSE, revoked |-> FALSE, expired |-> FALSE]
  <2>1. t \in DOMAIN tokens /\ t \in Nat /\ req[c].at \in Nat
    BY <1>1, <1>3 DEF Rotate, RequestOK
  <2>2. tokens[t] \in Token
    BY <1>1, <2>1
  <2>3. tokens[t].user \in User /\ tokens[t].family \in Nat
    BY <2>2 DEF Token
  <2>4. /\ spent \in Token /\ spent.used
        /\ spent.parent = tokens[t].parent /\ spent.at = tokens[t].at
    BY <2>2 DEF Token
  <2>5. [tokens EXCEPT ![t].used = TRUE, ![t].revoked = TRUE] = after
    BY <2>1, <2>2 DEF Token
  <2>6. tokens' = Append(after, row)
    BY <1>3, <2>5 DEF Rotate, WithToken
  <2>7. row \in Token /\ row.parent = t /\ row.at = req[c].at
    BY <2>1, <2>3 DEF Token
  <2> HIDE DEF spent, row
  <2> QED
    BY <2>1, <2>4, <2>6, <2>7
<1> QED
  BY <1>2, <1>3

LEMMA StillOK ==
    ASSUME NEW r, NEW m \in Nat, NEW n \in Nat, m <= n, RequestOK(r, m)
    PROVE  RequestOK(r, n)
  BY DEF RequestOK

\* One caller moves, and no token is lost.
LEMMA OneMoves ==
    ASSUME AccountsOK, tokens' \in Seq(Token), Len(tokens) <= Len(tokens'),
           NEW c \in Caller, NEW r, Begin(c, r), RequestOK(r, Len(tokens'))
    PROVE  DOMAIN req' = Caller /\ \A d \in Caller : RequestOK(req'[d], Len(tokens'))
<1>1. /\ DOMAIN req' = Caller /\ req'[c] = r
      /\ \A d \in Caller \ {c} : req'[d] = req[d]
  BY DEF Begin, AccountsOK
<1>2. \A d \in Caller : RequestOK(req[d], Len(tokens'))
  BY StillOK DEF AccountsOK
<1> QED
  BY <1>1, <1>2

LEMMA NobodyMoves ==
    ASSUME AccountsOK, tokens' \in Seq(Token), Len(tokens) <= Len(tokens'), UNCHANGED req
    PROVE  DOMAIN req' = Caller /\ \A d \in Caller : RequestOK(req'[d], Len(tokens'))
  BY StillOK DEF AccountsOK

LEMMA LinkAppends ==
    ASSUME AccountsOK, NEW u \in User, NEW purpose \in Purposes,
           links' = Append(links, [user |-> u, purpose |-> purpose, used |-> FALSE, expired |-> FALSE])
    PROVE  links' \in Seq(Link)
<1>1. [user |-> u, purpose |-> purpose, used |-> FALSE, expired |-> FALSE] \in Link
  BY DEF Link
<1> QED
  BY <1>1 DEF AccountsOK

LEMMA LinkRewrites ==
    ASSUME AccountsOK, NEW l,
           \/ links' = [links EXCEPT ![l].used = TRUE]
           \/ links' = [links EXCEPT ![l].expired = TRUE]
    PROVE  links' \in Seq(Link)
<1>1. links \in Seq(Link) /\ \A k \in DOMAIN links : links[k] \in Link
  BY DEF AccountsOK
<1>2. \A row \in Link : [row EXCEPT !.used = TRUE] \in Link /\ [row EXCEPT !.expired = TRUE] \in Link
  BY DEF Link
<1>3. CASE l \in DOMAIN links
  <2>1. PICK row \in Link : links' = [links EXCEPT ![l] = row]
    BY <1>1, <1>2, <1>3
  <2> QED
    BY <1>1, <1>3, <2>1
<1>4. CASE l \notin DOMAIN links
  <2>1. links' = links
    BY <1>1, <1>4
  <2> QED
    BY <1>1, <2>1
<1> QED
  BY <1>3, <1>4

LEMMA UserRewrites ==
    ASSUME AccountsOK, NEW u, NEW row \in Account, users' = [users EXCEPT ![u] = row]
    PROVE  users' \in [User -> Account]
  BY DEF AccountsOK

LEMMA RequestTypes ==
    ASSUME AccountsOK,
           \/ \E c \in Caller, u \in User : Register(c, u) \/ Login(c, u)
           \/ \E c \in Caller, t \in DOMAIN tokens : Refresh(c, t) \/ RevokeByToken(c, t)
           \/ \E c \in Caller : Return(c)
    PROVE  AccountsOK' /\ Rewritten
<1>1. Rewritten
  BY SameTokens DEF AccountsOK, Register, Login, Refresh, RevokeByToken, Return
<1>2. links' \in Seq(Link) /\ held' \in [Caller -> SUBSET User]
  BY DEF AccountsOK, Register, Login, Refresh, RevokeByToken, Return
<1>3. users' \in [User -> Account]
  <2>1. ASSUME NEW u \in User, NEW c \in Caller, Register(c, u)
        PROVE  users' \in [User -> Account]
    <3>1. [users[u] EXCEPT !.status = "ACTIVE"] \in Account
      BY AccountsAssumption DEF AccountsOK, Account
    <3> QED
      BY <2>1, <3>1, UserRewrites DEF Register
  <2> QED
    BY <2>1 DEF AccountsOK, Login, Refresh, RevokeByToken, Return
<1>4. DOMAIN req' = Caller /\ \A d \in Caller : RequestOK(req'[d], Len(tokens'))
  <2>1. ASSUME NEW c \in Caller, NEW u \in User, Register(c, u) \/ Login(c, u)
        PROVE  \E r : Begin(c, r) /\ RequestOK(r, Len(tokens))
    <3>1. RequestOK([op |-> "welcoming", user |-> u], Len(tokens))
      BY <2>1 DEF RequestOK
    <3>2. RequestOK([op |-> "issuing", user |-> u, at |-> Len(tokens)], Len(tokens))
      BY <2>1 DEF RequestOK, AccountsOK
    <3> QED
      BY <2>1, <3>1, <3>2 DEF Register, Login
  <2>2. ASSUME NEW c \in Caller, NEW t \in DOMAIN tokens, Refresh(c, t) \/ RevokeByToken(c, t)
        PROVE  \E r : Begin(c, r) /\ RequestOK(r, Len(tokens))
    <3>1. RequestOK(Presented(t), Len(tokens))
      BY <2>2 DEF RequestOK, Presented, AccountsOK
    <3>2. RequestOK([op |-> "leaving", token |-> t], Len(tokens))
      BY <2>2 DEF RequestOK, AccountsOK
    <3> QED
      BY <2>2, <3>1, <3>2 DEF Refresh, RevokeByToken
  <2>3. ASSUME NEW c \in Caller, Return(c)
        PROVE  \E r : Begin(c, r) /\ RequestOK(r, Len(tokens))
    <3>1. RequestOK(Idle, Len(tokens))
      BY DEF RequestOK, Idle
    <3> QED
      BY <2>3, <3>1 DEF Return, End
  <2>4. PICK c \in Caller : \E r : Begin(c, r) /\ RequestOK(r, Len(tokens))
    BY <2>1, <2>2, <2>3
  <2> QED
    BY <1>1, <2>4, OneMoves DEF Rewritten
<1> QED
  BY <1>1, <1>2, <1>3, <1>4 DEF Rewritten, AccountsOK

LEMMA SessionTypes ==
    ASSUME AccountsOK, NEW c \in Caller,
           SendVerificationEmail(c) \/ IssueSession(c) \/ Rotate(c)
    PROVE  AccountsOK' /\ Kin
<1>1. /\ UNCHANGED <<users, held>>
      /\ RequestOK(req[c], Len(tokens)) /\ tokens \in Seq(Token)
  BY DEF AccountsOK, SendVerificationEmail, IssueSession, Rotate
<1>2. CASE SendVerificationEmail(c)
  <2>1. Rewritten
    BY <1>1, <1>2, SameTokens DEF SendVerificationEmail
  <2>2. req[c].user \in User
    BY <1>1, <1>2 DEF SendVerificationEmail, RequestOK
  <2>3. links' \in Seq(Link)
    BY <1>2, <2>2, LinkAppends DEF SendVerificationEmail, Purposes, AccountsOK
  <2>4. RequestOK([op |-> "issuing", user |-> req[c].user, at |-> Len(tokens)], Len(tokens'))
    BY <1>1, <1>2, <2>2 DEF SendVerificationEmail, RequestOK
  <2> QED
    BY <1>1, <1>2, <2>1, <2>3, <2>4, OneMoves DEF SendVerificationEmail, AccountsOK, Rewritten
<1>3. CASE IssueSession(c)
  <2>1. req[c].user \in User /\ req[c].at \in Nat
    BY <1>1, <1>3 DEF IssueSession, RequestOK
  <2>2. /\ tokens' \in Seq(Token) /\ Len(tokens') = Len(tokens) + 1
        /\ \A t \in DOMAIN tokens : tokens'[t] = tokens[t]
    BY <1>1, <1>3, Issued
  <2>3. RequestOK([op |-> "answered", status |-> "ok", token |-> Len(tokens) + 1], Len(tokens'))
    BY <1>1, <2>2 DEF RequestOK
  <2>4. Kin
    BY <1>1, <2>2 DEF Kin
  <2> QED
    BY <1>1, <1>3, <2>2, <2>3, <2>4, OneMoves DEF IssueSession, Answer, AccountsOK
<1>4. CASE Rotate(c)
  <2> DEFINE t == req[c].token
  <2>1. /\ t \in DOMAIN tokens
        /\ \E row \in Token, spent \in Token :
              /\ tokens' = Append([tokens EXCEPT ![t] = spent], row)
              /\ spent.parent = tokens[t].parent /\ spent.at = tokens[t].at /\ spent.used
    BY <1>4, Issued
  <2>2. PICK row \in Token, spent \in Token :
          /\ tokens' = Append([tokens EXCEPT ![t] = spent], row)
          /\ spent.parent = tokens[t].parent /\ spent.at = tokens[t].at /\ spent.used
    BY <2>1
  <2> HIDE DEF t
  <2>3. /\ tokens' \in Seq(Token) /\ Len(tokens') = Len(tokens) + 1
        /\ tokens'[t] = spent /\ \A s \in DOMAIN tokens : s # t => tokens'[s] = tokens[s]
    BY <1>1, <2>1, <2>2
  <2>4. Kin
    BY <1>1, <2>1, <2>2, <2>3 DEF Kin
  <2>5. RequestOK([op |-> "answered", status |-> "ok", token |-> Len(tokens) + 1], Len(tokens'))
    BY <1>1, <2>3 DEF RequestOK
  <2>6. UNCHANGED links /\ Begin(c, [op |-> "answered", status |-> "ok", token |-> Len(tokens) + 1])
    BY <1>4 DEF Rotate, Answer
  <2> QED
    BY <1>1, <2>3, <2>4, <2>5, <2>6, OneMoves DEF AccountsOK
<1> QED
  BY <1>2, <1>3, <1>4

LEMMA RevocationTypes ==
    ASSUME AccountsOK, NEW c \in Caller, RevokeFamily(c) \/ RevokeAllForUser(c) \/ Crash(c)
    PROVE  AccountsOK' /\ Rewritten
<1>1. /\ UNCHANGED <<users, links>>
      /\ RequestOK(req[c], Len(tokens)) /\ tokens \in Seq(Token)
  BY DEF AccountsOK, RevokeFamily, RevokeAllForUser, Crash
<1>2. held' \in [Caller -> SUBSET User]
  BY DEF AccountsOK, RevokeFamily, RevokeAllForUser, Crash
<1>3. Rewritten
  <2>1. CASE RevokeFamily(c)
    BY <1>1, <2>1, RevokedRewrites DEF RevokeFamily
  <2>2. CASE RevokeAllForUser(c)
    BY <1>1, <2>2, RevokedRewrites DEF RevokeAllForUser
  <2>3. CASE Crash(c)
    BY <1>1, <2>3, SameTokens DEF Crash
  <2> QED
    BY <2>1, <2>2, <2>3
<1>4. \E r : Begin(c, r) /\ RequestOK(r, Len(tokens'))
  <2>1. CASE RevokeFamily(c) \/ RevokeAllForUser(c)
    <3>1. req[c].token \in 1..Len(tokens')
      BY <1>1, <1>3, <2>1 DEF RevokeFamily, RevokeAllForUser, RequestOK, Rewritten
    <3>2. \A status : RequestOK([op |-> "answered", status |-> status, token |-> req[c].token], Len(tokens'))
      BY <3>1 DEF RequestOK
    <3> QED
      BY <2>1, <3>2 DEF RevokeFamily, RevokeAllForUser, Answer
  <2>2. CASE Crash(c)
    <3>1. RequestOK(Idle, Len(tokens'))
      BY DEF RequestOK, Idle
    <3> QED
      BY <2>2, <3>1 DEF Crash, End
  <2> QED
    BY <2>1, <2>2
<1> QED
  BY <1>1, <1>2, <1>3, <1>4, OneMoves DEF Rewritten, Kin, AccountsOK

\* Links: a verification, a reset and what they write.
LEMMA LinkTypes ==
    ASSUME AccountsOK, NEW c \in Caller,
           \/ ConfirmEmail(c) \/ ResetPassword(c)
           \/ \E l \in DOMAIN links : ConsumeVerification(c, l) \/ ConsumePasswordReset(c, l)
    PROVE  AccountsOK' /\ Rewritten
<1>1. tokens \in Seq(Token) /\ links \in Seq(Link) /\ \A l \in DOMAIN links : links[l].user \in User
  <2>1. links \in Seq(Link) /\ \A l \in DOMAIN links : links[l] \in Link
    BY DEF AccountsOK
  <2> QED
    BY <2>1 DEF AccountsOK, Link
<1>2. Rewritten
  <2>1. CASE ResetPassword(c)
    BY <1>1, <2>1, RevokedRewrites DEF ResetPassword
  <2>2. CASE ~ResetPassword(c)
    BY <1>1, <2>2, SameTokens DEF ConfirmEmail, ConsumeVerification, ConsumePasswordReset
  <2> QED
    BY <2>1, <2>2
<1>3. links' \in Seq(Link)
  BY <1>1, LinkRewrites DEF ConfirmEmail, ResetPassword, ConsumeVerification, ConsumePasswordReset
<1>4. held' \in [Caller -> SUBSET User]
  <2>1. held \in [Caller -> SUBSET User]
    BY DEF AccountsOK
  <2>2. CASE ConfirmEmail(c)
    BY <2>1, <2>2 DEF ConfirmEmail
  <2>3. CASE ResetPassword(c)
    BY <2>1, <2>3 DEF ResetPassword
  <2>4. ASSUME NEW l \in DOMAIN links, ConsumeVerification(c, l)
        PROVE  held' \in [Caller -> SUBSET User]
    BY <2>1, <2>4 DEF ConsumeVerification
  <2>5. ASSUME NEW l \in DOMAIN links, ConsumePasswordReset(c, l)
        PROVE  held' \in [Caller -> SUBSET User]
    <3>1. links[l].user \in User
      <4>1. links[l] \in Link
        BY <2>5 DEF AccountsOK
      <4> QED
        BY <4>1 DEF Link
    <3>2. PICK u \in User : held' = [held EXCEPT ![c] = {u}]
      BY <2>5, <3>1 DEF ConsumePasswordReset
    <3> QED
      BY <2>1, <3>2
  <2> QED
    BY <1>1, <2>2, <2>3, <2>4, <2>5
<1>5. users' \in [User -> Account]
  <2>1. CASE ConfirmEmail(c)
    <3>1. PICK u : users' = [users EXCEPT ![u].verified = TRUE]
      BY <2>1 DEF ConfirmEmail
    <3>2. \A w \in User : [users[w] EXCEPT !.verified = TRUE] \in Account
      BY DEF AccountsOK, Account
    <3> QED
      BY <3>1, <3>2 DEF AccountsOK
  <2>2. CASE ResetPassword(c)
    <3>1. PICK u : users' = [users EXCEPT ![u].password = @ + 1]
      BY <2>2 DEF ResetPassword
    <3>2. ASSUME NEW w \in User
          PROVE  [users[w] EXCEPT !.password = users[w].password + 1] \in Account
      <4>1. users[w] \in Account
        BY DEF AccountsOK
      <4> QED
        BY <4>1 DEF Account
    <3> QED
      BY <3>1, <3>2 DEF AccountsOK
  <2> QED
    BY <2>1, <2>2 DEF AccountsOK, ConsumeVerification, ConsumePasswordReset
<1>6. \E r : Begin(c, r) /\ RequestOK(r, Len(tokens))
  <2>1. CASE ConfirmEmail(c) \/ ResetPassword(c)
    <3>1. RequestOK(Idle, Len(tokens))
      BY DEF RequestOK, Idle
    <3> QED
      BY <2>1, <3>1 DEF ConfirmEmail, ResetPassword, End
  <2>2. ASSUME NEW l \in DOMAIN links, ConsumeVerification(c, l)
        PROVE  \E r : Begin(c, r) /\ RequestOK(r, Len(tokens))
    <3>1. RequestOK([op |-> "verifying", user |-> links[l].user], Len(tokens))
      BY <1>1 DEF RequestOK
    <3> QED
      BY <2>2, <3>1 DEF ConsumeVerification
  <2>3. ASSUME NEW l \in DOMAIN links, ConsumePasswordReset(c, l)
        PROVE  \E r : Begin(c, r) /\ RequestOK(r, Len(tokens))
    <3>1. \A ts : RequestOK([op |-> "resetting", link |-> l, revoking |-> ts], Len(tokens))
      BY DEF RequestOK
    <3> QED
      BY <2>3, <3>1 DEF ConsumePasswordReset
  <2> QED
    BY <2>1, <2>2, <2>3
<1> QED
  BY <1>2, <1>3, <1>4, <1>5, <1>6, OneMoves DEF Rewritten, Kin, AccountsOK

\* A proposed change of role or standing leaves an account of the right type.
LEMMA ChangedOK ==
    ASSUME AccountsOK, NEW c \in Caller, req[c].op \in {"changing", "locked", "changed"}
    PROVE  Changed(req[c]) \in [User -> Account]
<1>1. /\ req[c].user \in User
      /\ \/ req[c].column = "role" /\ req[c].to \in Roles
         \/ req[c].column = "status" /\ req[c].to \in Standings
  BY DEF AccountsOK, RequestOK
<1>2. CASE req[c].column = "role" /\ req[c].to \in Roles
  <2>1. [users[req[c].user] EXCEPT !.role = req[c].to] \in Account
    <3>1. PICK row \in Account : row = users[req[c].user]
      BY <1>1 DEF AccountsOK
    <3>2. [row EXCEPT !.role = req[c].to] \in Account
      BY <1>2 DEF Account
    <3> QED
      BY <3>1, <3>2
  <2> QED
    BY <1>1, <1>2, <2>1 DEF Changed, AccountsOK
<1>3. CASE req[c].column = "status" /\ req[c].to \in Standings
  <2>1. [users[req[c].user] EXCEPT !.status = req[c].to] \in Account
    <3>1. PICK row \in Account : row = users[req[c].user]
      BY <1>1 DEF AccountsOK
    <3>2. [row EXCEPT !.status = req[c].to] \in Account
      BY <1>3 DEF Account
    <3> QED
      BY <3>1, <3>2
  <2> QED
    BY <1>1, <1>3, <2>1 DEF Changed, AccountsOK
<1> QED
  BY <1>1, <1>2, <1>3

LEMMA ChangeTypes ==
    ASSUME AccountsOK, NEW c \in Caller,
           \/ \E a, u \in User, column \in {"role", "status"}, to \in Roles \cup Standings :
                 OpenChange(c, a, u, column, to)
           \/ LockActiveAdmins(c) \/ Change(c) \/ RefuseChange(c) \/ CommitChange(c)
    PROVE  AccountsOK' /\ Rewritten
<1>1. tokens \in Seq(Token) /\ RequestOK(req[c], Len(tokens)) /\ UNCHANGED links
  BY DEF AccountsOK, OpenChange, LockActiveAdmins, Change, RefuseChange, CommitChange
<1>2. Rewritten
  <2>1. CASE CommitChange(c)
    BY <1>1, <2>1, RevokedRewrites DEF CommitChange
  <2>2. CASE ~CommitChange(c)
    BY <1>1, <2>2, SameTokens DEF OpenChange, LockActiveAdmins, Change, RefuseChange
  <2> QED
    BY <2>1, <2>2
<1>3. users' \in [User -> Account]
  <2>1. CASE CommitChange(c)
    BY <2>1, ChangedOK DEF CommitChange
  <2>2. CASE ~CommitChange(c)
    BY <2>2 DEF AccountsOK, OpenChange, LockActiveAdmins, Change, RefuseChange
  <2> QED
    BY <2>1, <2>2
<1>4. held' \in [Caller -> SUBSET User]
  <2>1. CASE LockActiveAdmins(c)
    BY <2>1 DEF LockActiveAdmins, LockSet, ActiveAdmins, AccountsOK
  <2>2. CASE Change(c)
    <3>1. req[c].user \in User
      BY <1>1, <2>2 DEF Change, RequestOK
    <3>2. held' = [held EXCEPT ![c] = held[c] \cup {req[c].user}]
      BY <2>2 DEF Change
    <3> QED
      BY <3>1, <3>2 DEF AccountsOK
  <2>3. CASE ~LockActiveAdmins(c) /\ ~Change(c)
    BY <2>3 DEF AccountsOK, OpenChange, RefuseChange, CommitChange
  <2> QED
    BY <2>1, <2>2, <2>3
<1>5. \E r : Begin(c, r) /\ RequestOK(r, Len(tokens))
  <2>1. ASSUME NEW a \in User, NEW u \in User, NEW column \in {"role", "status"},
               NEW to \in Roles \cup Standings, OpenChange(c, a, u, column, to)
        PROVE  \E r : Begin(c, r) /\ RequestOK(r, Len(tokens))
    <3>1. \A before : RequestOK([op |-> "changing", user |-> u, column |-> column, to |-> to,
                                 before |-> before, revoking |-> {}], Len(tokens))
      BY <2>1 DEF OpenChange, RequestOK
    <3> QED
      BY <2>1, <3>1 DEF OpenChange
  <2>2. CASE LockActiveAdmins(c)
    <3>1. RequestOK([req[c] EXCEPT !.op = "locked"], Len(tokens))
      BY <1>1, <2>2 DEF LockActiveAdmins, RequestOK
    <3> QED
      BY <2>2, <3>1 DEF LockActiveAdmins
  <2>3. CASE Change(c)
    <3>1. \A ts : RequestOK([req[c] EXCEPT !.op = "changed", !.revoking = ts], Len(tokens))
      BY <1>1, <2>3 DEF Change, RequestOK
    <3> QED
      BY <2>3, <3>1 DEF Change
  <2>4. CASE RefuseChange(c) \/ CommitChange(c)
    <3>1. RequestOK(Idle, Len(tokens))
      BY DEF RequestOK, Idle
    <3> QED
      BY <2>4, <3>1 DEF RefuseChange, CommitChange, End
  <2> QED
    BY <2>1, <2>2, <2>3, <2>4
<1> QED
  BY <1>1, <1>2, <1>3, <1>4, <1>5, OneMoves DEF Rewritten, Kin, AccountsOK

LEMMA EnvironmentTypes ==
    ASSUME AccountsOK, Environment
    PROVE  AccountsOK' /\ Rewritten
<1>1. tokens \in Seq(Token) /\ UNCHANGED <<held, req>>
  BY DEF AccountsOK, Environment, RequestPasswordReset, ProvisionAdmin, RevokeSessions, Expire, ExpireLink
<1>2. Rewritten
  <2>1. ASSUME NEW a \in User, NEW u \in User, RevokeSessions(a, u) PROVE Rewritten
    BY <1>1, <2>1, RevokedRewrites DEF RevokeSessions
  <2>2. ASSUME NEW t \in DOMAIN tokens, Expire(t) PROVE Rewritten
    BY <1>1, <2>2, ExpireRewrites
  <2>3. CASE UNCHANGED tokens
    BY <1>1, <2>3, SameTokens
  <2> QED
    BY <2>1, <2>2, <2>3 DEF Environment, RequestPasswordReset, ProvisionAdmin, ExpireLink
<1>3. links' \in Seq(Link)
  <2>1. ASSUME NEW u \in User, RequestPasswordReset(u) PROVE links' \in Seq(Link)
    BY <2>1, LinkAppends DEF RequestPasswordReset, Purposes
  <2>2. ASSUME NEW l \in DOMAIN links, ExpireLink(l) PROVE links' \in Seq(Link)
    BY <2>2, LinkRewrites DEF ExpireLink
  <2>3. CASE UNCHANGED links
    BY <2>3 DEF AccountsOK
  <2> QED
    BY <2>1, <2>2, <2>3 DEF Environment, ProvisionAdmin, RevokeSessions, Expire
<1>4. users' \in [User -> Account]
  <2>1. ASSUME NEW u \in User, ProvisionAdmin(u) PROVE users' \in [User -> Account]
    <3>1. [users[u] EXCEPT !.role = "ADMIN"] \in Account
      BY DEF AccountsOK, Account, Roles
    <3> QED
      BY <2>1, <3>1, UserRewrites DEF ProvisionAdmin
  <2>2. CASE UNCHANGED users
    BY <2>2 DEF AccountsOK
  <2> QED
    BY <2>1, <2>2 DEF Environment, RequestPasswordReset, RevokeSessions, Expire, ExpireLink
<1> QED
  BY <1>1, <1>2, <1>3, <1>4, NobodyMoves DEF Rewritten, Kin, AccountsOK

\* Every step of the accounts keeps their types and the kin of every token.
LEMMA AccountsStepTypes ==
    ASSUME AccountsOK, AccountsStep
    PROVE  AccountsOK' /\ Kin
<1>1. ASSUME NEW c \in Caller, Proceed(c) PROVE AccountsOK' /\ Kin
  BY <1>1, SessionTypes, RevocationTypes, LinkTypes, ChangeTypes DEF Proceed, Rewritten
<1>2. ASSUME NEW c \in Caller, Manage(c) PROVE AccountsOK' /\ Kin
  BY <1>2, LinkTypes, ChangeTypes DEF Manage, Rewritten
<1> QED
  BY <1>1, <1>2, RequestTypes, EnvironmentTypes DEF AccountsStep, Rewritten

\* Whatever the web server does is a step of the accounts, or none.
LEMMA WebSteps ==
    ASSUME AccountsOK, WebOK, WebNext
    PROVE  (AccountsStep \/ UNCHANGED vars) /\ (AccountsOK' /\ Kin => WebOK')
<1>1. AccountsOK' /\ Kin => Len(tokens) \in Nat /\ Len(tokens') \in Nat /\ Len(tokens) <= Len(tokens')
  BY DEF AccountsOK, Kin
<1>2. ASSUME NEW c \in Caller, Web(c)
      PROVE  (AccountsStep \/ UNCHANGED vars) /\ (AccountsOK' /\ Kin => WebOK')
  <2>1. CASE \E u \in User : EstablishSession(c, u)
    BY <1>1, <2>1 DEF EstablishSession, AccountsStep, WebOK, Quiet
  <2>2. CASE RefreshSession(c)
    BY <1>1, <2>2 DEF RefreshSession, AccountsStep, AccountsOK, WebOK, Quiet
  <2>3. CASE Accepted(c)
    <3>1. req[c].token \in 0..Len(tokens)
      BY <2>3 DEF Accepted, AccountsOK, RequestOK
    <3> QED
      BY <1>1, <2>3, <3>1 DEF Accepted, AccountsStep, WebOK, Quiet
  <2>4. CASE Ended401(c)
    BY <1>1, <2>4 DEF Ended401, AccountsStep, WebOK, Quiet
  <2>5. CASE Unanswered(c)
    BY <1>1, <2>5 DEF Unanswered, AccountsStep, WebOK, Quiet
  <2>6. CASE EndSession(c)
    BY <1>1, <2>6 DEF EndSession, AccountsStep, AccountsOK, WebOK, Quiet
  <2>7. CASE OtherClient(c)
    BY <1>1, <2>7 DEF OtherClient, AccountsStep, WebOK, Quiet
  <2>8. CASE Refreshed(c)
    <3>1. req[c].token \in 1..Len(tokens) /\ tab[c].token \in 0..Len(tokens)
      BY <2>8 DEF Refreshed, AccountsOK, RequestOK, WebOK, Quiet
    <3> QED
      BY <1>1, <2>8, <3>1 DEF Refreshed, AccountsStep, WebOK, Quiet
  <2>9. CASE Retried(c) \/ RefusedAgain(c)
    <3>1. UNCHANGED vars /\ tokens' = tokens
      BY <2>9 DEF Retried, RefusedAgain, vars
    <3>2. tab[c].awaits = "retry" /\ tab[c].issued \in 1..Len(tokens)
      BY <2>9 DEF Retried, RefusedAgain, WebOK
    <3>3. cookie' \in 0..Len(tokens)
      BY <1>1, <2>9, <3>2 DEF Retried, RefusedAgain
    <3>4. tab' = [tab EXCEPT ![c] = Quiet]
      BY <2>9 DEF Retried, RefusedAgain
    <3> QED
      BY <3>1, <3>3, <3>4 DEF WebOK, Quiet
  <2> QED
    BY <1>2, <2>1, <2>2, <2>3, <2>4, <2>5, <2>6, <2>7, <2>8, <2>9 DEF Web
<1>3. CASE /\ (\E c \in Caller : (tab[c] = Quiet /\ Manage(c)) \/ Proceed(c)) \/ Environment
           /\ UNCHANGED <<cookie, tab>>
  BY <1>1, <1>3 DEF AccountsStep, WebOK
<1> QED
  BY <1>2, <1>3 DEF WebNext

-----------------------------------------------------------------------------
(* The last administrator *)

Deciding(c) == req[c].op \in {"locked", "changed"}

\* Whoever decides holds an active administrator's row, nobody else decides, and
\* what was decided leaves an administrator.
GripOnAdmins ==
    /\ AnAdminAlwaysRemains
    /\ \A c \in Caller : Deciding(c) => held[c] \cap ActiveAdmins(users) # {}
    /\ \A c, d \in Caller : Deciding(c) /\ Deciding(d) => c = d
    /\ \A c \in Caller : req[c].op = "changed" => ActiveAdmins(Changed(req[c])) # {}

\* No account lost its role or standing.
NobodyDemoted ==
    \A u \in User :
       /\ users[u].role = "ADMIN" => users'[u].role = "ADMIN"
       /\ users[u].status = "ACTIVE" => users'[u].status = "ACTIVE"

\* Nobody came to a decision, and whoever is deciding holds what it held.
NobodyDecided ==
    \A c \in Caller : Deciding(c)' => req'[c] = req[c] /\ held'[c] = held[c]

LEMMA ChangedStays ==
    ASSUME AccountsOK, AccountsOK', NobodyDemoted,
           NEW c \in Caller, req[c].op = "changed", req'[c] = req[c],
           ActiveAdmins(Changed(req[c])) # {}
    PROVE  ActiveAdmins(Changed(req[c]))' # {}
<1>1. /\ req[c].user \in User
      /\ \/ req[c].column = "role" /\ req[c].to \in Roles
         \/ req[c].column = "status" /\ req[c].to \in Standings
  BY DEF AccountsOK, RequestOK
<1>2. PICK w \in User : Changed(req[c])[w].role = "ADMIN" /\ Changed(req[c])[w].status = "ACTIVE"
  BY DEF ActiveAdmins
<1>3. \A u \in User : users[u] \in Account /\ users'[u] \in Account
  BY DEF AccountsOK
<1>4. Changed(req[c])'[w].role = "ADMIN" /\ Changed(req[c])'[w].status = "ACTIVE"
  <2>1. /\ users[w].role = "ADMIN" => users'[w].role = "ADMIN"
        /\ users[w].status = "ACTIVE" => users'[w].status = "ACTIVE"
    BY DEF NobodyDemoted
  <2>2. CASE w # req[c].user
    <3>1. Changed(req[c])[w] = users[w] /\ Changed(req[c])'[w] = users'[w]
      BY <1>1, <2>2 DEF Changed, AccountsOK
    <3> QED
      BY <1>2, <2>1, <3>1
  <2>3. CASE w = req[c].user /\ req[c].column = "role"
    <3>1. /\ Changed(req[c])[w] = [users[w] EXCEPT !.role = req[c].to]
          /\ Changed(req[c])'[w] = [users'[w] EXCEPT !.role = req[c].to]
      BY <2>3 DEF Changed, AccountsOK
    <3> QED
      BY <1>2, <1>3, <2>1, <3>1 DEF Account
  <2>4. CASE w = req[c].user /\ req[c].column = "status"
    <3>1. /\ Changed(req[c])[w] = [users[w] EXCEPT !.status = req[c].to]
          /\ Changed(req[c])'[w] = [users'[w] EXCEPT !.status = req[c].to]
      BY <2>4 DEF Changed, AccountsOK
    <3> QED
      BY <1>2, <1>3, <2>1, <3>1 DEF Account
  <2> QED
    BY <1>1, <2>2, <2>3, <2>4
<1> QED
  BY <1>4 DEF ActiveAdmins

LEMMA GripStays ==
    ASSUME AccountsOK, AccountsOK', GripOnAdmins, NobodyDemoted, NobodyDecided
    PROVE  GripOnAdmins'
<1>1. ActiveAdmins(users) \subseteq ActiveAdmins(users)'
  <2>1. ASSUME NEW u \in User, users[u].role = "ADMIN", users[u].status = "ACTIVE"
        PROVE  users'[u].role = "ADMIN" /\ users'[u].status = "ACTIVE"
    BY <2>1 DEF NobodyDemoted
  <2> QED
    BY <2>1 DEF ActiveAdmins
<1>2. \A c \in Caller : Deciding(c)' => Deciding(c) /\ req'[c] = req[c] /\ held'[c] = held[c]
  BY DEF NobodyDecided, Deciding
<1>3. AnAdminAlwaysRemains'
  BY <1>1 DEF GripOnAdmins, AnAdminAlwaysRemains
<1>4. \A c \in Caller : Deciding(c)' => (held[c] \cap ActiveAdmins(users))' # {}
  BY <1>1, <1>2 DEF GripOnAdmins
<1>5. \A c, d \in Caller : Deciding(c)' /\ Deciding(d)' => c = d
  BY <1>2 DEF GripOnAdmins
<1>6. \A c \in Caller : req'[c].op = "changed" => ActiveAdmins(Changed(req[c]))' # {}
  <2>1. ASSUME NEW c \in Caller, req'[c].op = "changed" PROVE ActiveAdmins(Changed(req[c]))' # {}
    <3>1. req'[c] = req[c] /\ req[c].op = "changed"
      BY <1>2, <2>1 DEF Deciding
    <3> QED
      BY <3>1, ChangedStays DEF GripOnAdmins
  <2> QED
    BY <2>1
<1> QED
  BY <1>3, <1>4, <1>5, <1>6 DEF GripOnAdmins

\* One caller moves on to where nothing is being decided.
LEMMA NobodyDecides ==
    ASSUME AccountsOK, NEW c \in Caller, NEW r, Begin(c, r), r.op \notin {"locked", "changed"},
           \A d \in Caller \ {c} : held'[d] = held[d]
    PROVE  NobodyDecided
  BY DEF AccountsOK, Begin, NobodyDecided, Deciding

LEMMA LockGrips ==
    ASSUME AccountsOK, AccountsOK', GripOnAdmins, NEW c \in Caller, LockActiveAdmins(c)
    PROVE  GripOnAdmins'
<1>1. /\ UNCHANGED users /\ held'[c] = ActiveAdmins(users) /\ req'[c].op = "locked"
      /\ \A d \in Caller \ {c} : req'[d] = req[d] /\ held'[d] = held[d]
      /\ \A d \in Caller \ {c} : held[d] \cap ActiveAdmins(users) = {}
  BY DEF LockActiveAdmins, LockSet, Unlocked, Begin, AccountsOK
<1>2. \A d \in Caller \ {c} : ~Deciding(d)
  BY <1>1 DEF GripOnAdmins
<1>3. \A d \in Caller \ {c} : ~Deciding(d)' /\ req'[d].op # "changed"
  BY <1>1, <1>2 DEF Deciding
<1>4. ActiveAdmins(users)' = ActiveAdmins(users) /\ ActiveAdmins(users) # {}
  BY <1>1 DEF GripOnAdmins, AnAdminAlwaysRemains
<1> QED
  BY <1>1, <1>3, <1>4 DEF GripOnAdmins, AnAdminAlwaysRemains

LEMMA ChangeKeepsGrip ==
    ASSUME AccountsOK, AccountsOK', GripOnAdmins, NEW c \in Caller, Change(c)
    PROVE  GripOnAdmins'
<1>1. /\ UNCHANGED users /\ held'[c] = held[c] \cup {req[c].user}
      /\ req[c].op = "locked" /\ req'[c] = [req[c] EXCEPT !.op = "changed", !.revoking = Ended(req[c])]
      /\ \A d \in Caller \ {c} : req'[d] = req[d] /\ held'[d] = held[d]
      /\ ActiveAdmins(Changed(req[c])) # {}
  BY DEF Change, Begin, AccountsOK, Permitted, AnAdminRemains
<1>2. /\ req'[c].user = req[c].user /\ req'[c].column = req[c].column /\ req'[c].to = req[c].to
  BY <1>1
<1>3. Changed(req[c])' = Changed(req[c])
  BY <1>1, <1>2 DEF Changed
<1>4. ActiveAdmins(users)' = ActiveAdmins(users) /\ ActiveAdmins(Changed(req[c]))' = ActiveAdmins(Changed(req[c]))
  BY <1>1, <1>3 DEF ActiveAdmins
<1>5. \A d \in Caller \ {c} : ~Deciding(d)
  BY <1>1 DEF GripOnAdmins, Deciding
<1>6. \A d \in Caller \ {c} : ~Deciding(d)' /\ req'[d].op # "changed"
  BY <1>1, <1>5 DEF Deciding
<1>7. held'[c] \cap ActiveAdmins(users)' # {}
  BY <1>1, <1>4 DEF GripOnAdmins, Deciding
<1> QED
  BY <1>1, <1>4, <1>6, <1>7 DEF GripOnAdmins, AnAdminAlwaysRemains

LEMMA CommitKeepsGrip ==
    ASSUME AccountsOK, AccountsOK', GripOnAdmins, NEW c \in Caller, CommitChange(c)
    PROVE  GripOnAdmins'
<1>1. /\ users' = Changed(req[c]) /\ req[c].op = "changed" /\ req'[c] = Idle
      /\ \A d \in Caller \ {c} : req'[d] = req[d]
  BY DEF CommitChange, End, Begin, AccountsOK
<1>2. \A d \in Caller \ {c} : ~Deciding(d)
  BY <1>1 DEF GripOnAdmins, Deciding
<1>3. \A d \in Caller : ~Deciding(d)' /\ req'[d].op # "changed"
  BY <1>1, <1>2 DEF Deciding, Idle
<1>4. ActiveAdmins(users)' # {}
  BY <1>1 DEF GripOnAdmins, ActiveAdmins
<1> QED
  BY <1>3, <1>4 DEF GripOnAdmins, AnAdminAlwaysRemains

LEMMA NobodyDemotedBy ==
    ASSUME AccountsOK, AccountsStep, \A c \in Caller : ~CommitChange(c)
    PROVE  NobodyDemoted
<1>1. CASE UNCHANGED users
  BY <1>1 DEF NobodyDemoted
<1>2. ASSUME NEW u, \/ users' = [users EXCEPT ![u].status = "ACTIVE"]
                    \/ users' = [users EXCEPT ![u].role = "ADMIN"]
                    \/ users' = [users EXCEPT ![u].verified = TRUE]
                    \/ users' = [users EXCEPT ![u].password = @ + 1]
      PROVE  NobodyDemoted
  <2>1. ASSUME NEW w \in User
        PROVE  /\ users[w].role = "ADMIN" => users'[w].role = "ADMIN"
               /\ users[w].status = "ACTIVE" => users'[w].status = "ACTIVE"
    <3>1. users[w] \in Account /\ w \in DOMAIN users
      BY DEF AccountsOK
    <3> QED
      BY <1>2, <3>1 DEF Account
  <2> QED
    BY <2>1 DEF NobodyDemoted
<1>3. CASE \E c \in Caller, u \in User : Register(c, u) \/ Login(c, u)
  BY <1>1, <1>2, <1>3 DEF Register, Login
<1>4. CASE \E c \in Caller, t \in DOMAIN tokens : Refresh(c, t) \/ RevokeByToken(c, t)
  BY <1>1, <1>4 DEF Refresh, RevokeByToken
<1>5. ASSUME NEW c \in Caller, Proceed(c) PROVE NobodyDemoted
  <2>1. CASE ConfirmEmail(c)
    BY <1>2, <2>1 DEF ConfirmEmail
  <2>2. CASE ResetPassword(c)
    BY <1>2, <2>2 DEF ResetPassword
  <2>3. CASE ~ConfirmEmail(c) /\ ~ResetPassword(c)
    BY <1>1, <1>5, <2>3 DEF Proceed, SendVerificationEmail, IssueSession, Rotate, RevokeFamily,
       RevokeAllForUser, LockActiveAdmins, Change, RefuseChange, Crash
  <2> QED
    BY <2>1, <2>2, <2>3
<1>6. CASE \E c \in Caller : Manage(c) \/ Return(c)
  BY <1>1, <1>6 DEF Manage, ConsumeVerification, ConsumePasswordReset, OpenChange, Return
<1>7. CASE Environment
  <2>1. ASSUME NEW u \in User, ProvisionAdmin(u) PROVE NobodyDemoted
    BY <1>2, <2>1 DEF ProvisionAdmin
  <2> QED
    BY <1>1, <1>7, <2>1 DEF Environment, RequestPasswordReset, RevokeSessions, Expire, ExpireLink
<1> QED
  BY <1>3, <1>4, <1>5, <1>6, <1>7 DEF AccountsStep

LEMMA NobodyDecidedBy ==
    ASSUME AccountsOK, AccountsStep,
           \A c \in Caller : ~LockActiveAdmins(c) /\ ~Change(c) /\ ~CommitChange(c)
    PROVE  NobodyDecided
<1>1. CASE UNCHANGED <<req, held>>
  BY <1>1 DEF NobodyDecided
<1>2. ASSUME NEW c \in Caller, Begin(c, Idle), \A d \in Caller \ {c} : held'[d] = held[d]
      PROVE  NobodyDecided
  BY <1>2, NobodyDecides DEF Idle
<1>3. CASE \E c \in Caller, u \in User : Register(c, u) \/ Login(c, u)
  BY <1>3, NobodyDecides DEF Register, Login
<1>4. ASSUME NEW c \in Caller, NEW t \in DOMAIN tokens, Refresh(c, t) \/ RevokeByToken(c, t)
      PROVE  NobodyDecided
  <2>1. Presented(t).op \notin {"locked", "changed"}
    BY DEF Presented
  <2> QED
    BY <1>4, <2>1, NobodyDecides DEF Refresh, RevokeByToken
<1>5. ASSUME NEW c \in Caller, Proceed(c) PROVE NobodyDecided
  <2>1. CASE SendVerificationEmail(c) \/ IssueSession(c) \/ Rotate(c) \/ RevokeFamily(c) \/ RevokeAllForUser(c)
    BY <2>1, NobodyDecides DEF SendVerificationEmail, IssueSession, Rotate, RevokeFamily,
       RevokeAllForUser, Answer
  <2>2. CASE ConfirmEmail(c)
    BY <1>2, <2>2 DEF ConfirmEmail, End
  <2>3. CASE ResetPassword(c) \/ RefuseChange(c) \/ Crash(c)
    BY <1>2, <2>3 DEF ResetPassword, RefuseChange, Crash, End, AccountsOK
  <2> QED
    BY <1>5, <2>1, <2>2, <2>3 DEF Proceed
<1>6. ASSUME NEW c \in Caller, Manage(c) \/ Return(c) PROVE NobodyDecided
  <2>1. CASE Return(c)
    BY <1>2, <2>1 DEF Return, End
  <2>2. CASE Manage(c)
    BY <2>2, NobodyDecides DEF Manage, ConsumeVerification, ConsumePasswordReset, OpenChange, AccountsOK
  <2> QED
    BY <1>6, <2>1, <2>2
<1>7. CASE Environment
  BY <1>1, <1>7 DEF Environment, RequestPasswordReset, ProvisionAdmin, RevokeSessions, Expire, ExpireLink
<1> QED
  BY <1>3, <1>4, <1>5, <1>6, <1>7 DEF AccountsStep

LEMMA GripStep ==
    ASSUME AccountsOK, GripOnAdmins, AccountsStep
    PROVE  GripOnAdmins'
<1>1. AccountsOK'
  BY AccountsStepTypes
<1>2. CASE \E c \in Caller : LockActiveAdmins(c) \/ Change(c) \/ CommitChange(c)
  BY <1>1, <1>2, LockGrips, ChangeKeepsGrip, CommitKeepsGrip
<1>3. CASE \A c \in Caller : ~LockActiveAdmins(c) /\ ~Change(c) /\ ~CommitChange(c)
  BY <1>1, <1>3, NobodyDemotedBy, NobodyDecidedBy, GripStays
<1> QED
  BY <1>2, <1>3

-----------------------------------------------------------------------------
(* The successors of a token *)

\* A token with a successor is spent, and a rotation under way had read its token
\* before any successor it has.
Kinship ==
    /\ ForksOverlap
    /\ \A s \in DOMAIN tokens : tokens[s].parent # 0 =>
          tokens[s].parent \in DOMAIN tokens /\ tokens[tokens[s].parent].used
    /\ \A c \in Caller, s \in DOMAIN tokens :
          req[c].op = "rotating" /\ tokens[s].parent = req[c].token => req[c].at < s

NobodyRead == \A c \in Caller : req'[c].op = "rotating" => req'[c] = req[c]

LEMMA KinshipStays ==
    ASSUME AccountsOK, Kinship, Rewritten, NobodyRead
    PROVE  Kinship'
<1>1. /\ DOMAIN tokens' = DOMAIN tokens
      /\ \A t \in DOMAIN tokens :
            /\ tokens'[t].parent = tokens[t].parent /\ tokens'[t].at = tokens[t].at
            /\ tokens[t].used => tokens'[t].used
  BY DEF AccountsOK, Rewritten, Kin
<1> QED
  BY <1>1 DEF Kinship, ForksOverlap, NobodyRead

\* The check for reuse comes before the rotation (rotate).
LEMMA RefreshKeepsKinship ==
    ASSUME AccountsOK, Kinship, NEW c \in Caller, NEW t \in DOMAIN tokens, Refresh(c, t)
    PROVE  Kinship'
<1>1. /\ UNCHANGED tokens /\ req'[c] = Presented(t)
      /\ \A d \in Caller \ {c} : req'[d] = req[d]
  BY DEF Refresh, Begin, AccountsOK
<1>2. Presented(t).op = "rotating" => Presented(t).token = t /\ ~tokens[t].used
  BY DEF Presented
<1>3. t # 0
  BY DEF AccountsOK
<1>4. \A s \in DOMAIN tokens : tokens[s].parent = t => tokens[t].used
  BY <1>3 DEF Kinship
<1> QED
  BY <1>1, <1>2, <1>4 DEF Kinship, ForksOverlap

\* A new token is the last, and whatever is being rotated was read before it.
LEMMA IssueKeepsKinship ==
    ASSUME AccountsOK, Kinship, NEW c \in Caller, IssueSession(c) \/ Rotate(c)
    PROVE  Kinship'
<1> DEFINE new == Len(tokens) + 1
<1>1. /\ tokens \in Seq(Token) /\ new \in Nat /\ DOMAIN tokens = 1..Len(tokens)
      /\ \A d \in Caller : RequestOK(req[d], Len(tokens))
  BY DEF AccountsOK
<1>2. /\ req'[c].op = "answered"
      /\ \A d \in Caller \ {c} : req'[d] = req[d]
  BY DEF IssueSession, Rotate, Answer, Begin, AccountsOK
<1>3. \A d \in Caller : req'[d].op = "rotating" => req'[d] = req[d] /\ req[d].at < new
  BY <1>1, <1>2 DEF RequestOK
<1>4. CASE IssueSession(c)
  <2>1. PICK row \in Token : tokens' = Append(tokens, row) /\ row.parent = 0
    BY <1>4, Issued
  <2>2. /\ DOMAIN tokens' = 1..new /\ tokens'[new].parent = 0
        /\ \A t \in 1..Len(tokens) : tokens'[t] = tokens[t]
    BY <1>1, <2>1
  <2> HIDE DEF new
  <2>3. \A t \in 1..new : t \in DOMAIN tokens \/ t = new
    BY <1>1 DEF new
  <2>4. ForksOverlap'
    BY <1>1, <2>2, <2>3 DEF Kinship, ForksOverlap
  <2>5. \A s \in DOMAIN tokens' : tokens'[s].parent # 0 =>
          tokens'[s].parent \in DOMAIN tokens' /\ tokens'[tokens'[s].parent].used
    <3>1. DOMAIN tokens \subseteq DOMAIN tokens'
      BY <1>1, <2>2 DEF new
    <3> QED
      BY <1>1, <2>2, <2>3, <3>1 DEF Kinship
  <2>6. \A d \in Caller, s \in DOMAIN tokens' :
          req'[d].op = "rotating" /\ tokens'[s].parent = req'[d].token => req'[d].at < s
    BY <1>1, <1>3, <2>2, <2>3 DEF Kinship
  <2> QED
    BY <2>4, <2>5, <2>6 DEF Kinship
<1>5. CASE Rotate(c)
  <2> DEFINE t == req[c].token
  <2>1. /\ t \in DOMAIN tokens
        /\ \E row \in Token, spent \in Token :
              /\ tokens' = Append([tokens EXCEPT ![t] = spent], row)
              /\ row.parent = t /\ row.at = req[c].at
              /\ spent.parent = tokens[t].parent /\ spent.at = tokens[t].at /\ spent.used
    BY <1>5, Issued
  <2>2. req[c].op = "rotating"
    BY <1>5 DEF Rotate
  <2>3. /\ DOMAIN tokens' = 1..new
        /\ tokens'[new].parent = t /\ tokens'[new].at = req[c].at /\ tokens'[t].used
        /\ \A s \in 1..Len(tokens) :
              /\ tokens'[s].parent = tokens[s].parent /\ tokens'[s].at = tokens[s].at
              /\ tokens[s].used => tokens'[s].used
    <3> HIDE DEF t
    <3>1. PICK row \in Token, spent \in Token :
            /\ tokens' = Append([tokens EXCEPT ![t] = spent], row)
            /\ row.parent = t /\ row.at = req[c].at
            /\ spent.parent = tokens[t].parent /\ spent.at = tokens[t].at /\ spent.used
      BY <2>1
    <3>2. /\ DOMAIN tokens' = 1..new /\ tokens'[new] = row /\ tokens'[t] = spent
          /\ \A s \in 1..Len(tokens) : s # t => tokens'[s] = tokens[s]
      BY <1>1, <2>1, <3>1
    <3> QED
      BY <3>1, <3>2
  <2>4. \A s \in DOMAIN tokens : tokens[s].parent = t => req[c].at < s
    BY <2>2 DEF Kinship
  <2> HIDE DEF new
  <2>5. /\ \A s \in 1..new : s \in DOMAIN tokens \/ s = new
        /\ DOMAIN tokens \subseteq DOMAIN tokens' /\ new \notin DOMAIN tokens
        /\ \A s \in DOMAIN tokens : s \in Nat /\ s < new
    BY <1>1, <2>3 DEF new
  <2>6. ForksOverlap'
    <3>1. ASSUME NEW s \in DOMAIN tokens', NEW u \in DOMAIN tokens', s < u,
                 tokens'[s].parent = tokens'[u].parent, tokens'[s].parent # 0
          PROVE  tokens'[u].at < s
      <4>1. s \in DOMAIN tokens
        BY <1>1, <2>3, <2>5, <3>1
      <4>2. CASE u \in DOMAIN tokens
        BY <1>1, <2>3, <3>1, <4>1, <4>2 DEF Kinship, ForksOverlap
      <4>3. CASE u = new
        BY <1>1, <2>3, <2>4, <3>1, <4>1, <4>3
      <4> QED
        BY <2>3, <2>5, <4>2, <4>3
    <3> QED
      BY <3>1 DEF ForksOverlap
  <2>7. ASSUME NEW s \in DOMAIN tokens', tokens'[s].parent # 0
        PROVE  tokens'[s].parent \in DOMAIN tokens' /\ tokens'[tokens'[s].parent].used
    <3>1. CASE s \in DOMAIN tokens
      BY <1>1, <2>3, <2>5, <2>7, <3>1 DEF Kinship
    <3>2. CASE s = new
      BY <2>1, <2>3, <2>5, <3>2
    <3> QED
      BY <2>3, <2>5, <3>1, <3>2
  <2>8. ASSUME NEW d \in Caller, NEW s \in DOMAIN tokens',
               req'[d].op = "rotating", tokens'[s].parent = req'[d].token
        PROVE  req'[d].at < s
    <3>1. CASE s \in DOMAIN tokens
      BY <1>1, <1>3, <2>3, <2>8, <3>1 DEF Kinship
    <3>2. CASE s = new
      BY <1>3, <2>8, <3>2
    <3> QED
      BY <2>3, <2>5, <3>1, <3>2
  <2> QED
    BY <2>6, <2>7, <2>8 DEF Kinship
<1> QED
  BY <1>4, <1>5

LEMMA NobodyReads ==
    ASSUME AccountsOK, NEW c \in Caller, NEW r, Begin(c, r), r.op # "rotating"
    PROVE  NobodyRead
  BY DEF AccountsOK, Begin, NobodyRead

LEMMA KinshipStep ==
    ASSUME AccountsOK, Kinship, AccountsStep
    PROVE  Kinship'
<1>1. ASSUME NEW c \in Caller, NEW u \in User, Register(c, u) \/ Login(c, u) PROVE Kinship'
  BY <1>1, RequestTypes, NobodyReads, KinshipStays DEF Register, Login
<1>2. ASSUME NEW c \in Caller, NEW t \in DOMAIN tokens, Refresh(c, t) \/ RevokeByToken(c, t)
      PROVE  Kinship'
  <2>1. CASE RevokeByToken(c, t)
    BY <2>1, RequestTypes, NobodyReads, KinshipStays DEF RevokeByToken
  <2> QED
    BY <1>2, <2>1, RefreshKeepsKinship
<1>3. ASSUME NEW c \in Caller, Proceed(c) PROVE Kinship'
  <2>1. CASE IssueSession(c) \/ Rotate(c)
    BY <2>1, IssueKeepsKinship
  <2>2. CASE SendVerificationEmail(c)
    BY <2>2, SameTokens, NobodyReads, KinshipStays DEF SendVerificationEmail, AccountsOK
  <2>3. CASE RevokeFamily(c) \/ RevokeAllForUser(c) \/ Crash(c)
    BY <2>3, RevocationTypes, NobodyReads, KinshipStays
    DEF RevokeFamily, RevokeAllForUser, Crash, Answer, End, Idle
  <2>4. CASE ConfirmEmail(c) \/ ResetPassword(c)
    BY <2>4, LinkTypes, NobodyReads, KinshipStays DEF ConfirmEmail, ResetPassword, End, Idle
  <2>5. CASE LockActiveAdmins(c) \/ Change(c) \/ RefuseChange(c) \/ CommitChange(c)
    <3>1. Rewritten
      BY <2>5, ChangeTypes
    <3>2. NobodyRead
      <4>1. CASE LockActiveAdmins(c)
        <5>1. [req[c] EXCEPT !.op = "locked"].op # "rotating"
          BY <4>1 DEF LockActiveAdmins
        <5> QED
          BY <4>1, <5>1, NobodyReads DEF LockActiveAdmins
      <4>2. CASE Change(c)
        <5>1. \A ts : [req[c] EXCEPT !.op = "changed", !.revoking = ts].op # "rotating"
          BY <4>2 DEF Change
        <5> QED
          BY <4>2, <5>1, NobodyReads DEF Change
      <4>3. CASE RefuseChange(c) \/ CommitChange(c)
        BY <4>3, NobodyReads DEF RefuseChange, CommitChange, End, Idle
      <4> QED
        BY <2>5, <4>1, <4>2, <4>3
    <3> QED
      BY <3>1, <3>2, KinshipStays
  <2> QED
    BY <1>3, <2>1, <2>2, <2>3, <2>4, <2>5 DEF Proceed
<1>4. ASSUME NEW c \in Caller, Manage(c) PROVE Kinship'
  <2>1. Rewritten
    BY <1>4, LinkTypes, ChangeTypes DEF Manage
  <2>2. NobodyRead
    BY <1>4, NobodyReads DEF Manage, ConsumeVerification, ConsumePasswordReset, OpenChange
  <2> QED
    BY <2>1, <2>2, KinshipStays
<1>5. ASSUME NEW c \in Caller, Return(c) PROVE Kinship'
  BY <1>5, RequestTypes, NobodyReads, KinshipStays DEF Return, End, Idle
<1>6. CASE Environment
  <2>1. NobodyRead
    BY <1>6 DEF Environment, RequestPasswordReset, ProvisionAdmin, RevokeSessions, Expire, ExpireLink, NobodyRead
  <2> QED
    BY <1>6, <2>1, EnvironmentTypes, KinshipStays
<1> QED
  BY <1>1, <1>2, <1>3, <1>4, <1>5, <1>6 DEF AccountsStep

-----------------------------------------------------------------------------
(* Links and what they do                                                  *)

\* Every reset under way has a link of its own that is not spent yet, and every
\* verification one that is.
LinksInv ==
    /\ LinksDoTheirOwn
    /\ \A c \in Caller : req[c].op = "resetting" =>
          /\ req[c].link \in DOMAIN links
          /\ links[req[c].link].purpose = "PASSWORD_RESET" /\ ~links[req[c].link].used
    /\ \A c, d \in Caller :
          req[c].op = "resetting" /\ req[d].op = "resetting" /\ req[c].link = req[d].link => c = d
    /\ \A c \in Caller : req[c].op = "verifying" => SpentOn(req[c].user, "EMAIL_VERIFICATION") # {}

LEMMA SpentFinite ==
    ASSUME AccountsOK
    PROVE  \A u, purpose : IsFiniteSet(SpentOn(u, purpose)) /\ Cardinality(SpentOn(u, purpose)) \in Nat
<1>1. IsFiniteSet(DOMAIN links)
  BY FS_Interval DEF AccountsOK
<1>2. \A u, purpose : SpentOn(u, purpose) \subseteq DOMAIN links
  BY DEF SpentOn
<1> QED
  BY <1>1, <1>2, FS_Subset, FS_CardinalityType

\* Links are made and grow old, and what is spent stays spent.
LinksKept ==
    /\ \A u \in User : users'[u].password = users[u].password /\ users'[u].verified = users[u].verified
    /\ DOMAIN links \subseteq DOMAIN links'
    /\ \A l \in DOMAIN links :
          /\ links'[l].user = links[l].user /\ links'[l].purpose = links[l].purpose
          /\ links'[l].used = links[l].used
    /\ \A l \in DOMAIN links' \ DOMAIN links : ~links'[l].used

NobodySpends == \A c \in Caller : req'[c].op \in {"resetting", "verifying"} => req'[c] = req[c]

LEMMA LinksStay ==
    ASSUME LinksInv, LinksKept, NobodySpends
    PROVE  LinksInv'
<1>1. \A u, purpose : SpentOn(u, purpose)' = SpentOn(u, purpose)
  BY DEF LinksKept, SpentOn
<1>2. LinksDoTheirOwn'
  BY <1>1 DEF LinksInv, LinksKept, LinksDoTheirOwn
<1> QED
  BY <1>1, <1>2 DEF LinksInv, LinksKept, NobodySpends

LEMMA LinksSame == ASSUME UNCHANGED <<users, links>> PROVE LinksKept
  BY DEF LinksKept

\* A link more, or one that has grown old.
LEMMA LinkMade ==
    ASSUME AccountsOK, UNCHANGED users, NEW u \in User, NEW purpose \in Purposes,
           links' = Append(links, [user |-> u, purpose |-> purpose, used |-> FALSE, expired |-> FALSE])
    PROVE  LinksKept
<1>1. PICK new \in Link : new.used = FALSE /\ links' = Append(links, new)
  <2>1. [user |-> u, purpose |-> purpose, used |-> FALSE, expired |-> FALSE] \in Link
    BY DEF Link
  <2> QED
    BY <2>1
<1>2. /\ DOMAIN links' = DOMAIN links \cup {Len(links) + 1}
      /\ \A l \in DOMAIN links : links'[l] = links[l]
      /\ links'[Len(links) + 1] = new
  BY <1>1 DEF AccountsOK
<1> QED
  BY <1>1, <1>2 DEF LinksKept

LEMMA LinkAged ==
    ASSUME AccountsOK, UNCHANGED users, NEW l \in DOMAIN links, ExpireLink(l)
    PROVE  LinksKept
<1>1. links' = [links EXCEPT ![l] = [links[l] EXCEPT !.expired = TRUE]] /\ links[l] \in Link
  BY DEF ExpireLink, AccountsOK
<1> QED
  BY <1>1 DEF LinksKept, Link

\* A link is spent.
Spends(l) ==
    /\ DOMAIN links' = DOMAIN links /\ links'[l].used
    /\ \A k \in DOMAIN links :
          links'[k].user = links[k].user /\ links'[k].purpose = links[k].purpose
    /\ \A k \in DOMAIN links \ {l} : links'[k] = links[k]
    /\ \A u, purpose :
          IF u = links[l].user /\ purpose = links[l].purpose
          THEN SpentOn(u, purpose)' = SpentOn(u, purpose) \cup {l}
          ELSE SpentOn(u, purpose)' = SpentOn(u, purpose)
    /\ \A u, purpose : l \notin SpentOn(u, purpose)

LEMMA LinkSpent ==
    ASSUME AccountsOK, NEW l \in DOMAIN links, links' = [links EXCEPT ![l].used = TRUE], ~links[l].used
    PROVE  Spends(l)
<1>1. links' = [links EXCEPT ![l] = [links[l] EXCEPT !.used = TRUE]] /\ links[l] \in Link
  BY DEF AccountsOK
<1>2. /\ DOMAIN links' = DOMAIN links /\ links'[l].used
      /\ \A k \in DOMAIN links :
            links'[k].user = links[k].user /\ links'[k].purpose = links[k].purpose
      /\ \A k \in DOMAIN links \ {l} : links'[k] = links[k]
  BY <1>1 DEF Link
<1>3. \A u, purpose, k : k \in SpentOn(u, purpose)' <=>
         k \in SpentOn(u, purpose) \/ (k = l /\ u = links[l].user /\ purpose = links[l].purpose)
  BY <1>2 DEF SpentOn
<1>4. \A u, purpose : l \notin SpentOn(u, purpose)
  BY DEF SpentOn
<1>5. \A u, purpose :
         IF u = links[l].user /\ purpose = links[l].purpose
         THEN SpentOn(u, purpose)' = SpentOn(u, purpose) \cup {l}
         ELSE SpentOn(u, purpose)' = SpentOn(u, purpose)
  BY <1>3
<1> QED
  BY <1>2, <1>4, <1>5 DEF Spends

LEMMA ConsumeVerificationLinks ==
    ASSUME AccountsOK, LinksInv, NEW c \in Caller, NEW l \in DOMAIN links, ConsumeVerification(c, l)
    PROVE  LinksInv'
<1>1. /\ links' = [links EXCEPT ![l].used = TRUE] /\ UNCHANGED users
      /\ ~links[l].used /\ links[l].purpose = "EMAIL_VERIFICATION"
  BY DEF ConsumeVerification, Spendable
<1>2. /\ req'[c].op = "verifying" /\ req'[c].user = links[l].user
      /\ \A d \in Caller \ {c} : req'[d] = req[d]
  BY DEF ConsumeVerification, Begin, AccountsOK
<1>spent. Spends(l)
  BY <1>1, LinkSpent
<1>3. \A u : /\ SpentOn(u, "PASSWORD_RESET")' = SpentOn(u, "PASSWORD_RESET")
             /\ SpentOn(u, "EMAIL_VERIFICATION") \subseteq SpentOn(u, "EMAIL_VERIFICATION")'
  BY <1>1, <1>spent DEF Spends
<1>4. \A u : u = links[l].user => l \in SpentOn(u, "EMAIL_VERIFICATION")'
  BY <1>1, <1>spent DEF Spends
<1>5. LinksDoTheirOwn'
  BY <1>1, <1>3 DEF LinksInv, LinksDoTheirOwn
<1>6. \A d \in Caller : req'[d].op = "resetting" =>
         /\ req[d].op = "resetting" /\ req'[d] = req[d] /\ req[d].link # l
  BY <1>1, <1>2 DEF LinksInv
<1>7. \A d \in Caller : req'[d].op = "resetting" =>
         /\ req'[d].link \in DOMAIN links'
         /\ links'[req'[d].link].purpose = "PASSWORD_RESET" /\ ~links'[req'[d].link].used
  BY <1>1, <1>6, <1>spent DEF LinksInv, Spends
<1>8. ASSUME NEW d \in Caller, req'[d].op = "verifying"
      PROVE  SpentOn(req[d].user, "EMAIL_VERIFICATION")' # {}
  <2>1. PICK u : u = req'[d].user
    OBVIOUS
  <2>2. SpentOn(u, "EMAIL_VERIFICATION")' # {}
    <3>1. CASE d = c
      BY <1>2, <1>4, <2>1, <3>1
    <3>2. CASE d # c
      BY <1>2, <1>3, <1>8, <2>1, <3>2 DEF LinksInv
    <3> QED
      BY <3>1, <3>2
  <2> QED
    BY <2>1, <2>2
<1> QED
  BY <1>5, <1>6, <1>7, <1>8 DEF LinksInv

LEMMA ConfirmEmailLinks ==
    ASSUME AccountsOK, LinksInv, NEW c \in Caller, ConfirmEmail(c)
    PROVE  LinksInv'
<1>1. PICK u \in User : /\ u = req[c].user /\ req[c].op = "verifying" /\ UNCHANGED links
                        /\ users' = [users EXCEPT ![u] = [users[u] EXCEPT !.verified = TRUE]]
  BY DEF ConfirmEmail, AccountsOK, RequestOK
<1>2. /\ users'[u].password = users[u].password
      /\ \A v \in User \ {u} : users'[v] = users[v]
  BY <1>1 DEF AccountsOK, Account
<1>3. \A v, purpose : SpentOn(v, purpose)' = SpentOn(v, purpose)
  BY <1>1 DEF SpentOn
<1>4. SpentOn(u, "EMAIL_VERIFICATION") # {}
  BY <1>1 DEF LinksInv
<1>5. LinksDoTheirOwn'
  BY <1>2, <1>3, <1>4 DEF LinksInv, LinksDoTheirOwn
<1>6. \A d \in Caller : req'[d].op \in {"resetting", "verifying"} => req'[d] = req[d]
  BY DEF ConfirmEmail, End, Begin, Idle, AccountsOK
<1> QED
  BY <1>1, <1>3, <1>5, <1>6 DEF LinksInv

LEMMA ConsumePasswordResetLinks ==
    ASSUME AccountsOK, LinksInv, NEW c \in Caller, NEW l \in DOMAIN links, ConsumePasswordReset(c, l)
    PROVE  LinksInv'
<1>1. /\ UNCHANGED <<users, links>> /\ ~links[l].used /\ links[l].purpose = "PASSWORD_RESET"
      /\ \A d \in Caller : req[d].op = "resetting" => req[d].link # l
  BY DEF ConsumePasswordReset, Spendable, Spending
<1>2. /\ req'[c].op = "resetting" /\ req'[c].link = l
      /\ \A d \in Caller \ {c} : req'[d] = req[d]
  BY DEF ConsumePasswordReset, Begin, AccountsOK
<1>3. \A u, purpose : SpentOn(u, purpose)' = SpentOn(u, purpose)
  BY <1>1 DEF SpentOn
<1>4. LinksDoTheirOwn'
  BY <1>1, <1>3 DEF LinksInv, LinksDoTheirOwn
<1> QED
  BY <1>1, <1>2, <1>3, <1>4 DEF LinksInv

\* The link, and the password it was for.
LEMMA ResetPasswordLinks ==
    ASSUME AccountsOK, LinksInv, NEW c \in Caller, ResetPassword(c)
    PROVE  LinksInv'
<1>1. PICK l \in DOMAIN links :
         /\ l = req[c].link /\ req[c].op = "resetting"
         /\ links[l].purpose = "PASSWORD_RESET" /\ ~links[l].used
         /\ links' = [links EXCEPT ![l].used = TRUE]
  BY DEF ResetPassword, LinksInv
<1>2. PICK u \in User : /\ u = links[l].user
                        /\ users' = [users EXCEPT ![u] = [users[u] EXCEPT !.password = users[u].password + 1]]
  <2>1. links[l] \in Link
    BY DEF AccountsOK
  <2>2. links[l].user \in User
    BY <2>1 DEF Link
  <2> QED
    BY <1>1, <2>2 DEF ResetPassword
<1>3. /\ users'[u].password = users[u].password + 1 /\ users'[u].verified = users[u].verified
      /\ \A v \in User \ {u} : users'[v] = users[v]
  BY <1>2 DEF AccountsOK, Account
<1>4. \A d \in Caller : req'[d].op \in {"resetting", "verifying"} => d # c /\ req'[d] = req[d]
  BY DEF ResetPassword, End, Begin, Idle, AccountsOK
<1>spent. Spends(l)
  BY <1>1, LinkSpent
<1>5. /\ SpentOn(u, "PASSWORD_RESET")' = SpentOn(u, "PASSWORD_RESET") \cup {l}
      /\ \A v \in User \ {u} : SpentOn(v, "PASSWORD_RESET")' = SpentOn(v, "PASSWORD_RESET")
      /\ \A v : SpentOn(v, "EMAIL_VERIFICATION")' = SpentOn(v, "EMAIL_VERIFICATION")
      /\ l \notin SpentOn(u, "PASSWORD_RESET")
  BY <1>1, <1>2, <1>spent DEF Spends
<1>6. Cardinality(SpentOn(u, "PASSWORD_RESET")') = Cardinality(SpentOn(u, "PASSWORD_RESET")) + 1
  BY <1>5, SpentFinite, FS_AddElement
<1>7. LinksDoTheirOwn'
  BY <1>3, <1>5, <1>6 DEF LinksInv, LinksDoTheirOwn
<1>8. \A d \in Caller : req'[d].op = "resetting" =>
         /\ req'[d].link \in DOMAIN links'
         /\ links'[req'[d].link].purpose = "PASSWORD_RESET" /\ ~links'[req'[d].link].used
  BY <1>1, <1>4, <1>spent DEF LinksInv, Spends
<1>9. \A d \in Caller : req'[d].op = "verifying" => SpentOn(req[d].user, "EMAIL_VERIFICATION")' # {}
  BY <1>4, <1>5 DEF LinksInv
<1> QED
  BY <1>4, <1>7, <1>8, <1>9 DEF LinksInv

LEMMA LinksStep ==
    ASSUME AccountsOK, LinksInv, AccountsStep
    PROVE  LinksInv'
<1>1. ASSUME NEW c \in Caller, NEW r, Begin(c, r), r.op \notin {"resetting", "verifying"}
      PROVE  NobodySpends
  BY <1>1 DEF NobodySpends, Begin, AccountsOK
<1>2. ASSUME NEW users2 \in [User -> Account], users2 = users', UNCHANGED links,
             \A u \in User : users2[u].password = users[u].password /\ users2[u].verified = users[u].verified
      PROVE  LinksKept
  BY <1>2 DEF LinksKept
<1>3. AccountsOK' /\ Idle.op \notin {"resetting", "verifying"}
  BY AccountsStepTypes DEF Idle
<1>4. ASSUME NEW c \in Caller, NEW u \in User, Register(c, u) \/ Login(c, u)
      PROVE  LinksInv'
  <2>1. CASE Register(c, u)
    <3>1. users' = [users EXCEPT ![u] = [users[u] EXCEPT !.status = "ACTIVE"]] /\ UNCHANGED links
      BY <2>1 DEF Register
    <3>2. \A v \in User : users'[v].password = users[v].password /\ users'[v].verified = users[v].verified
      BY <3>1 DEF AccountsOK, Account
    <3>3. LinksKept
      BY <3>1, <3>2 DEF LinksKept
    <3> QED
      BY <1>1, <2>1, <3>3, LinksStay DEF Register
  <2>2. CASE Login(c, u)
    BY <1>1, <2>2, LinksSame, LinksStay DEF Login
  <2> QED
    BY <1>4, <2>1, <2>2
<1>5. ASSUME NEW c \in Caller, NEW t \in DOMAIN tokens, Refresh(c, t) \/ RevokeByToken(c, t)
      PROVE  LinksInv'
  <2>1. Presented(t).op \notin {"resetting", "verifying"}
    BY DEF Presented
  <2> QED
    BY <1>1, <1>5, <2>1, LinksSame, LinksStay DEF Refresh, RevokeByToken
<1>6. ASSUME NEW c \in Caller, Proceed(c)
      PROVE  LinksInv'
  <2>1. CASE SendVerificationEmail(c)
    <3>1. req[c].user \in User
      BY <2>1 DEF SendVerificationEmail, AccountsOK, RequestOK
    <3>2. LinksKept
      BY <2>1, <3>1, LinkMade, LinksSame DEF SendVerificationEmail, Purposes
    <3> QED
      BY <1>1, <2>1, <3>2, LinksStay DEF SendVerificationEmail
  <2>2. CASE IssueSession(c) \/ Rotate(c) \/ RevokeFamily(c) \/ RevokeAllForUser(c)
    BY <1>1, <2>2, LinksSame, LinksStay DEF IssueSession, Rotate, RevokeFamily, RevokeAllForUser, Answer
  <2>3. CASE LockActiveAdmins(c)
    <3>1. [req[c] EXCEPT !.op = "locked"].op = "locked"
      BY <2>3 DEF LockActiveAdmins
    <3> QED
      BY <1>1, <2>3, <3>1, LinksSame, LinksStay DEF LockActiveAdmins
  <2>4. CASE Change(c)
    <3>1. NobodySpends
      BY <2>4 DEF Change, Begin, AccountsOK, NobodySpends
    <3> QED
      BY <2>4, <3>1, LinksSame, LinksStay DEF Change
  <2>5. CASE RefuseChange(c) \/ Crash(c)
    BY <1>1, <1>3, <2>5, LinksSame, LinksStay DEF RefuseChange, Crash, End
  <2>6. CASE CommitChange(c)
    <3>1. PICK u, to : /\ u \in User
                       /\ \/ users' = [users EXCEPT ![u] = [users[u] EXCEPT !.role = to]]
                          \/ users' = [users EXCEPT ![u] = [users[u] EXCEPT !.status = to]]
      BY <2>6 DEF CommitChange, Changed, AccountsOK, RequestOK
    <3>role. ASSUME users' = [users EXCEPT ![u] = [users[u] EXCEPT !.role = to]]
          PROVE  \A v \in User : users'[v].password = users[v].password /\ users'[v].verified = users[v].verified
      BY <3>role DEF AccountsOK, Account
    <3>status. ASSUME users' = [users EXCEPT ![u] = [users[u] EXCEPT !.status = to]]
          PROVE  \A v \in User : users'[v].password = users[v].password /\ users'[v].verified = users[v].verified
      BY <3>status DEF AccountsOK, Account
    <3>2. \A v \in User : users'[v].password = users[v].password /\ users'[v].verified = users[v].verified
      BY <3>1, <3>role, <3>status
    <3>3. LinksKept
      BY <2>6, <3>2 DEF LinksKept, CommitChange
    <3> QED
      BY <1>1, <1>3, <2>6, <3>3, LinksStay DEF CommitChange, End
  <2> QED
    BY <1>6, <2>1, <2>2, <2>3, <2>4, <2>5, <2>6, ConfirmEmailLinks, ResetPasswordLinks DEF Proceed
<1>7. ASSUME NEW c \in Caller, Manage(c) \/ Return(c)
      PROVE  LinksInv'
  <2>1. CASE Return(c)
    BY <1>1, <1>3, <2>1, LinksSame, LinksStay DEF Return, End
  <2>2. ASSUME NEW a \in User, NEW u \in User, NEW column \in {"role", "status"},
               NEW to \in Roles \cup Standings, OpenChange(c, a, u, column, to)
        PROVE  LinksInv'
    BY <1>1, <2>2, LinksSame, LinksStay DEF OpenChange
  <2> QED
    BY <1>7, <2>1, <2>2, ConsumeVerificationLinks, ConsumePasswordResetLinks DEF Manage
<1>8. CASE Environment
  <2>1. UNCHANGED req
    BY <1>8 DEF Environment, RequestPasswordReset, ProvisionAdmin, RevokeSessions, Expire, ExpireLink
  <2>2. NobodySpends
    BY <2>1 DEF NobodySpends
  <2>3. ASSUME NEW u \in User, ProvisionAdmin(u)
        PROVE  LinksKept
    <3>1. users' = [users EXCEPT ![u] = [users[u] EXCEPT !.role = "ADMIN"]] /\ UNCHANGED links
      BY <2>3 DEF ProvisionAdmin
    <3>2. \A v \in User : users'[v].password = users[v].password /\ users'[v].verified = users[v].verified
      BY <3>1 DEF AccountsOK, Account
    <3> QED
      BY <3>1, <3>2 DEF LinksKept
  <2>4. ASSUME NEW u \in User, RequestPasswordReset(u)
        PROVE  LinksKept
    BY <2>4, LinkMade DEF RequestPasswordReset, Purposes
  <2>5. ASSUME NEW l \in DOMAIN links, ExpireLink(l)
        PROVE  LinksKept
    BY <2>5, LinkAged DEF ExpireLink
  <2>6. LinksKept
    BY <1>8, <2>3, <2>4, <2>5, LinksSame DEF Environment, RevokeSessions, Expire
  <2> QED
    BY <2>2, <2>6, LinksStay
<1> QED
  BY <1>4, <1>5, <1>6, <1>7, <1>8 DEF AccountsStep

-----------------------------------------------------------------------------
(* The trail and the standing                                              *)

Entry == [user : User, column : {"role", "status"},
          before : Roles \cup Standings \cup {"NONE"}, after : Roles \cup Standings]

Deliberating(c) == req[c].op \in {"changing", "locked", "changed"}

\* The trail is about accounts that exist, and so is whatever is still being
\* decided: nobody registers under what an entry said.
TrailInv ==
    /\ TrailTellsStanding
    /\ audit \in Seq(Entry)
    /\ \A n \in DOMAIN audit : IsRegistered(audit[n].user)
    /\ \A c \in Caller : Deliberating(c) =>
          IsRegistered(req[c].user) /\ req[c].before \in Roles \cup Standings \cup {"NONE"}

\* No entry, and nobody who is registered changes standing.
TrailKept ==
    /\ UNCHANGED audit
    /\ \A u \in User : users[u].status # "NONE" => users'[u].status = users[u].status

NobodyOpens ==
    \A c \in Caller : req'[c].op \in {"changing", "locked", "changed"} =>
        Deliberating(c) /\ req'[c].user = req[c].user /\ req'[c].before = req[c].before

LEMMA EntriesNameUsers ==
    ASSUME TrailInv
    PROVE  \A n \in DOMAIN audit : audit[n].user \in User
<1>1. \A n \in DOMAIN audit : audit[n] \in Entry
  BY DEF TrailInv
<1> QED
  BY <1>1 DEF Entry

LEMMA TrailStays ==
    ASSUME AccountsOK, TrailInv, TrailKept, NobodyOpens
    PROVE  TrailInv'
<1>1. \A n \in DOMAIN audit : audit[n].user \in User
  BY EntriesNameUsers
<1>2. TrailTellsStanding'
  BY <1>1 DEF TrailInv, TrailKept, TrailTellsStanding, LastSaid, IsRegistered
<1>3. \A n \in DOMAIN audit' : IsRegistered(audit[n].user)'
  BY <1>1 DEF TrailInv, TrailKept, IsRegistered
<1>4. ASSUME NEW c \in Caller, Deliberating(c)'
      PROVE  IsRegistered(req[c].user)' /\ req'[c].before \in Roles \cup Standings \cup {"NONE"}
  <2>1. Deliberating(c) /\ req'[c].user = req[c].user /\ req'[c].before = req[c].before
    BY <1>4 DEF NobodyOpens, Deliberating
  <2>2. req[c].user \in User
    BY <2>1 DEF Deliberating, AccountsOK, RequestOK
  <2> QED
    BY <2>1, <2>2 DEF TrailInv, TrailKept, IsRegistered
<1> QED
  BY <1>2, <1>3, <1>4 DEF TrailInv, TrailKept

LEMMA StatusSame == ASSUME UNCHANGED <<users, audit>> PROVE TrailKept
  BY DEF TrailKept

\* The entry and the standing, committed together.
LEMMA CommitTold ==
    ASSUME AccountsOK, TrailInv, NEW c \in Caller, CommitChange(c)
    PROVE  TrailInv'
<1>1. PICK entry \in Entry :
         /\ entry = AuditEntry(req[c]) /\ audit' = Append(audit, entry)
         /\ entry.user = req[c].user /\ entry.column = req[c].column /\ entry.after = req[c].to
         /\ entry.column = "role" \/ (entry.column = "status" /\ entry.after \in Standings)
  <2>1. /\ req[c].user \in User
        /\ (req[c].column = "role" /\ req[c].to \in Roles) \/ (req[c].column = "status" /\ req[c].to \in Standings)
        /\ req[c].before \in Roles \cup Standings \cup {"NONE"}
    BY DEF CommitChange, TrailInv, Deliberating, AccountsOK, RequestOK
  <2>2. AuditEntry(req[c]) \in Entry
    BY <2>1 DEF AuditEntry, Entry
  <2>3. /\ AuditEntry(req[c]).user = req[c].user /\ AuditEntry(req[c]).column = req[c].column
        /\ AuditEntry(req[c]).after = req[c].to
    BY DEF AuditEntry
  <2> QED
    BY <2>1, <2>2, <2>3 DEF CommitChange
<1>2. /\ audit' \in Seq(Entry) /\ DOMAIN audit' = DOMAIN audit \cup {Len(audit) + 1}
      /\ \A n \in DOMAIN audit : audit'[n] = audit[n]
      /\ audit'[Len(audit) + 1] = entry /\ Len(audit') = Len(audit) + 1
      /\ DOMAIN audit = 1..Len(audit) /\ Len(audit) \in Nat
  BY <1>1 DEF TrailInv
<1>3. entry.user \in User /\ \A n \in DOMAIN audit : audit[n].user \in User
  BY EntriesNameUsers DEF Entry
<1>4. /\ entry.column = "role" => \A u \in User : users'[u].status = users[u].status
      /\ entry.column = "status" =>
            /\ users'[entry.user].status = entry.after
            /\ \A u \in User \ {entry.user} : users'[u].status = users[u].status
  <2>1. CASE req[c].column = "role"
    <3>1. users' = [users EXCEPT ![entry.user] = [users[entry.user] EXCEPT !.role = entry.after]]
      BY <1>1, <2>1 DEF CommitChange, Changed
    <3> QED
      BY <1>1, <1>3, <2>1, <3>1 DEF AccountsOK, Account
  <2>2. CASE req[c].column # "role"
    <3>1. users' = [users EXCEPT ![entry.user] = [users[entry.user] EXCEPT !.status = entry.after]]
      BY <1>1, <2>2 DEF CommitChange, Changed
    <3> QED
      BY <1>1, <1>3, <2>2, <3>1 DEF AccountsOK, Account
  <2> QED
    BY <2>1, <2>2
<1>5. \A u \in User : users[u].status # "NONE" => users'[u].status # "NONE"
  BY <1>1, <1>3, <1>4, AccountsAssumption
<1>6. users'[entry.user].status # "NONE"
  BY <1>1, <1>3, <1>5 DEF TrailInv, Deliberating, IsRegistered, CommitChange
<1>7. ASSUME NEW n \in DOMAIN audit', LastSaid(n)'
      PROVE  users'[audit'[n].user].status = audit'[n].after
  <2>1. /\ audit'[n].column = "status"
        /\ \A m \in n + 1 .. Len(audit') : audit'[m].column = "status" => audit'[m].user # audit'[n].user
    BY <1>7 DEF LastSaid
  <2>2. CASE n = Len(audit) + 1
    BY <1>2, <1>4, <2>1, <2>2
  <2>3. CASE n \in DOMAIN audit
    <3>1. LastSaid(n)
      BY <1>2, <2>1, <2>3 DEF LastSaid
    <3>2. entry.column = "status" => entry.user # audit[n].user
      BY <1>2, <2>1, <2>3
    <3>3. users[audit[n].user].status = audit[n].after
      BY <2>3, <3>1 DEF TrailInv, TrailTellsStanding
    <3> QED
      BY <1>1, <1>2, <1>3, <1>4, <2>3, <3>2, <3>3
  <2> QED
    BY <1>2, <2>2, <2>3
<1>8. \A n \in DOMAIN audit' : IsRegistered(audit[n].user)'
  BY <1>2, <1>3, <1>5, <1>6 DEF TrailInv, IsRegistered
<1>9. ASSUME NEW d \in Caller, Deliberating(d)'
      PROVE  IsRegistered(req[d].user)' /\ req'[d].before \in Roles \cup Standings \cup {"NONE"}
  <2>1. Deliberating(d) /\ req'[d] = req[d]
    BY <1>9 DEF CommitChange, End, Begin, Idle, AccountsOK, Deliberating
  <2>2. req[d].user \in User
    BY <2>1 DEF Deliberating, AccountsOK, RequestOK
  <2> QED
    BY <1>5, <2>1, <2>2 DEF TrailInv, IsRegistered
<1> QED
  BY <1>2, <1>7, <1>8, <1>9 DEF TrailInv, TrailTellsStanding

\* What the account was when the change was asked for.
LEMMA OpenTold ==
    ASSUME AccountsOK, TrailInv, NEW c \in Caller, NEW a \in User, NEW u \in User,
           NEW column \in {"role", "status"}, NEW to \in Roles \cup Standings, OpenChange(c, a, u, column, to)
    PROVE  TrailInv'
<1>1. users[u][column] \in Roles \cup Standings \cup {"NONE"}
  <2>1. users[u] \in Account
    BY DEF AccountsOK
  <2>2. users[u].role \in Roles /\ users[u].status \in Standings \cup {"NONE"}
    BY <2>1 DEF Account
  <2> QED
    BY <2>2
<1>2. /\ req'[c].user = u /\ req'[c].before = users[u][column]
      /\ \A d \in Caller \ {c} : req'[d] = req[d]
      /\ UNCHANGED <<users, audit>> /\ IsRegistered(u)
  BY DEF OpenChange, Begin, AccountsOK
<1>3. \A d \in Caller : Deliberating(d)' =>
         IsRegistered(req'[d].user) /\ req'[d].before \in Roles \cup Standings \cup {"NONE"}
  BY <1>1, <1>2 DEF TrailInv, Deliberating
<1> QED
  BY <1>2, <1>3 DEF TrailInv, TrailTellsStanding, LastSaid, IsRegistered

LEMMA TrailStep ==
    ASSUME AccountsOK, TrailInv, AccountsStep
    PROVE  TrailInv'
<1>1. ASSUME NEW c \in Caller, NEW r, Begin(c, r), r.op \notin {"changing", "locked", "changed"}
      PROVE  NobodyOpens
  BY <1>1 DEF NobodyOpens, Begin, AccountsOK, Deliberating
<1>2. Idle.op \notin {"changing", "locked", "changed"}
  BY DEF Idle
<1>3. ASSUME NEW c \in Caller, NEW u \in User, Register(c, u) \/ Login(c, u)
      PROVE  TrailInv'
  <2>1. CASE Register(c, u)
    <3>1. users' = [users EXCEPT ![u] = [users[u] EXCEPT !.status = "ACTIVE"]] /\ UNCHANGED audit
      BY <2>1 DEF Register
    <3>2. TrailKept
      BY <2>1, <3>1 DEF AccountsOK, TrailKept, Register, IsRegistered
    <3> QED
      BY <1>1, <2>1, <3>2, TrailStays DEF Register
  <2>2. CASE Login(c, u)
    BY <1>1, <2>2, StatusSame, TrailStays DEF Login
  <2> QED
    BY <1>3, <2>1, <2>2
<1>4. ASSUME NEW c \in Caller, NEW t \in DOMAIN tokens, Refresh(c, t) \/ RevokeByToken(c, t)
      PROVE  TrailInv'
  <2>1. Presented(t).op \notin {"changing", "locked", "changed"}
    BY DEF Presented
  <2> QED
    BY <1>1, <1>4, <2>1, StatusSame, TrailStays DEF Refresh, RevokeByToken
<1>5. ASSUME NEW c \in Caller, Proceed(c)
      PROVE  TrailInv'
  <2>1. CASE \/ SendVerificationEmail(c) \/ IssueSession(c) \/ Rotate(c)
             \/ RevokeFamily(c) \/ RevokeAllForUser(c)
    BY <1>1, <2>1, StatusSame, TrailStays
    DEF SendVerificationEmail, IssueSession, Rotate, RevokeFamily, RevokeAllForUser, Answer
  <2>2. CASE LockActiveAdmins(c) \/ Change(c)
    <3>1. Deliberating(c) /\ UNCHANGED <<users, audit>>
      BY <2>2 DEF LockActiveAdmins, Change, Deliberating
    <3>2. PICK r : Begin(c, r) /\ r.user = req[c].user /\ r.before = req[c].before
      <4>1. [req[c] EXCEPT !.op = "locked"].user = req[c].user
        OBVIOUS
      <4>2. [req[c] EXCEPT !.op = "locked"].before = req[c].before
        OBVIOUS
      <4>3. \A ts : LET r == [req[c] EXCEPT !.op = "changed", !.revoking = ts]
                    IN  r.user = req[c].user /\ r.before = req[c].before
        OBVIOUS
      <4> QED
        BY <2>2, <4>1, <4>2, <4>3 DEF LockActiveAdmins, Change
    <3>3. NobodyOpens
      BY <3>1, <3>2 DEF Begin, AccountsOK, NobodyOpens, Deliberating
    <3> QED
      BY <3>1, <3>3, StatusSame, TrailStays
  <2>3. CASE RefuseChange(c) \/ Crash(c)
    BY <1>1, <1>2, <2>3, StatusSame, TrailStays DEF RefuseChange, Crash, End
  <2>4. CASE ConfirmEmail(c)
    <3>1. PICK u : users' = [users EXCEPT ![u] = [users[u] EXCEPT !.verified = TRUE]]
      BY <2>4 DEF ConfirmEmail
    <3>2. \A v \in User : users'[v].status = users[v].status
      BY <3>1 DEF AccountsOK, Account
    <3> QED
      BY <1>1, <1>2, <2>4, <3>2, TrailStays DEF ConfirmEmail, End, TrailKept
  <2>5. CASE ResetPassword(c)
    <3>1. PICK u : users' = [users EXCEPT ![u] = [users[u] EXCEPT !.password = users[u].password + 1]]
      BY <2>5 DEF ResetPassword
    <3>2. \A v \in User : users'[v].status = users[v].status
      BY <3>1 DEF AccountsOK, Account
    <3> QED
      BY <1>1, <1>2, <2>5, <3>2, TrailStays DEF ResetPassword, End, TrailKept
  <2> QED
    BY <1>5, <2>1, <2>2, <2>3, <2>4, <2>5, CommitTold DEF Proceed
<1>6. ASSUME NEW c \in Caller, Manage(c) \/ Return(c)
      PROVE  TrailInv'
  <2>1. CASE Return(c)
    BY <1>1, <1>2, <2>1, StatusSame, TrailStays DEF Return, End
  <2>2. ASSUME NEW l \in DOMAIN links, ConsumeVerification(c, l) \/ ConsumePasswordReset(c, l)
        PROVE  TrailInv'
    BY <1>1, <2>2, StatusSame, TrailStays DEF ConsumeVerification, ConsumePasswordReset
  <2> QED
    BY <1>6, <2>1, <2>2, OpenTold DEF Manage
<1>7. CASE Environment
  <2>1. UNCHANGED <<req, audit>>
    BY <1>7 DEF Environment, RequestPasswordReset, ProvisionAdmin, RevokeSessions, Expire, ExpireLink
  <2>2. NobodyOpens
    BY <2>1 DEF NobodyOpens, Deliberating
  <2>3. ASSUME NEW u \in User, ProvisionAdmin(u)
        PROVE  TrailKept
    <3>1. users' = [users EXCEPT ![u] = [users[u] EXCEPT !.role = "ADMIN"]]
      BY <2>3 DEF ProvisionAdmin
    <3>2. \A v \in User : users'[v].status = users[v].status
      BY <3>1 DEF AccountsOK, Account
    <3> QED
      BY <2>1, <3>2 DEF TrailKept
  <2>4. TrailKept
    BY <1>7, <2>1, <2>3, StatusSame DEF Environment, RequestPasswordReset, RevokeSessions, Expire, ExpireLink
  <2> QED
    BY <2>2, <2>4, TrailStays
<1> QED
  BY <1>3, <1>4, <1>5, <1>6, <1>7 DEF AccountsStep

-----------------------------------------------------------------------------
(* The browser's session and its end                                       *)

\* What can no longer be exchanged stays so.
LessLive ==
    \A t \in DOMAIN tokens :
        /\ t \in DOMAIN tokens'
        /\ tokens[t].used => tokens'[t].used
        /\ ~Live(t) => ~Live(t)'

\* Of a tab that awaits a refresh: whose token is under way, and what is known
\* of it by the time the API refuses it or has exchanged it.
RefreshTold(c) ==
    /\ tab[c].token \in DOMAIN tokens
    /\ \/ req[c] = Idle
       \/ req[c].op = "answered" /\ ~Live(tab[c].token)
       \/ req[c].op \in {"rotating", "revokingAll"} /\ req[c].token = tab[c].token
       \/ req[c].op = "revokingFamily" /\ req[c].token = tab[c].token /\ tokens[tab[c].token].used

\* And of one that retries its call: what it had presented is spent.
Told(c) ==
    /\ tab[c].awaits = "refresh" => RefreshTold(c)
    /\ tab[c].awaits = "retry" => tab[c].token \in DOMAIN tokens /\ ~Live(tab[c].token)

TabsTold == DOMAIN tab = Caller /\ \A c \in Caller : Told(c)

LEMMA RevokedKills ==
    ASSUME tokens \in Seq(Token), NEW ts, tokens' = Revoked(ts)
    PROVE  LessLive /\ \A t \in ts \cap DOMAIN tokens : ~Live(t)'
<1>1. /\ DOMAIN tokens' = DOMAIN tokens
      /\ \A t \in DOMAIN tokens :
            tokens'[t] = IF t \in ts THEN [tokens[t] EXCEPT !.revoked = TRUE] ELSE tokens[t]
  BY DEF Revoked
<1>2. \A t \in DOMAIN tokens : tokens[t] \in Token
  OBVIOUS
<1>3. \A t \in DOMAIN tokens :
         /\ t \in ts => tokens'[t].revoked
         /\ t \notin ts => tokens'[t] = tokens[t]
         /\ tokens'[t].used = tokens[t].used /\ tokens'[t].expired = tokens[t].expired
  BY <1>1, <1>2 DEF Token
<1> QED
  BY <1>1, <1>3 DEF LessLive, Live

LEMMA SpentKills ==
    ASSUME AccountsOK, NEW c \in Caller, IssueSession(c) \/ Rotate(c)
    PROVE  LessLive
<1>1. tokens \in Seq(Token) /\ \A t \in DOMAIN tokens : tokens[t] \in Token
  BY DEF AccountsOK
<1>2. CASE IssueSession(c)
  <2>1. PICK row \in Token : tokens' = Append(tokens, row)
    BY <1>2, Issued
  <2>2. \A t \in DOMAIN tokens : t \in DOMAIN tokens' /\ tokens'[t] = tokens[t]
    BY <1>1, <2>1
  <2> QED
    BY <2>2 DEF LessLive, Live
<1>3. CASE Rotate(c)
  <2>1. PICK t \in DOMAIN tokens, row \in Token, spent \in Token :
          tokens' = Append([tokens EXCEPT ![t] = spent], row) /\ spent.used
    BY <1>3, Issued
  <2>2. /\ \A s \in DOMAIN tokens : s \in DOMAIN tokens'
        /\ tokens'[t] = spent /\ \A s \in DOMAIN tokens : s # t => tokens'[s] = tokens[s]
    BY <1>1, <2>1
  <2> QED
    BY <2>1, <2>2 DEF LessLive, Live
<1> QED
  BY <1>2, <1>3

LEMMA TokensSame == ASSUME UNCHANGED tokens PROVE LessLive
  BY DEF LessLive, Live

LEMMA DeadStay ==
    ASSUME AccountsOK, AccountsStep
    PROVE  LessLive
<1>1. tokens \in Seq(Token) /\ \A t \in DOMAIN tokens : tokens[t] \in Token
  BY DEF AccountsOK
<1>2. ASSUME NEW c \in Caller, Proceed(c)
      PROVE  LessLive
  <2>1. CASE RevokeFamily(c) \/ RevokeAllForUser(c) \/ ResetPassword(c) \/ CommitChange(c)
    BY <1>1, <2>1, RevokedKills DEF RevokeFamily, RevokeAllForUser, ResetPassword, CommitChange
  <2>2. CASE UNCHANGED tokens
    BY <2>2, TokensSame
  <2> QED
    BY <1>2, <2>1, <2>2, SpentKills
    DEF Proceed, SendVerificationEmail, ConfirmEmail, LockActiveAdmins, Change, RefuseChange, Crash
<1>3. CASE Environment
  <2>1. ASSUME NEW a \in User, NEW u \in User, RevokeSessions(a, u)
        PROVE  LessLive
    BY <1>1, <2>1, RevokedKills DEF RevokeSessions
  <2>2. ASSUME NEW t \in DOMAIN tokens, Expire(t)
        PROVE  LessLive
    <3>1. tokens' = [tokens EXCEPT ![t] = [tokens[t] EXCEPT !.expired = TRUE]]
      BY <2>2 DEF Expire
    <3>2. /\ DOMAIN tokens' = DOMAIN tokens
          /\ tokens'[t].expired /\ tokens'[t].used = tokens[t].used
          /\ \A s \in DOMAIN tokens : s # t => tokens'[s] = tokens[s]
      BY <1>1, <3>1 DEF Token
    <3> QED
      BY <3>2 DEF LessLive, Live
  <2> QED
    BY <1>3, <2>1, <2>2, TokensSame DEF Environment, RequestPasswordReset, ProvisionAdmin, ExpireLink
<1>4. ASSUME NEW c \in Caller, Manage(c) \/ Return(c)
      PROVE  LessLive
  BY <1>4, TokensSame DEF Manage, Return, ConsumeVerification, ConsumePasswordReset, OpenChange
<1> QED
  BY <1>2, <1>3, <1>4, TokensSame DEF AccountsStep, Register, Login, Refresh, RevokeByToken

LEMMA ToldStays ==
    ASSUME NEW d \in Caller, Told(d), LessLive, req'[d] = req[d] \/ req'[d] = Idle,
           tab'[d] = tab[d] \/ tab'[d].awaits \notin {"refresh", "retry"}
    PROVE  Told(d)'
  BY DEF Told, RefreshTold, LessLive, Live, Idle

\* A request that goes on, and the other tabs.
LEMMA ProceedTells ==
    ASSUME AccountsOK, TabsTold, NEW c \in Caller, Proceed(c), UNCHANGED tab
    PROVE  TabsTold'
<1>1. LessLive
  BY DeadStay DEF AccountsStep
<1>2. \A d \in Caller \ {c} : req'[d] = req[d]
  BY DEF Proceed, SendVerificationEmail, IssueSession, Rotate, RevokeFamily, RevokeAllForUser,
     ConfirmEmail, ResetPassword, LockActiveAdmins, Change, RefuseChange, CommitChange, Crash,
     Answer, End, Begin, AccountsOK
<1>3. ASSUME tab[c].awaits = "refresh"
      PROVE  Told(c)'
  <2>1. PICK t : t = tab[c].token
    OBVIOUS
  <2>2. t \in DOMAIN tokens /\ tab'[c].token = t /\ t \in DOMAIN tokens' /\ tokens[t] \in Token
    BY <1>1, <1>3, <2>1 DEF TabsTold, Told, RefreshTold, LessLive, AccountsOK
  <2>3. req[c] = Idle \/ req[c].op \in {"answered", "rotating", "revokingAll", "revokingFamily"}
    BY <1>3 DEF TabsTold, Told, RefreshTold
  <2>4. CASE Rotate(c)
    <3>1. req'[c].op = "answered"
      BY <2>4 DEF Rotate, Answer, Begin, AccountsOK
    <3>2. req[c].token = t
      BY <1>3, <2>1, <2>4 DEF TabsTold, Told, RefreshTold, Rotate, Idle
    <3>3. tokens'[t].used
      <4>1. PICK row, spent :
              tokens' = Append([tokens EXCEPT ![t] = spent], row) /\ spent.used
        BY <2>4, <3>2, Issued
      <4> QED
        BY <2>2, <4>1 DEF AccountsOK
    <3> QED
      BY <1>3, <2>1, <2>2, <3>1, <3>3 DEF Told, RefreshTold, Live
  <2>5. CASE RevokeFamily(c)
    <3>1. req'[c].op = "answered"
      BY <2>5 DEF RevokeFamily, Answer, Begin, AccountsOK
    <3>2. tokens[t].used
      BY <1>3, <2>1, <2>3, <2>5 DEF TabsTold, Told, RefreshTold, RevokeFamily, Idle
    <3>3. ~Live(t)'
      BY <1>1, <2>2, <3>2 DEF LessLive, Live
    <3> QED
      BY <1>3, <2>1, <2>2, <3>1, <3>3 DEF Told, RefreshTold, Live
  <2>6. CASE RevokeAllForUser(c)
    <3>1. req'[c].op = "answered"
      BY <2>6 DEF RevokeAllForUser, Answer, Begin, AccountsOK
    <3>2. req[c].token = t /\ tokens' = Revoked(TokensOf(tokens[t].user))
      BY <1>3, <2>1, <2>6 DEF TabsTold, Told, RefreshTold, RevokeAllForUser, Idle
    <3>3. ~Live(t)'
      <4>1. CASE t \in TokensOf(tokens[t].user)
        BY <2>2, <3>2, <4>1, RevokedKills DEF AccountsOK
      <4>2. CASE t \notin TokensOf(tokens[t].user)
        BY <1>1, <2>2, <4>2 DEF TokensOf, LessLive, Live
      <4> QED
        BY <4>1, <4>2
    <3> QED
      BY <1>3, <2>1, <2>2, <3>1, <3>3 DEF Told, RefreshTold, Live
  <2>7. CASE Crash(c)
    BY <1>1, <2>7, ToldStays DEF Crash, End, Begin, AccountsOK, TabsTold
  <2>8. /\ ~SendVerificationEmail(c) /\ ~IssueSession(c) /\ ~ConfirmEmail(c) /\ ~ResetPassword(c)
        /\ ~LockActiveAdmins(c) /\ ~Change(c) /\ ~RefuseChange(c) /\ ~CommitChange(c)
    <3>1. req[c].op \in {"idle", "answered", "rotating", "revokingAll", "revokingFamily"}
      BY <2>3 DEF Idle
    <3> QED
      BY <3>1 DEF SendVerificationEmail, IssueSession, ConfirmEmail, ResetPassword,
                  LockActiveAdmins, Change, RefuseChange, CommitChange
  <2> QED
    BY <2>4, <2>5, <2>6, <2>7, <2>8 DEF Proceed
<1>4. ASSUME tab[c].awaits # "refresh"
      PROVE  Told(c)'
  BY <1>1, <1>4 DEF TabsTold, Told, LessLive, Live
<1> QED
  BY <1>1, <1>2, <1>3, <1>4, ToldStays DEF TabsTold

\* A tab that presents the cookie it has read.
LEMMA RefreshTells ==
    ASSUME AccountsOK, WebOK, TabsTold, NEW c \in Caller, RefreshSession(c)
    PROVE  TabsTold'
<1>1. PICK t \in DOMAIN tokens : t = cookie
  BY DEF RefreshSession, WebOK, AccountsOK
<1>2. /\ UNCHANGED tokens /\ req' = [req EXCEPT ![c] = Presented(t)]
      /\ tab' = [tab EXCEPT ![c] = [awaits |-> "refresh", token |-> t]]
  BY <1>1 DEF RefreshSession, Refresh, Begin
<1>3. \A d \in Caller \ {c} : req'[d] = req[d] /\ tab'[d] = tab[d]
  BY <1>2 DEF TabsTold, AccountsOK
<1>4. req'[c] = Presented(t) /\ tab'[c].awaits = "refresh" /\ tab'[c].token = t
  BY <1>2 DEF TabsTold, AccountsOK
<1>5. \/ Presented(t).op = "answered" /\ ~Live(t)
      \/ Presented(t).op \in {"rotating", "revokingAll"} /\ Presented(t).token = t
      \/ Presented(t).op = "revokingFamily" /\ Presented(t).token = t /\ tokens[t].used
  BY DEF Presented, Live
<1>6. Told(c)'
  BY <1>2, <1>4, <1>5 DEF Told, RefreshTold, Live
<1>7. \A d \in Caller \ {c} : Told(d)'
  BY <1>2, <1>3, TokensSame, ToldStays DEF TabsTold
<1> QED
  BY <1>2, <1>6, <1>7 DEF TabsTold

\* Every step of a tab, and of the clients and administrators beside it.
LEMMA WebTells ==
    ASSUME AccountsOK, WebOK, TabsTold, WebNext
    PROVE  TabsTold'
<1>1. LessLive
  <2>1. CASE AccountsStep
    BY <2>1, DeadStay
  <2>2. CASE UNCHANGED vars
    BY <2>2, TokensSame DEF vars
  <2> QED
    BY <2>1, <2>2, WebSteps
<1>2. ASSUME NEW c \in Caller, \A d \in Caller \ {c} : req'[d] = req[d] /\ tab'[d] = tab[d],
             DOMAIN tab' = Caller, tab'[c].awaits \notin {"refresh", "retry"}
      PROVE  TabsTold'
  BY <1>1, <1>2, ToldStays DEF TabsTold, Told
<1>3. ASSUME NEW c \in Caller, Web(c), ~RefreshSession(c), ~Refreshed(c)
      PROVE  TabsTold'
  <2>1. \A d \in Caller \ {c} : req'[d] = req[d]
    BY <1>3 DEF Web, EstablishSession, Accepted, Retried, RefusedAgain, Ended401, Unanswered,
       EndSession, OtherClient,
       Login, Register, Refresh, RevokeByToken, Return, End, Begin, vars, AccountsOK
  <2>2. /\ DOMAIN tab' = Caller /\ \A d \in Caller \ {c} : tab'[d] = tab[d]
        /\ tab'[c].awaits \notin {"refresh", "retry"}
    BY <1>3 DEF Web, EstablishSession, Accepted, Retried, RefusedAgain, Ended401, Unanswered,
       EndSession, OtherClient,
       TabsTold, Quiet
  <2> QED
    BY <1>2, <2>1, <2>2
<1>4. ASSUME NEW c \in Caller, tab[c] = Quiet, Manage(c), UNCHANGED tab
      PROVE  TabsTold'
  <2>1. \A d \in Caller \ {c} : req'[d] = req[d]
    BY <1>4 DEF Manage, ConsumeVerification, ConsumePasswordReset, OpenChange, Begin, AccountsOK
  <2> QED
    BY <1>2, <1>4, <2>1 DEF TabsTold, Quiet
<1>5. CASE Environment /\ UNCHANGED tab
  <2>1. UNCHANGED req
    BY <1>5 DEF Environment, RequestPasswordReset, ProvisionAdmin, RevokeSessions, Expire, ExpireLink
  <2> QED
    BY <1>1, <1>5, <2>1, ToldStays DEF TabsTold
<1>6. ASSUME NEW c \in Caller, Refreshed(c)
      PROVE  TabsTold'
  <2>1. UNCHANGED tokens /\ req' = [req EXCEPT ![c] = Idle]
    BY <1>6 DEF Refreshed, Return, End, Begin
  <2>2. /\ DOMAIN tab' = Caller /\ \A d \in Caller \ {c} : tab'[d] = tab[d] /\ req'[d] = req[d]
        /\ tab'[c].awaits = "retry" /\ tab'[c].token = tab[c].token
    BY <1>6, <2>1 DEF Refreshed, TabsTold, AccountsOK
  <2>3. tab[c].token \in DOMAIN tokens /\ ~Live(tab[c].token)
    BY <1>6 DEF Refreshed, TabsTold, Told, RefreshTold, Idle
  <2>4. Told(c)'
    BY <2>1, <2>2, <2>3 DEF Told, Live
  <2>5. \A d \in Caller \ {c} : Told(d)'
    BY <1>1, <2>2, ToldStays DEF TabsTold
  <2> QED
    BY <2>2, <2>4, <2>5 DEF TabsTold
<1> QED
  BY <1>3, <1>4, <1>5, <1>6, RefreshTells, ProceedTells DEF WebNext

-----------------------------------------------------------------------------
(* The theorems *)

SessionsInv == AccountsOK /\ WebOK /\ GripOnAdmins /\ Kinship

\* The invariant holds of every state that signing in, refreshing, resetting,
\* administering and crashing can reach.
THEOREM SessionsInductive == WebSpec => []SessionsInv
<1>1. WebInit => SessionsInv
  <2>1. ASSUME WebInit PROVE SessionsInv
    <3>1. AccountsOK
      <4>1. users \in [User -> Account]
        BY <2>1, AccountsAssumption DEF WebInit, Init, Account, Roles
      <4> QED
        BY <2>1, <4>1 DEF WebInit, Init, AccountsOK, RequestOK, Idle
    <3>2. WebOK
      BY <2>1 DEF WebInit, Init, WebOK, Quiet
    <3>3. GripOnAdmins
      <4>1. ActiveAdmins(users) = InitialAdmins
        BY <2>1, AccountsAssumption DEF WebInit, Init, ActiveAdmins
      <4> QED
        BY <2>1, <4>1, AccountsAssumption
        DEF WebInit, Init, GripOnAdmins, AnAdminAlwaysRemains, Deciding, Idle
    <3>4. Kinship
      BY <2>1 DEF WebInit, Init, Kinship, ForksOverlap
    <3> QED
      BY <3>1, <3>2, <3>3, <3>4 DEF SessionsInv
  <2> QED
    BY <2>1
<1>2. SessionsInv /\ [WebNext]_webVars => SessionsInv'
  <2> SUFFICES ASSUME SessionsInv, [WebNext]_webVars PROVE SessionsInv'
    OBVIOUS
  <2>1. AccountsOK /\ WebOK /\ GripOnAdmins /\ Kinship
    BY DEF SessionsInv
  <2>2. CASE AccountsStep /\ WebNext
    BY <2>1, <2>2, AccountsStepTypes, WebSteps, GripStep, KinshipStep DEF SessionsInv
  <2>3. CASE UNCHANGED vars /\ (WebNext \/ UNCHANGED webVars)
    <3>1. AccountsOK' /\ GripOnAdmins' /\ Kinship'
      BY <2>1, <2>3 DEF vars, AccountsOK, GripOnAdmins, AnAdminAlwaysRemains, ActiveAdmins, Changed,
         Deciding, Kinship, ForksOverlap
    <3>2. Kin
      BY <2>1, <2>3 DEF vars, Kin, AccountsOK
    <3>3. WebOK'
      <4>1. CASE WebNext
        BY <2>1, <3>1, <3>2, <4>1, WebSteps
      <4>2. CASE UNCHANGED webVars
        BY <2>1, <4>2 DEF webVars, vars, WebOK
      <4> QED
        BY <2>3, <4>1, <4>2
    <3> QED
      BY <3>1, <3>3 DEF SessionsInv
  <2> QED
    BY <2>1, <2>2, <2>3, WebSteps DEF webVars
<1> QED
  BY <1>1, <1>2, PTL DEF WebSpec

\* Accounts, tokens, links, requests and the browser's cookie keep their types,
\* for every set of users, callers and standings.
THEOREM TypeCorrect == WebSpec => []TypeOK
<1>1. SessionsInv => TypeOK
  BY DEF SessionsInv, AccountsOK, WebOK, TypeOK
<1> QED
  BY <1>1, SessionsInductive, PTL

\* However many administrators demote, suspend and appoint one another at the
\* same time, one who is active remains (lockActiveAdmins, assertAnAdminRemains).
THEOREM AdminsRemain == WebSpec => []AnAdminAlwaysRemains
<1>1. SessionsInv => AnAdminAlwaysRemains
  BY DEF SessionsInv, GripOnAdmins
<1> QED
  BY <1>1, SessionsInductive, PTL

\* However many clients present one refresh token, a second successor comes only
\* of a rotation that read the token before the first one existed (rotate).
THEOREM ForksAreOverlaps == WebSpec => []ForksOverlap
<1>1. SessionsInv => ForksOverlap
  BY DEF SessionsInv, Kinship
<1> QED
  BY <1>1, SessionsInductive, PTL

\* Whatever moves the accounts, the web server included, is a step of theirs.
LEMMA StepsOfAccounts ==
    ASSUME SessionsInv, [WebNext]_webVars
    PROVE  AccountsStep \/ UNCHANGED vars
  BY WebSteps DEF SessionsInv, webVars

\* However clicks on the links race and handlers crash, the links spent on a
\* password are as many as the passwords that were set, and an address is
\* verified only by a link that was for it (resetPassword, confirmEmail).
THEOREM LinksDo == WebSpec => []LinksDoTheirOwn
<1>1. WebInit => LinksInv
  <2>1. ASSUME WebInit PROVE LinksInv
    <3>1. \A u, purpose : SpentOn(u, purpose) = {}
      BY <2>1 DEF WebInit, Init, SpentOn
    <3>2. Cardinality({}) = 0
      BY FS_EmptySet
    <3> QED
      BY <2>1, <3>1, <3>2 DEF WebInit, Init, LinksInv, LinksDoTheirOwn, Idle
  <2> QED
    BY <2>1
<1>2. SessionsInv /\ LinksInv /\ [WebNext]_webVars => LinksInv'
  <2> SUFFICES ASSUME SessionsInv, LinksInv, [WebNext]_webVars PROVE LinksInv'
    OBVIOUS
  <2>1. CASE AccountsStep
    BY <2>1, LinksStep DEF SessionsInv
  <2>2. CASE UNCHANGED vars
    BY <2>2, LinksSame, LinksStay DEF vars, NobodySpends
  <2> QED
    BY <2>1, <2>2, StepsOfAccounts
<1>3. LinksInv => LinksDoTheirOwn
  BY DEF LinksInv
<1> QED
  BY <1>1, <1>2, <1>3, SessionsInductive, PTL DEF WebSpec

\* However administrators' changes are refused, rolled back or cut short, what
\* the trail last says of an account's standing is what it is (setStatus).
THEOREM TrailIsTrue == WebSpec => []TrailTellsStanding
<1>1. WebInit => TrailInv
  BY DEF WebInit, Init, TrailInv, TrailTellsStanding, Deliberating, Idle
<1>2. SessionsInv /\ TrailInv /\ [WebNext]_webVars => TrailInv'
  <2> SUFFICES ASSUME SessionsInv, TrailInv, [WebNext]_webVars PROVE TrailInv'
    OBVIOUS
  <2>1. CASE AccountsStep
    BY <2>1, TrailStep DEF SessionsInv
  <2>2. CASE UNCHANGED vars
    BY <2>2, StatusSame, TrailStays DEF vars, NobodyOpens, Deliberating, SessionsInv
  <2> QED
    BY <2>1, <2>2, StepsOfAccounts
<1>3. TrailInv => TrailTellsStanding
  BY DEF TrailInv
<1> QED
  BY <1>1, <1>2, <1>3, SessionsInductive, PTL DEF WebSpec

\* Whatever is lost, crashes or comes late, a session is taken from the browser
\* only when the token its request presented is dead: the refresh was refused, or
\* it exchanged that token and the retried call is refused as well.  Of the token
\* issued in exchange, which is thrown away with it, nothing is said (apiAuthed).
THEOREM ClearedWasDead == WebSpec => ClearedIsDead
<1>1. WebInit => TabsTold
  BY DEF WebInit, Init, TabsTold, Told, Quiet
<1>2. SessionsInv /\ TabsTold /\ [WebNext]_webVars => TabsTold'
  <2> SUFFICES ASSUME SessionsInv, TabsTold, [WebNext]_webVars PROVE TabsTold'
    OBVIOUS
  <2>1. CASE WebNext
    BY <2>1, WebTells DEF SessionsInv
  <2>2. CASE UNCHANGED webVars
    BY <2>2, TokensSame, ToldStays DEF webVars, vars, TabsTold
  <2> QED
    BY <2>1, <2>2
<1>3. TabsTold => [\A c \in Caller :
                      Ended401(c) \/ RefusedAgain(c) => ~Live(tab[c].token)]_webVars
  <2> SUFFICES ASSUME TabsTold, NEW c \in Caller, Ended401(c) \/ RefusedAgain(c)
               PROVE  ~Live(tab[c].token)
    OBVIOUS
  <2>1. Told(c)
    BY DEF TabsTold
  <2> QED
    BY <2>1 DEF Told, RefreshTold, Ended401, RefusedAgain, Transient
<1> QED
  BY <1>1, <1>2, <1>3, SessionsInductive, PTL DEF WebSpec, ClearedIsDead

=============================================================================
