------------------------------ MODULE Throttles ------------------------------
(***************************************************************************)
(* The counters in Redis that bound failed logins and requests to the      *)
(* public endpoints: LoginThrottleService, PublicThrottleService, and what *)
(* AuthService.login does with the first.                                  *)
(*                                                                         *)
(* A login counts itself against its account and its address before the    *)
(* password is verified, in two transactions that run side by side, and    *)
(* gives the places back if the password was right.  A public request      *)
(* counts itself against its endpoint and address and never gives back.    *)
(*                                                                         *)
(* INCR and EXPIRE NX are one transaction, so every counter that exists    *)
(* expires; one that does not exist counts as 0.                           *)
(***************************************************************************)
EXTENDS Integers, FiniteSets

CONSTANTS
    Attempt,        \* requests in progress
    Email,          \* normalized addresses of accounts, registered or not
    Source,         \* IP addresses
    Unknown,        \* the address of a caller who has none
    Bucket,         \* public endpoints
    MaxPerAccount, MaxPerSource, MaxPerBucket,
    MaxLost         \* how many answers of Redis are lost

ASSUME ThrottlesAssumption ==
    /\ IsFiniteSet(Attempt)
    /\ Unknown \notin Source
    /\ {MaxPerAccount, MaxPerSource, MaxPerBucket} \subseteq Nat \ {0}
    /\ MaxLost \in Nat

VARIABLES
    counters,   \* Redis
    attempts,   \* where each request stands
    admitted,   \* wrong passwords, or public requests served, since the
                \* counter last expired or was cleared
    lost

throttleVars == <<counters, attempts, admitted, lost>>

-----------------------------------------------------------------------------
Keys == Email \cup Source \cup (Bucket \X Source)

Limit(k) == CASE k \in Email -> MaxPerAccount
              [] k \in Source -> MaxPerSource
              [] OTHER -> MaxPerBucket

Waiting == [op |-> "waiting"]

KnownSource(s) == {s} \ {Unknown}

\* No more is counted than it takes to tell what is refused: a bound.
Countable(k) == counters[k] <= Limit(k)

Attending(a, state) == attempts' = [attempts EXCEPT ![a] = state]

-----------------------------------------------------------------------------
\* login: reserveAttempt takes a place in both counters; a caller without an
\* address has none in the second.
Login(a, email, s) ==
    /\ attempts[a] = Waiting
    /\ \A k \in {email} \cup KnownSource(s) : Countable(k)
    /\ Attending(a, [op |-> "reserving", keys |-> {email} \cup KnownSource(s),
                     todo |-> {email} \cup KnownSource(s), within |-> TRUE])
    /\ UNCHANGED <<counters, admitted, lost>>

\* canActivate: a public request; one without an address is not counted.
Request(a, bucket, s) ==
    /\ attempts[a] = Waiting
    /\ s # Unknown /\ Countable(<<bucket, s>>)
    /\ Attending(a, [op |-> "reserving", keys |-> {<<bucket, s>>}, todo |-> {<<bucket, s>>}, within |-> TRUE])
    /\ UNCHANGED <<counters, admitted, lost>>

\* Mutant of Within: the attempt that is judged is not counted.
WithinUncounted(k) == counters[k] <= Limit(k)

\* The value INCR returns has this attempt in it.
Within(k) == counters[k] + 1 <= Limit(k)

Reserve(a, k) ==
    /\ attempts[a].op = "reserving" /\ k \in attempts[a].todo
    /\ counters' = [counters EXCEPT ![k] = @ + 1]
    /\ Attending(a, [attempts[a] EXCEPT !.todo = @ \ {k}, !.within = @ /\ Within(k)])
    /\ UNCHANGED <<admitted, lost>>

\* An answer is lost: 503, whichever of the transactions were carried out.
Unusable(a) ==
    /\ attempts[a].op = "reserving" /\ attempts[a].todo # {}
    /\ lost < MaxLost /\ lost' = lost + 1
    /\ \E done \in SUBSET attempts[a].todo :
          counters' = [k \in Keys |-> IF k \in done THEN counters[k] + 1 ELSE counters[k]]
    /\ Attending(a, Waiting)
    /\ UNCHANGED admitted

Throttled(a) ==
    /\ attempts[a].op = "reserving" /\ attempts[a].todo = {}
    /\ ~attempts[a].within
    /\ Attending(a, Waiting)
    /\ UNCHANGED <<counters, admitted, lost>>

\* The wrong password, or a public request that is served.
Admit(a) ==
    /\ attempts[a].op = "reserving" /\ attempts[a].todo = {}
    /\ attempts[a].within
    /\ admitted' = [k \in Keys |-> IF k \in attempts[a].keys THEN admitted[k] + 1 ELSE admitted[k]]
    /\ Attending(a, Waiting)
    /\ UNCHANGED <<counters, lost>>

\* The right password.
Verified(a) ==
    /\ attempts[a].op = "reserving" /\ attempts[a].todo = {}
    /\ attempts[a].within
    /\ attempts[a].keys \subseteq Email \cup Source
    /\ Attending(a, [op |-> "releasing", todo |-> attempts[a].keys])
    /\ UNCHANGED <<counters, admitted, lost>>

\* releaseAttempt: DEL for the account, DECR for the address, which makes -1 of
\* a counter that has expired meanwhile.
Released(k) == IF k \in Email THEN 0 ELSE counters[k] - 1

Release(a, k) ==
    /\ attempts[a].op = "releasing" /\ k \in attempts[a].todo
    /\ counters' = [counters EXCEPT ![k] = Released(k)]
    /\ admitted' = IF k \in Email THEN [admitted EXCEPT ![k] = 0] ELSE admitted
    /\ Attending(a, IF attempts[a].todo = {k} THEN Waiting ELSE [attempts[a] EXCEPT !.todo = @ \ {k}])
    /\ UNCHANGED lost

\* Best effort: the login has succeeded whatever becomes of the counters.
ReleaseLost(a) ==
    /\ attempts[a].op = "releasing"
    /\ lost < MaxLost /\ lost' = lost + 1
    /\ Attending(a, Waiting)
    /\ UNCHANGED <<counters, admitted>>

\* The window of a counter ends; NX never prolonged it.
Expire(k) ==
    /\ counters' = [counters EXCEPT ![k] = 0]
    /\ admitted' = [admitted EXCEPT ![k] = 0]
    /\ UNCHANGED <<attempts, lost>>

ThrottlesInit ==
    /\ counters = [k \in Keys |-> 0]
    /\ attempts = [a \in Attempt |-> Waiting]
    /\ admitted = [k \in Keys |-> 0]
    /\ lost = 0

ThrottlesNext ==
    \/ \E a \in Attempt :
          \/ \E s \in Source \cup {Unknown} :
                \/ \E email \in Email : Login(a, email, s)
                \/ \E bucket \in Bucket : Request(a, bucket, s)
          \/ \E k \in Keys : Reserve(a, k) \/ Release(a, k)
          \/ Unusable(a) \/ Throttled(a) \/ Admit(a) \/ Verified(a) \/ ReleaseLost(a)
    \/ \E k \in Keys : Expire(k)

ThrottlesSpec == ThrottlesInit /\ [][ThrottlesNext]_throttleVars

-----------------------------------------------------------------------------
(* Properties *)

\* Between two ends of a counter's window, or since an account's counter was
\* cleared, no more wrong passwords are tried than the limit and the attempts
\* that were under way then: right passwords from an address forgive none of
\* its wrong ones (releaseAttempt), and concurrency lets none past
\* (reserveAttempt).
ThrottlesHold == \A k \in Keys : admitted[k] <= Limit(k) + Cardinality(Attempt)
=============================================================================
