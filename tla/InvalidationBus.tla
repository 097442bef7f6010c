--------------------------- MODULE InvalidationBus ---------------------------
(***************************************************************************)
(* The channel on which processes tell each other that something changed:  *)
(* InvalidationBus.                                                        *)
(*                                                                         *)
(* Redis pub/sub keeps nothing.  A message reaches the processes that are  *)
(* subscribed when it is published, in order, and is gone for the others.  *)
(* Each process has two connections.  When its publisher fails it notes    *)
(* the domain and announces the whole of it once it is back; when its      *)
(* subscriber comes back it assumes that it missed everything.             *)
(*                                                                         *)
(* What a process does with what it hears is its caches' business: they    *)
(* extend this module.                                                     *)
(***************************************************************************)
EXTENDS Integers, Sequences, FiniteSets, SequencesExt

CONSTANT Process

VARIABLES
    publishing,     \* the processes whose publisher is connected
    listening,      \* the processes whose subscription is established
    everSubscribed, \* the processes that have been subscribed before
    unannounced,    \* per process, the domains whose broadcast was lost
    inbox           \* per process, what is on its way

busVars == <<publishing, listening, everSubscribed, unannounced, inbox>>

-----------------------------------------------------------------------------
\* INVALIDATION_DOMAINS.
Config    == "configuration"
Providers == "providers"
Domains   == {Config, Providers}

\* A message names an entry of its domain, or all of it.
Everything == "everything"
Message(origin, domain, entry) == [origin |-> origin, domain |-> domain, entry |-> entry]

\* The messages as every subscriber gets them.
Delivered(ms) == [p \in Process |-> IF p \in listening THEN inbox[p] \o ms ELSE inbox[p]]

\* publish: sent, or the domain noted; a connection that breaks under the
\* command has both.
Sent(p, domain, entry) ==
    /\ p \in publishing
    /\ inbox' = Delivered(<<Message(p, domain, entry)>>)
    /\ UNCHANGED <<publishing, listening, everSubscribed, unannounced>>

Unsent(p, domain) ==
    /\ p \notin publishing
    /\ unannounced' = [unannounced EXCEPT ![p] = @ \cup {domain}]
    /\ UNCHANGED <<publishing, listening, everSubscribed, inbox>>

SentUnanswered(p, domain, entry) ==
    /\ p \in publishing
    /\ inbox' = Delivered(<<Message(p, domain, entry)>>)
    /\ publishing' = publishing \ {p}
    /\ unannounced' = [unannounced EXCEPT ![p] = @ \cup {domain}]
    /\ UNCHANGED <<listening, everSubscribed>>

-----------------------------------------------------------------------------
(* Connections *)

LosePublisher(p) ==
    /\ p \in publishing
    /\ publishing' = publishing \ {p}
    /\ UNCHANGED <<listening, everSubscribed, unannounced, inbox>>

\* Mutant of PublisherReady: what was lost stays lost.
PublisherReadySilent(p) ==
    /\ p \notin publishing
    /\ publishing' = publishing \cup {p}
    /\ UNCHANGED <<listening, everSubscribed, unannounced, inbox>>

\* announceMissed: everything in each domain it could not reach.  A send that
\* fails again puts the domain back, which is LosePublisher before this step.
PublisherReady(p) ==
    /\ p \notin publishing
    /\ publishing' = publishing \cup {p}
    /\ inbox' = Delivered(SetToSeq({Message(p, d, Everything) : d \in unannounced[p]}))
    /\ unannounced' = [unannounced EXCEPT ![p] = {}]
    /\ UNCHANGED <<listening, everSubscribed>>

\* What was on its way is lost with the connection.
LoseSubscriber(p) ==
    /\ p \in listening
    /\ listening' = listening \ {p}
    /\ inbox' = [inbox EXCEPT ![p] = <<>>]
    /\ UNCHANGED <<publishing, everSubscribed, unannounced>>

\* establish, without the handlers it dispatches to when isReconnect.
Subscribed(p) ==
    /\ p \notin listening
    /\ listening' = listening \cup {p}
    /\ everSubscribed' = everSubscribed \cup {p}
    /\ UNCHANGED <<publishing, unannounced, inbox>>

\* receive, without the handlers: the oldest message is taken.
Received(p) ==
    /\ inbox[p] # <<>>
    /\ inbox' = [inbox EXCEPT ![p] = Tail(@)]
    /\ UNCHANGED <<publishing, listening, everSubscribed, unannounced>>

\* The process dies and starts anew, with fresh connections.
Restarted(p) ==
    /\ publishing' = publishing \cup {p}
    /\ listening' = listening \ {p}
    /\ everSubscribed' = everSubscribed \ {p}
    /\ unannounced' = [unannounced EXCEPT ![p] = {}]
    /\ inbox' = [inbox EXCEPT ![p] = <<>>]

BusInit ==
    /\ publishing = Process
    /\ listening = {} /\ everSubscribed = {}
    /\ unannounced = [p \in Process |-> {}]
    /\ inbox = [p \in Process |-> <<>>]

-----------------------------------------------------------------------------
\* A message on its way to p is about the entry of the domain, and not p's own.
Coming(p, domain, entry) ==
    \E i \in DOMAIN inbox[p] :
        /\ inbox[p][i].origin # p
        /\ inbox[p][i].domain = domain
        /\ inbox[p][i].entry \in {entry, Everything}

\* p will be told, or will assume the worst.
WillHear(p, domain, entry) ==
    \/ Coming(p, domain, entry)
    \/ \E q \in Process \ {p} : domain \in unannounced[q]
    \/ p \in everSubscribed /\ p \notin listening
=============================================================================
