----------------------------- MODULE Propagation -----------------------------
(***************************************************************************)
(* Processes that cache configuration and providers, the administrators    *)
(* who change both, and the channel that keeps the copies in agreement.    *)
(*                                                                         *)
(* A copy may be stale; what matters is that whoever holds it will be told *)
(* so, or will assume it.  `unhealed` names the stale copies nobody will   *)
(* ever correct.  The code leaves three ways to become one: the process    *)
(* was not subscribed yet when it was told, the process that owed the news *)
(* died, and a reload that failed, which is not tried again nor announced. *)
(***************************************************************************)
EXTENDS Configuration, ProviderRegistry

CONSTANTS
    Api,        \* the processes that serve administrators
    MaxTotal,   \* bound on the changes of both kinds
    MaxFaults   \* bound on what fails

ASSUME PropagationAssumption == Api \subseteq Process

VARIABLES
    unhealed,
    faults

vars == <<busVars, configVars, registryVars, unhealed, faults>>

-----------------------------------------------------------------------------
\* What a process holds, or will, is not what is stored.
Stale(p, row) ==
    \/ cache[p][row] \notin {NotCached, stored[row]}
    \/ WillKeep(p, row) /\ reading[p].value # stored[row]

Outdated(p) == Outcome(p) \notin {Unloaded, table}

\* The rows of p that are gone when these are invalidated.
Gone(p, rows) == {p} \X {r \in Row : r \in rows \/ cache[p][r] = NotCached}

\* The stale copies of processes that have not been subscribed yet, when a
\* message goes out.
Unheard(q, rows) ==
    {x \in (Process \ (everSubscribed \cup {q})) \X rows : Stale(x[1], x[2])}
UnheardProviders(q) ==
    {x \in (Process \ (everSubscribed \cup {q})) \X {Providers} : Outdated(x[1])}

\* The stale copies whose correction dies with process q, or with one request.
Orphaned(q) ==
    {x \in (Process \ {q}) \X Row :
        /\ Stale(x[1], x[2])
        /\ \/ Config \in unannounced[q]
           \/ \E a \in Admin : edit[a].op = "committed" /\ edit[a].at = q /\ edit[a].row = x[2]}
OrphanedProviders(q) ==
    {x \in (Process \ {q}) \X {Providers} :
        /\ Outdated(x[1])
        /\ Providers \in unannounced[q] \/ \E m \in Manager : change[m] # Resting /\ change[m].at = q}

\* Changes of both kinds share a bound.
MayStart == Len(history) + Cardinality({a \in Admin : edit[a] # Idle}) + table < MaxTotal

Fault == faults > 0 /\ faults' = faults - 1
NoFault == UNCHANGED faults

-----------------------------------------------------------------------------
\* Reads and edits, which tell nobody.
Work ==
    /\ \/ \E p \in Process, r \in Row : Query(p, r)
       \/ \E p \in Process : Remember(p)
       \/ \E a \in Admin, p \in Api, r \in Row, what \in {"set", "unset"},
             expected \in {Unchecked} \cup 0..MaxWrites : MayStart /\ Submit(a, p, r, what, expected)
       \/ \E a \in Admin : Editing(a)
    /\ UNCHANGED <<busVars, registryVars, unhealed, faults>>

Tell(a) ==
    LET q == edit[a].at
        r == edit[a].row IN
    /\ InvalidateAndBroadcast(a)
    /\ unhealed' = (unhealed \ Gone(q, {r}))
                     \cup IF q \in publishing' THEN Unheard(q, {r}) ELSE {}
    /\ IF publishing' = publishing THEN NoFault ELSE Fault
    /\ UNCHANGED registryVars

Manage ==
    /\ \/ \E m \in Manager, p \in Api : MayStart /\ CommitChange(m, p)
       \/ \E p \in Process : Load(p)
    /\ UNCHANGED <<busVars, configVars, unhealed, faults>>

Requery(p) ==
    /\ Rebuild(p)
    /\ unhealed' = unhealed \ {<<p, Providers>>}
    /\ UNCHANGED <<busVars, configVars, faults>>

ReloadFails(p) ==
    LET whom == Head(reloads[p]) IN
    /\ Fault
    /\ RebuildFails(p)
    /\ unhealed' = unhealed
         \cup {x \in {p} \X {Providers} : Outdated(p)}
         \cup IF whom = Nobody THEN {} ELSE {x \in (Process \ {p}) \X {Providers} : Outdated(x[1])}
    /\ UNCHANGED <<busVars, configVars>>

TellProviders(m) ==
    LET q == change[m].at IN
    /\ Broadcast(m)
    /\ unhealed' = unhealed \cup IF q \in publishing' THEN UnheardProviders(q) ELSE {}
    /\ IF publishing' = publishing THEN NoFault ELSE Fault
    /\ UNCHANGED configVars

-----------------------------------------------------------------------------
(* The handlers of both domains *)

\* The handlers: configuration drops an entry or all of them, the registry reloads.
Dispatch(p, rows, providers) ==
    /\ IF rows # {} THEN Invalidate(p, rows) ELSE UNCHANGED <<cache, reading>>
    /\ unhealed' = IF rows # {} THEN unhealed \ Gone(p, rows) ELSE unhealed
    /\ IF providers THEN Reload(p) ELSE UNCHANGED registryVars
    /\ UNCHANGED <<stored, history, edit>>

DispatchEverything(p) == Dispatch(p, Row, TRUE)

\* receive: a message this build cannot read says that anything may have changed.
Receive(p) ==
    LET m == Head(inbox[p]) IN
    /\ Received(p)
    /\ \/ m.origin # p /\ DispatchEverything(p)
       \/ m.origin = p /\ Dispatch(p, {}, FALSE)
       \/ /\ m.origin # p /\ m.domain = Config
          /\ Dispatch(p, IF m.entry = Everything THEN Row ELSE {m.entry}, FALSE)
       \/ m.origin # p /\ m.domain = Providers /\ Dispatch(p, {}, TRUE)
    /\ NoFault

\* establish: the first time there is taken to be nothing to catch up with.
Establish(p) ==
    /\ Subscribed(p)
    /\ IF p \in everSubscribed THEN DispatchEverything(p) ELSE Dispatch(p, {}, FALSE)
    /\ NoFault

AnnounceMissed(p) ==
    /\ PublisherReady(p)
    /\ unhealed' = unhealed
         \cup (IF Config \in unannounced[p] THEN Unheard(p, Row) ELSE {})
         \cup (IF Providers \in unannounced[p] THEN UnheardProviders(p) ELSE {})
    /\ NoFault
    /\ UNCHANGED <<configVars, registryVars>>

Disconnect ==
    /\ Fault
    /\ \E p \in Process : LosePublisher(p) \/ LoseSubscriber(p)
    /\ UNCHANGED <<configVars, registryVars, unhealed>>

Restart(p) ==
    /\ Fault
    /\ Restarted(p) /\ ConfigRestarted(p) /\ RegistryRestarted(p)
    /\ unhealed' = {x \in unhealed : x[1] # p} \cup Orphaned(p) \cup OrphanedProviders(p)

-----------------------------------------------------------------------------
Init ==
    /\ BusInit /\ ConfigInit /\ RegistryInit
    /\ unhealed = {}
    /\ faults = MaxFaults

Next ==
    \/ Work \/ Manage \/ Disconnect
    \/ \E a \in Admin : Tell(a)
    \/ \E m \in Manager : TellProviders(m)
    \/ \E p \in Process :
          \/ Requery(p) \/ ReloadFails(p)
          \/ Receive(p) \/ Establish(p) \/ AnnounceMissed(p) \/ Restart(p)

Spec == Init /\ [][Next]_vars

\* What waits for an event loop is come to, one thing after the other: a
\* request that was started, a message, a reload, a connection that is back
\* (ioredis reconnects without giving up).
Serve(a) == (Editing(a) /\ Work) \/ Tell(a)
Attend(p) ==
    Requery(p) \/ (Load(p) /\ Manage) \/ Receive(p) \/ Establish(p) \/ AnnounceMissed(p)

Fairness ==
    /\ \A a \in Admin : WF_vars(Serve(a))
    /\ \A m \in Manager : WF_vars(TellProviders(m))
    /\ \A p \in Process : WF_vars(Attend(p))

FairSpec == Spec /\ Fairness

-----------------------------------------------------------------------------
(* Properties *)

\* Whatever a process holds that is no longer so, it will hear of or will
\* assume: through lost broadcasts, lost connections and reads that were
\* overtaken, a copy is stale for ever only in the ways `unhealed` names
\* (remember, establish, announceMissed, the reload chain).
StaleIsAwaited ==
    \A p \in Process :
        /\ \A r \in Row : Stale(p, r) =>
              \/ WillHear(p, Config, r)
              \/ \E a \in Admin : edit[a].op = "committed" /\ edit[a].row = r
              \/ <<p, r>> \in unhealed
        /\ Outdated(p) =>
              \/ WillReload(p)
              \/ WillHear(p, Providers, Everything)
              \/ \E m \in Manager : change[m] # Resting /\ change[m].at # p
              \/ <<p, Providers>> \in unhealed

\* A change made with a precondition replaced the very row its author had seen:
\* nobody's change is undone unseen (assertNotStale).  Where the author had seen
\* no row there is no lock, and this is not promised.
EditsReplaceWhatTheySaw ==
    \A i \in DOMAIN history :
        history[i].expected \notin {Unchecked, 0} =>
            history[i].replaced = history[i].expected /\ history[i].old = history[i].expected

\* When changes and faults have stopped, every process comes to serve what is
\* stored, but for the copies nobody will correct.
Converges ==
    <>[](\A p \in Process :
            /\ \A r \in Row : Stale(p, r) => <<p, r>> \in unhealed
            /\ Outdated(p) => <<p, Providers>> \in unhealed)
=============================================================================
