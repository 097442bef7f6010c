-------------------------- MODULE ProviderRegistry --------------------------
(***************************************************************************)
(* The providers table, the snapshot of it every process serves from, and  *)
(* the administrators who change it: ProvidersService, ProviderRegistry    *)
(* and AdminProvidersService.                                              *)
(*                                                                         *)
(* The snapshot is rebuilt whole, from one query, by reloads that run one  *)
(* after the other.  What a row says is abstracted to which write was the  *)
(* last one the query saw.  Reloads on a registry miss are left out: they  *)
(* only correct.  The processes have booted; one that dies boots again.    *)
(***************************************************************************)
EXTENDS InvalidationBus

CONSTANTS
    Manager,    \* requests that change providers
    MaxChanges  \* bound on the changes made

VARIABLES
    table,      \* the changes committed to providers
    snapshot,   \* per process, the changes its registry knows
    reloads,    \* per process, the reload chain: who waits for each
    queried,    \* per process, what the query of the first reload returned
    change      \* where each changing request stands

registryVars == <<table, snapshot, reloads, queried, change>>

-----------------------------------------------------------------------------
Unloaded == -1
NoResult == -1
Nobody   == "nobody"
Resting  == [op |-> "idle"]

ASSUME RegistryAssumption == Nobody \notin Manager

\* reload: one more at the end of the chain.
Queued(p, whom) == [reloads EXCEPT ![p] = Append(@, whom)]

\* create, update and setEnabled, with the audit entry: one transaction, and
\* then the reload of reloadAndBroadcast.
CommitChange(m, p) ==
    /\ change[m] = Resting
    /\ table < MaxChanges
    /\ table' = table + 1
    /\ change' = [change EXCEPT ![m] = [op |-> "reloading", at |-> p]]
    /\ reloads' = Queued(p, m)
    /\ UNCHANGED <<snapshot, queried>>

\* rebuild, up to the answer of the query.
Rebuild(p) ==
    /\ reloads[p] # <<>>
    /\ queried[p] = NoResult
    /\ queried' = [queried EXCEPT ![p] = table]
    /\ UNCHANGED <<table, snapshot, reloads, change>>

\* load: the snapshot is swapped, and whoever asked goes on.
Load(p) ==
    LET whom == Head(reloads[p]) IN
    /\ queried[p] # NoResult
    /\ snapshot' = [snapshot EXCEPT ![p] = queried[p]]
    /\ queried' = [queried EXCEPT ![p] = NoResult]
    /\ reloads' = [reloads EXCEPT ![p] = Tail(@)]
    /\ change' = IF whom = Nobody THEN change
                 ELSE [change EXCEPT ![whom] = [op |-> "telling", at |-> p]]
    /\ UNCHANGED table

\* The query fails: the chain goes on, the snapshot stays, and whoever asked
\* gets the error and tells nobody.
RebuildFails(p) ==
    LET whom == Head(reloads[p]) IN
    /\ reloads[p] # <<>>
    /\ queried[p] = NoResult
    /\ reloads' = [reloads EXCEPT ![p] = Tail(@)]
    /\ change' = IF whom = Nobody THEN change ELSE [change EXCEPT ![whom] = Resting]
    /\ UNCHANGED <<table, snapshot, queried>>

\* The broadcast of reloadAndBroadcast.
Broadcast(m) ==
    LET p == change[m].at IN
    /\ change[m].op = "telling"
    /\ \/ Sent(p, Providers, Everything)
       \/ Unsent(p, Providers)
       \/ SentUnanswered(p, Providers, Everything)
    /\ change' = [change EXCEPT ![m] = Resting]
    /\ UNCHANGED <<table, snapshot, reloads, queried>>

\* The handler of the domain.
Reload(p) ==
    /\ reloads' = Queued(p, Nobody)
    /\ UNCHANGED <<table, snapshot, queried, change>>

\* onApplicationBootstrap of a fresh process.
RegistryRestarted(p) ==
    /\ snapshot' = [snapshot EXCEPT ![p] = Unloaded]
    /\ reloads' = [reloads EXCEPT ![p] = <<Nobody>>]
    /\ queried' = [queried EXCEPT ![p] = NoResult]
    /\ change' = [m \in Manager |->
                    IF change[m] # Resting /\ change[m].at = p THEN Resting ELSE change[m]]
    /\ UNCHANGED table

RegistryInit ==
    /\ table = 0
    /\ snapshot = [p \in Process |-> 0]
    /\ reloads = [p \in Process |-> <<>>]
    /\ queried = [p \in Process |-> NoResult]
    /\ change = [m \in Manager |-> Resting]

-----------------------------------------------------------------------------
\* What the registry will hold when the query in flight has been loaded.
Outcome(p) == IF queried[p] # NoResult THEN queried[p] ELSE snapshot[p]

\* A reload whose query is still to come.
WillReload(p) == Len(reloads[p]) > (IF queried[p] # NoResult THEN 1 ELSE 0)
=============================================================================
