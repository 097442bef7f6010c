-------------------------------- MODULE Intake --------------------------------
(***************************************************************************)
(* The public postback endpoint: PostbackIntakeService, request by         *)
(* request, with failures between any two of its statements and a network  *)
(* that sends an event again, as often as it likes and side by side.       *)
(*                                                                         *)
(* What processing makes of a row is Conversions.  Of a provider's row,    *)
(* its adapter and the signature only whether they speak for the request   *)
(* is kept; the ranges of its source are SourceRanges.                     *)
(***************************************************************************)
EXTENDS Integers, Sequences, FiniteSets

CONSTANTS
    Event,          \* transaction ids of a provider
    Receiver,       \* requests handled at a time
    NoEvent,        \* the transaction id of what could not be parsed
    MaxDeliveries,  \* how many requests the networks send
    MaxFailures     \* how many statements fail, or processes die

ASSUME IntakeAssumption ==
    /\ NoEvent \notin Event
    /\ MaxDeliveries \in Nat /\ MaxFailures \in Nat

VARIABLES
    archive,    \* provider_postbacks; a row's id is its position
    dispatched, \* rows with a job in the postbacks queue
    receiving,  \* where each request stands
    answers,    \* the answers with 200 that were given, per event
    deliveries,
    failures

intakeVars == <<archive, dispatched, receiving, answers, deliveries, failures>>

-----------------------------------------------------------------------------
Listening == [op |-> "listening"]

Receives(h, state) == receiving' = [receiving EXCEPT ![h] = state]

Row(event, state) == [event |-> event, state |-> state, duplicates |-> 0]

Fails == failures < MaxFailures /\ failures' = failures + 1

\* The answer reaches the network or not: only the first counts as told.
Answers(event, status) ==
    \/ answers' = [answers EXCEPT ![event][status] = @ + 1]
    \/ UNCHANGED answers

-----------------------------------------------------------------------------
Deliver(h, event) ==
    /\ receiving[h] = Listening
    /\ deliveries < MaxDeliveries /\ deliveries' = deliveries + 1
    /\ Receives(h, [op |-> "receiving", event |-> event])
    /\ UNCHANGED <<archive, dispatched, answers, failures>>

\* 404, 409, 403 or 401: nothing is written, and nothing is sent again.
Refuse(h) ==
    /\ receiving[h].op = "receiving"
    /\ Receives(h, Listening)
    /\ UNCHANGED <<archive, dispatched, answers, deliveries, failures>>

\* parsePostback throws; 400.
ArchiveUnparseable(h) ==
    /\ receiving[h].op = "receiving"
    /\ archive' = Append(archive, Row(NoEvent, "REJECTED"))
    /\ Receives(h, Listening)
    /\ UNCHANGED <<dispatched, answers, deliveries, failures>>

\* Mutant of Taken: the constraint is left out of the schema.
TakenNever(event) == FALSE

\* The unique constraint on provider and transaction id.
Taken(event) == \E i \in DOMAIN archive : archive[i].event = event

\* archive: the insert is attempted.
Create(h) ==
    LET event == receiving[h].event IN
    /\ receiving[h].op = "receiving" /\ ~Taken(event)
    /\ archive' = Append(archive, Row(event, "RECEIVED"))
    /\ \/ Receives(h, [op |-> "enqueueing", event |-> event, row |-> Len(archive) + 1])
          /\ UNCHANGED failures
       \/ Fails /\ Receives(h, Listening)    \* committed, and the answer lost: 500
    /\ UNCHANGED <<dispatched, answers, deliveries>>

\* P2002
UniqueViolation(h) ==
    LET event == receiving[h].event IN
    /\ receiving[h].op = "receiving" /\ Taken(event)
    /\ Receives(h, [op |-> "duplicate", event |-> event])
    /\ UNCHANGED <<archive, dispatched, answers, deliveries, failures>>

MarkDuplicate(h) ==
    LET event == receiving[h].event IN
    /\ receiving[h].op = "duplicate"
    /\ archive' = [i \in DOMAIN archive |->
                     IF archive[i].event = event THEN [archive[i] EXCEPT !.duplicates = @ + 1] ELSE archive[i]]
    /\ Answers(event, "duplicate")
    /\ Receives(h, Listening)
    /\ UNCHANGED <<dispatched, deliveries, failures>>

\* enqueueProcessing, after the commit; that it fails does not fail the request.
EnqueueProcessing(h) ==
    /\ receiving[h].op = "enqueueing"
    /\ \/ dispatched' = dispatched \cup {receiving[h].row} /\ UNCHANGED failures
       \/ Fails /\ UNCHANGED dispatched
    /\ Answers(receiving[h].event, "accepted")
    /\ Receives(h, Listening)
    /\ UNCHANGED <<archive, deliveries>>

\* Any other failure of a statement that commits nothing, 500, or the process
\* dies: no answer.
Breaks(h) ==
    /\ receiving[h] # Listening
    /\ Fails
    /\ Receives(h, Listening)
    /\ UNCHANGED <<archive, dispatched, answers, deliveries>>

IntakeInit ==
    /\ archive = <<>>
    /\ dispatched = {}
    /\ receiving = [h \in Receiver |-> Listening]
    /\ answers = [event \in Event |-> [accepted |-> 0, duplicate |-> 0]]
    /\ deliveries = 0
    /\ failures = 0

IntakeNext ==
    \E h \in Receiver :
       \/ \E event \in Event : Deliver(h, event)
       \/ Refuse(h) \/ ArchiveUnparseable(h)
       \/ Create(h) \/ UniqueViolation(h) \/ MarkDuplicate(h)
       \/ EnqueueProcessing(h) \/ Breaks(h)

IntakeSpec == IntakeInit /\ [][IntakeNext]_intakeVars

-----------------------------------------------------------------------------
(* Properties *)

RowsOf(event) == {i \in DOMAIN archive : archive[i].event = event}

\* Received, and neither in the queue nor on the way there.
Stranded == {i \in DOMAIN archive :
                /\ archive[i].state = "RECEIVED" /\ i \notin dispatched
                /\ \A h \in Receiver : receiving[h].op = "enqueueing" => receiving[h].row # i}

\* What was acknowledged is in the archive, once, accepted once at most, with
\* every acknowledged duplicate counted (archive, markDuplicate); and only a
\* failure leaves an event that was archived without a job (enqueueProcessing):
\* one for each such event, however often the network sent it again.
IntakeKeepsItsWord ==
    /\ \A event \in Event :
          /\ Cardinality(RowsOf(event)) <= 1
          /\ answers[event].accepted <= 1
          /\ answers[event].accepted + answers[event].duplicate > 0 => RowsOf(event) # {}
          /\ \A i \in RowsOf(event) : answers[event].duplicate <= archive[i].duplicates
    /\ Cardinality(Stranded) <= failures
=============================================================================
