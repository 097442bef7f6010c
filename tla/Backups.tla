-------------------------------- MODULE Backups --------------------------------
(***************************************************************************)
(* The nightly dumps and their copies off the host: backup.sh and          *)
(* backup-remote.sh, two containers that share a volume and nothing else.  *)
(*                                                                         *)
(* A dump is its position in the sequence of all dumps.  Time is the day;  *)
(* an object in the bucket has the modification time of its dump.  Either  *)
(* container may stop anywhere and starts over.                            *)
(***************************************************************************)
EXTENDS Integers, Sequences, FiniteSets

CONSTANTS
    KeepDaily, KeepWeekly,      \* days a dump is kept on the host
    RemoteDaily, RemoteWeekly,  \* and in the bucket
    Week,                       \* days of a week
    MaxDays, MaxDumps,
    MaxMishaps                  \* broken dumps and uploads, and stops

ASSUME BackupsAssumption ==
    /\ {KeepDaily, KeepWeekly, RemoteDaily, RemoteWeekly, Week} \subseteq Nat \ {0}
    /\ {MaxDays, MaxDumps, MaxMishaps} \subseteq Nat

VARIABLES
    day,
    dumps,      \* of each dump taken, its day, whether pg_restore can read it, and
                \* did, and whether it was shipped earlier than that
    files,      \* the dumps in daily/ and weekly/
    dumper,     \* where backup.sh stands
    bucket,     \* per tier, the objects
    receipts,   \* per tier, the dumps with a receipt
    shipper,    \* where backup-remote.sh stands
    mishaps

backupVars == <<day, dumps, files, dumper, bucket, receipts, shipper, mishaps>>

-----------------------------------------------------------------------------
Tier == {"daily", "weekly"}
Keep == [daily |-> KeepDaily, weekly |-> KeepWeekly]
RemoteKeep == [daily |-> RemoteDaily, weekly |-> RemoteWeekly]

Asleep == [op |-> "asleep"]

Age(d) == day - dumps[d].day

Mishap == mishaps < MaxMishaps /\ mishaps' = mishaps + 1

\* What run_once does, in its order.
Rounds == <<[op |-> "ship", tier |-> "daily"], [op |-> "ship", tier |-> "weekly"],
            [op |-> "prune", tier |-> "daily"], [op |-> "prune", tier |-> "weekly"]>>

-----------------------------------------------------------------------------
(* backup.sh *)

NewDump(readable) == [day |-> day, readable |-> readable, read |-> FALSE, early |-> FALSE]

\* backup_once, up to the dump that is moved into place.
Dump ==
    /\ dumper = Asleep /\ Len(dumps) < MaxDumps
    /\ \/ dumps' = Append(dumps, NewDump(TRUE)) /\ UNCHANGED mishaps
       \/ dumps' = Append(dumps, NewDump(FALSE)) /\ Mishap
    /\ files' = [files EXCEPT !.daily = @ \cup {Len(dumps) + 1}]
    /\ dumper' = [op |-> "reading", dump |-> Len(dumps) + 1]
    /\ UNCHANGED <<day, bucket, receipts, shipper>>

\* pg_dump fails, and leaves nothing that looks like a dump.
DumpFails ==
    /\ dumper = Asleep /\ Mishap
    /\ dumper' = [op |-> "pruning"]
    /\ UNCHANGED <<day, dumps, files, bucket, receipts, shipper>>

\* pg_restore --list: what it cannot read is discarded.
ReadBack ==
    /\ dumper.op = "reading"
    /\ dumps' = [dumps EXCEPT ![dumper.dump].read = TRUE]
    /\ IF dumps[dumper.dump].readable
       THEN dumper' = [dumper EXCEPT !.op = "linking"] /\ UNCHANGED files
       ELSE /\ dumper' = [op |-> "pruning"]
            /\ files' = [files EXCEPT !.daily = @ \ {dumper.dump}]
    /\ UNCHANGED <<day, bucket, receipts, shipper, mishaps>>

\* A Sunday's dump is linked into weekly/.
Link ==
    /\ dumper.op = "linking"
    /\ files' = IF day % Week = 0 THEN [files EXCEPT !.weekly = @ \cup {dumper.dump}] ELSE files
    /\ dumper' = [op |-> "pruning"]
    /\ UNCHANGED <<day, dumps, bucket, receipts, shipper, mishaps>>

Prune ==
    /\ dumper.op = "pruning"
    /\ files' = [tier \in Tier |-> {d \in files[tier] : Age(d) <= Keep[tier]}]
    /\ dumper' = Asleep
    /\ UNCHANGED <<day, dumps, bucket, receipts, shipper, mishaps>>

DumperStops ==
    /\ dumper # Asleep /\ Mishap
    /\ dumper' = Asleep
    /\ UNCHANGED <<day, dumps, files, bucket, receipts, shipper>>

-----------------------------------------------------------------------------
(* backup-remote.sh *)

\* What find lists, or nothing in a round that does not ship.
Listed(round) ==
    IF Rounds[round].op = "prune" THEN {}
    ELSE {d \in files[Rounds[round].tier] : Age(d) < RemoteKeep[Rounds[round].tier]}

RunOnce ==
    /\ shipper = Asleep
    /\ shipper' = [op |-> "scanning", round |-> 1, todo |-> Listed(1)]
    /\ UNCHANGED <<day, dumps, files, dumper, bucket, receipts, mishaps>>

\* The files left of a round: one that has its receipt is skipped.
Left == shipper.todo \ receipts[Rounds[shipper.round].tier]

Scanning(round, todo) == [op |-> "scanning", round |-> round, todo |-> todo]

Uploaded(tier, d, whole) ==
    bucket' = [bucket EXCEPT ![tier] = {o \in @ : o.dump # d} \cup {[dump |-> d, whole |-> whole]}]

\* ship: the object is written, whole or broken, or the attempt fails, as it does
\* when the dump has gone meanwhile.  The files are taken in order.
Ship ==
    LET round == shipper.round
        tier == Rounds[round].tier IN
    /\ shipper.op = "scanning"
    /\ \E d \in Left :
          /\ \A other \in Left : d <= other
          /\ \/ /\ d \in files[tier]
                /\ \/ Uploaded(tier, d, TRUE) /\ UNCHANGED mishaps
                   \/ Uploaded(tier, d, FALSE) /\ Mishap
                /\ dumps' = [dumps EXCEPT ![d].early = @ \/ ~dumps[d].read]
                /\ shipper' = [op |-> "comparing", round |-> round, todo |-> shipper.todo, dump |-> d]
             \/ /\ IF d \in files[tier] THEN Mishap ELSE UNCHANGED mishaps
                /\ shipper' = Scanning(round, shipper.todo \ {d})
                /\ UNCHANGED <<bucket, dumps>>
    /\ UNCHANGED <<day, files, dumper, receipts>>

\* Mutant of Matches: an object that was written is taken for a copy.
MatchesUnread(object) == TRUE

\* The object, read back, has the digest of the dump.
Matches(object) == object.whole

\* The receipt is written after the comparison and never before.
Compare ==
    LET tier == Rounds[shipper.round].tier IN
    /\ shipper.op = "comparing"
    /\ receipts' = IF \A object \in bucket[tier] : object.dump = shipper.dump => Matches(object)
                   THEN [receipts EXCEPT ![tier] = @ \cup {shipper.dump}] ELSE receipts
    /\ shipper' = Scanning(shipper.round, shipper.todo \ {shipper.dump})
    /\ UNCHANGED <<day, dumps, files, dumper, bucket, mishaps>>

\* prune_tier: the receipts follow the dumps, unless the sweep failed.
PruneTier ==
    LET tier == Rounds[shipper.round].tier IN
    /\ shipper.op = "scanning" /\ Rounds[shipper.round].op = "prune"
    /\ \/ /\ bucket' = [bucket EXCEPT ![tier] = {o \in @ : Age(o.dump) < RemoteKeep[tier]}]
          /\ receipts' = [receipts EXCEPT ![tier] = @ \cap files[tier]]
          /\ UNCHANGED mishaps
       \/ Mishap /\ UNCHANGED <<bucket, receipts>>
    /\ shipper' = IF shipper.round = Len(Rounds) THEN Asleep
                  ELSE Scanning(shipper.round + 1, {})
    /\ UNCHANGED <<day, dumps, files, dumper>>

\* The tier is through.
NextTier ==
    /\ shipper.op = "scanning" /\ Rounds[shipper.round].op = "ship" /\ Left = {}
    /\ shipper' = Scanning(shipper.round + 1, Listed(shipper.round + 1))
    /\ UNCHANGED <<day, dumps, files, dumper, bucket, receipts, mishaps>>

ShipperStops ==
    /\ shipper # Asleep /\ Mishap
    /\ shipper' = Asleep
    /\ UNCHANGED <<day, dumps, files, dumper, bucket, receipts>>

-----------------------------------------------------------------------------
Dawn ==
    /\ day < MaxDays /\ day' = day + 1
    /\ UNCHANGED <<dumps, files, dumper, bucket, receipts, shipper, mishaps>>

BackupsInit ==
    /\ day = 0
    /\ dumps = <<>>
    /\ files = [tier \in Tier |-> {}]
    /\ dumper = Asleep
    /\ bucket = [tier \in Tier |-> {}]
    /\ receipts = [tier \in Tier |-> {}]
    /\ shipper = Asleep
    /\ mishaps = 0

BackupsNext ==
    \/ Dump \/ DumpFails \/ ReadBack \/ Link \/ Prune \/ DumperStops
    \/ RunOnce \/ Ship \/ Compare \/ PruneTier \/ NextTier \/ ShipperStops
    \/ Dawn

BackupsSpec == BackupsInit /\ [][BackupsNext]_backupVars

-----------------------------------------------------------------------------
(* Properties *)

\* A receipt tells of a copy in the bucket that is the dump, until the bucket's
\* window is over, whatever failed or stopped in between (ship); and of a dump
\* that can be read, unless it was shipped in the moment between being moved
\* into place and being read back, or backup.sh stopped in that moment.
ReceiptsTell ==
    \A tier \in Tier : \A d \in receipts[tier] :
       /\ [dump |-> d, whole |-> TRUE] \in bucket[tier] \/ Age(d) >= RemoteKeep[tier]
       /\ dumps[d].readable \/ dumps[d].early
=============================================================================
