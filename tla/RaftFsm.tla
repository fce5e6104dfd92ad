------------------------------ MODULE RaftFsm ------------------------------
(***************************************************************************)
(* One replica: the Raft state machine over ProgramStore                   *)
(* (crates/mangle-server/src/fsm.rs), its snapshot files, and the part of  *)
(* the write-ahead log (crates/mangle-wal) that the snapshots allow to be  *)
(* purged, through crashes and restarts.                                   *)
(*                                                                         *)
(* openraft is external.  It is modelled from how the code uses it: it     *)
(* hands the committed entries to `apply` in log order, asks for snapshots *)
(* (which a builder of its own writes while applies go on), installs a     *)
(* snapshot it received from the leader when that is ahead of this node,   *)
(* purges the log up to the last snapshot it knows of, and after a restart *)
(* resumes from what `applied_state` reports.                              *)
(***************************************************************************)
EXTENDS StoreCommands, FiniteSets

CONSTANTS
    External,             \* External[n]: facts of the external sources of n
    Entries,              \* what a log entry may hold
    HasPeers,             \* whether a leader may send this node snapshots
    InstallWhileBuilding, \* whether one may be installed while a builder runs
    TornDecodes,          \* whether a part of snapshot.data may decode
    MaxLog,               \* bound: committed entries
    MaxCrashes            \* bound: crashes

VARIABLES
    log,       \* the committed entries
    states,    \* history: states[i+1] is the registry the first i entries give
    up,        \* whether the process runs
    registry,  \* the programs of ProgramStore
    progress,  \* FsmProgress: last applied index, index of the last membership
    floor,     \* history: the log index the installed snapshot data reflects
    builder,   \* the SnapshotBuilder at work, if any
    install,   \* the snapshot being installed, if any
    data,      \* snapshot.data
    meta,      \* snapshot.meta
    snapshot,  \* openraft: index of the last snapshot it knows of
    purged,    \* raft.redb: last_purged
    crashes

vars == <<log, states, up, registry, progress, floor, builder, install, data,
          meta, snapshot, purged, crashes>>

fsm == <<registry, progress, floor>>

disk == <<data, meta, purged>>

world == <<log, states, up, crashes>>

Missing == [state |-> "missing"]

\* A file whose content did not reach the disk whole.
Torn == [state |-> "torn"]

Nothing == [stage |-> "none"]

NoProgress == [applied |-> 0, membership |-> 0]

LogState(i) == states[i + 1]

\* Index of the last membership entry among the first i, 0 without one.
MembershipAt(i) ==
    LET S == {j \in 1..i : log[j].type = "Membership"}
    IN  IF S = {} THEN 0 ELSE CHOOSE j \in S : \A k \in S : k <= j

Init ==
    /\ log = <<>>
    /\ states = <<EmptyRegistry>>
    /\ up = TRUE
    /\ registry = EmptyRegistry
    /\ progress = NoProgress
    /\ floor = 0
    /\ builder = Nothing
    /\ install = Nothing
    /\ data = Missing
    /\ meta = Missing
    /\ snapshot = 0
    /\ purged = 0
    /\ crashes = 0

\* ProgramStore::apply behind `apply`: blank and membership entries leave the
\* store alone, and a command that fails is an outcome like any other.
AfterEntry(reg, entry) ==
    IF entry.type = "Membership" THEN reg
    ELSE Apply(reg, External, entry).registry

\* The cluster commits one more entry.
CommitEntry(entry) ==
    /\ Len(log) < MaxLog
    /\ log' = Append(log, entry)
    /\ states' = Append(states, AfterEntry(LogState(Len(log)), entry))
    /\ UNCHANGED <<fsm, builder, install, snapshot, disk, up, crashes>>

\* apply, for one entry: the command, the membership, then last_applied.
ApplyEntry ==
    /\ up
    /\ install = Nothing
    /\ progress.applied < Len(log)
    /\ purged <= progress.applied
    /\ LET i == progress.applied + 1
       IN  /\ registry' = AfterEntry(registry, log[i])
           /\ progress' = [applied    |-> i,
                           membership |-> IF log[i].type = "Membership"
                                          THEN i ELSE progress.membership]
    /\ UNCHANGED <<floor, builder, install, snapshot, disk, world>>

----------------------------------------------------------------------------
(* building a snapshot *)

\* get_snapshot_builder: the builder takes a copy of the progress as it is now.
GetSnapshotBuilder ==
    /\ up
    /\ builder = Nothing
    /\ install = Nothing
    /\ progress.applied > snapshot
    /\ builder' = [stage |-> "created", progress |-> progress]
    /\ UNCHANGED <<fsm, install, snapshot, disk, world>>

\* build_snapshot starts, in a task of its own: it reads the store as it is by
\* then, and writes and syncs snapshot.data.tmp.
ReadState ==
    /\ up
    /\ builder.stage = "created"
    /\ builder' = [stage    |-> "read",
                   progress |-> builder.progress,
                   snap     |-> SnapshotState(registry),
                   at       |-> IF progress.applied < floor THEN floor
                                ELSE progress.applied]
    /\ UNCHANGED <<fsm, install, snapshot, disk, world>>

\* rename(snapshot.data.tmp, snapshot.data)
RenameData ==
    /\ up
    /\ builder.stage = "read"
    /\ data' = [state |-> "whole", snap |-> builder.snap, at |-> builder.at,
                synced |-> TRUE]
    /\ builder' = [builder EXCEPT !.stage = "renamed"]
    /\ UNCHANGED <<fsm, install, snapshot, meta, purged, world>>

\* Mutant of RenameMeta: the progress of the state machine by then.
RenameMetaLater ==
    /\ up
    /\ builder.stage = "renamed"
    /\ meta' = [state |-> "whole", progress |-> progress,
                at |-> builder.at, synced |-> TRUE]
    /\ snapshot' = IF progress.applied > snapshot THEN progress.applied ELSE snapshot
    /\ builder' = Nothing
    /\ UNCHANGED <<fsm, install, data, purged, world>>

\* Mutant of RenameMeta: the membership of the state machine by then.
RenameMetaMixed ==
    /\ up
    /\ builder.stage = "renamed"
    /\ meta' = [state |-> "whole",
                progress |-> [builder.progress EXCEPT !.membership = progress.membership],
                at |-> builder.at, synced |-> TRUE]
    /\ snapshot' = builder.progress.applied
    /\ builder' = Nothing
    /\ UNCHANGED <<fsm, install, data, purged, world>>

\* write, sync and rename snapshot.meta.tmp to snapshot.meta; openraft hears of
\* the new snapshot.
RenameMeta ==
    /\ up
    /\ builder.stage = "renamed"
    /\ meta' = [state |-> "whole", progress |-> builder.progress,
                at |-> builder.at, synced |-> TRUE]
    /\ snapshot' = IF builder.progress.applied > snapshot
                   THEN builder.progress.applied ELSE snapshot
    /\ builder' = Nothing
    /\ UNCHANGED <<fsm, install, data, purged, world>>

----------------------------------------------------------------------------
(* installing a snapshot received from the leader *)

\* The leader's snapshot: it claims index i, and its data was read at j >= i
\* because the leader's builder, too, reads the store after copying progress.
\* begin_receiving_snapshot and the chunks that follow put it in
\* snapshot.receiving.
ReceiveSnapshot(i, j) ==
    /\ HasPeers
    /\ up
    /\ install = Nothing
    /\ builder = Nothing \/ InstallWhileBuilding
    /\ i > progress.applied
    /\ install' = [stage    |-> "received",
                   progress |-> [applied |-> i, membership |-> MembershipAt(i)],
                   snap     |-> SnapshotState(LogState(j)),
                   at       |-> j]
    /\ UNCHANGED <<fsm, builder, snapshot, disk, world>>

\* install_snapshot: install_snapshot_state, then the progress.  When the
\* former fails the error is fatal to the engine: the step is never taken.
InstallState ==
    /\ up
    /\ install.stage = "received"
    /\ Installable(install.snap, External)
    /\ registry' = InstallSnapshotState(install.snap, External)
    /\ progress' = install.progress
    /\ floor' = install.at
    /\ install' = [install EXCEPT !.stage = "installed"]
    /\ UNCHANGED <<builder, snapshot, disk, world>>

\* rename(snapshot.receiving, snapshot.data)
RenameReceived ==
    /\ up
    /\ install.stage = "installed"
    /\ data' = [state |-> "whole", snap |-> install.snap, at |-> install.at,
                synced |-> FALSE]
    /\ install' = [install EXCEPT !.stage = "renamed"]
    /\ UNCHANGED <<fsm, builder, snapshot, meta, purged, world>>

\* std::fs::write(snapshot.meta): it truncates the file before it writes it.
TruncateMeta ==
    /\ up
    /\ install.stage = "renamed"
    /\ meta' = Torn
    /\ install' = [install EXCEPT !.stage = "truncated"]
    /\ UNCHANGED <<fsm, builder, snapshot, data, purged, world>>

WriteMeta ==
    /\ up
    /\ install.stage = "truncated"
    /\ meta' = [state |-> "whole", progress |-> install.progress,
                at |-> install.at, synced |-> FALSE]
    /\ snapshot' = install.progress.applied
    /\ install' = Nothing
    /\ UNCHANGED <<fsm, builder, data, purged, world>>

----------------------------------------------------------------------------
(* the log, crashes and restarts *)

\* Mutant of Purge: up to what was applied.
PurgeApplied(i) ==
    /\ up
    /\ purged < i
    /\ i <= progress.applied
    /\ purged' = i
    /\ UNCHANGED <<fsm, builder, install, snapshot, data, meta, world>>

\* RaftLog::purge, up to an index openraft knows a snapshot for.
Purge(i) ==
    /\ up
    /\ purged < i
    /\ i <= snapshot
    /\ purged' = i
    /\ UNCHANGED <<fsm, builder, install, snapshot, data, meta, world>>

\* What a crash may make of a file: one that was never synced may be torn.
AfterCrash(file) ==
    {file} \cup (IF file.state = "whole" /\ ~file.synced THEN {Torn} ELSE {})

\* The bytes of a snapshot are a protobuf message of one repeated field: none
\* of them, or those of its first programs, are a snapshot with fewer programs.
EmptyAfterCrash(file) ==
    IF TornDecodes /\ file.state = "whole" /\ ~file.synced
    THEN {[file EXCEPT !.snap = SnapshotState(EmptyRegistry), !.at = 0]}
    ELSE {}

Crash ==
    /\ up
    /\ crashes < MaxCrashes
    /\ crashes' = crashes + 1
    /\ up' = FALSE
    /\ data' \in AfterCrash(data) \cup EmptyAfterCrash(data)
    /\ meta' \in AfterCrash(meta)
    /\ registry' = EmptyRegistry
    /\ progress' = NoProgress
    /\ floor' = 0
    /\ builder' = Nothing
    /\ install' = Nothing
    /\ snapshot' = 0
    /\ UNCHANGED <<log, states, purged>>

HasSnapshot == data.state # "missing" /\ meta.state # "missing"

Readable == data.state # "torn" /\ meta.state # "torn"

\* restore, then the engine starts with what applied_state reports.  A file
\* that does not decode, or a program that does not load, makes `restore` fail,
\* and the process exits.
Restart ==
    /\ ~up
    /\ up' = TRUE
    /\ IF HasSnapshot
       THEN /\ Readable
            /\ Installable(data.snap, External)
            /\ registry' = InstallSnapshotState(data.snap, External)
            /\ progress' = meta.progress
            /\ floor' = data.at
            /\ snapshot' = meta.progress.applied
       ELSE UNCHANGED <<registry, progress, floor, snapshot>>
    /\ UNCHANGED <<log, states, builder, install, disk, crashes>>

Next ==
    \/ \E entry \in Entries : CommitEntry(entry)
    \/ ApplyEntry
    \/ GetSnapshotBuilder
    \/ ReadState
    \/ RenameData
    \/ RenameMeta
    \/ \E i, j \in 1..Len(log) : i <= j /\ ReceiveSnapshot(i, j)
    \/ InstallState
    \/ RenameReceived
    \/ TruncateMeta
    \/ WriteMeta
    \/ \E i \in 1..Len(log) : Purge(i)
    \/ Crash
    \/ Restart

Spec == Init /\ [][Next]_vars

\* The raft worker applies what is committed and finishes what it began, and a
\* process that stopped is started again.
Fairness ==
    /\ WF_vars(ApplyEntry)
    /\ WF_vars(ReadState \/ RenameData \/ RenameMeta)
    /\ WF_vars(InstallState \/ RenameReceived \/ TruncateMeta \/ WriteMeta)
    /\ WF_vars(Restart)

FairSpec == Spec /\ Fairness

----------------------------------------------------------------------------
(* properties *)

Indexes == 0..MaxLog

Progresses == [applied : Indexes, membership : Indexes]

SnapshotStates ==
    [Programs -> [source : Sources, ledger : Ledgers] \cup {Absent}]

\* Every variable has the shape the code gives it.
TypeOK ==
    /\ log \in Seq(Entries) /\ Len(log) <= MaxLog
    /\ states \in Seq(Registries) /\ Len(states) = Len(log) + 1
    /\ up \in BOOLEAN
    /\ registry \in Registries
    /\ progress \in Progresses /\ progress.applied <= Len(log)
    /\ floor \in Indexes
    /\ builder \in {Nothing}
         \cup [stage : {"created"}, progress : Progresses]
         \cup [stage : {"read", "renamed"}, progress : Progresses,
               snap : SnapshotStates, at : Indexes]
    /\ install \in {Nothing}
         \cup [stage : {"received", "installed", "renamed", "truncated"},
               progress : Progresses, snap : SnapshotStates, at : Indexes]
    /\ data \in {Missing, Torn}
         \cup [state : {"whole"}, snap : SnapshotStates, at : Indexes,
               synced : BOOLEAN]
    /\ meta \in {Missing, Torn}
         \cup [state : {"whole"}, progress : Progresses, at : Indexes,
               synced : BOOLEAN]
    /\ snapshot \in Indexes
    /\ purged \in Indexes
    /\ crashes \in 0..MaxCrashes

\* Some command of the log inserts a fact that the external sources hold.
InsertsExternal ==
    \E i \in DOMAIN log :
        /\ log[i].type = "Mutate"
        /\ \E k \in DOMAIN log[i].ops :
             /\ log[i].ops[k].kind = "Insert"
             /\ log[i].ops[k].fact \in External[log[i].name]

\* Replay reaches the state of the log: once the entries the snapshot data may
\* already contain have been applied again, the store holds exactly what the
\* applied entries give, ledgers included (fsm.rs `restore` and `apply`), as
\* long as no command inserts a fact that is also an external one.
ReplayReachesLogState ==
    up /\ progress.applied >= floor /\ ~InsertsExternal =>
        registry = LogState(progress.applied)

\* Whatever the commands are, replay registers the same programs with the same
\* sources, loses no fact, and adds none but external facts, which a ledger can
\* forget to retract again (store.rs note_retract).
ReplayLosesNothing ==
    up /\ progress.applied >= floor =>
        \A n \in Programs :
            LET here  == registry[n]
                there == LogState(progress.applied)[n]
            IN  IF there = Absent THEN here = Absent
                ELSE /\ here # Absent
                     /\ here.source = there.source
                     /\ there.facts \subseteq here.facts
                     /\ here.facts \subseteq there.facts \cup External[n]

\* The entries a replica still has to apply are in its log: neither the running
\* node nor, after a crash, the snapshot on disk is behind the purged prefix
\* (fsm.rs `build_snapshot` and `install_snapshot` before log_store.rs `purge`).
NothingPurgedTooEarly ==
    /\ up => purged <= progress.applied
    /\ purged > 0 =>
         /\ HasSnapshot
         /\ meta.state = "whole" => purged <= meta.progress.applied

\* snapshot.meta never claims more than snapshot.data holds: whatever pair of
\* files a crash leaves, no applied entry is skipped by the replay that follows
\* (the order of the two renames in fsm.rs 359-373 and 299-302).
MetaNeverAhead ==
    HasSnapshot /\ Readable => meta.progress.applied <= data.at

\* The membership a snapshot records is the one in force at its index, whatever
\* was applied while it was being built or installed (fsm.rs 227-251).
MembershipMatchesIndex ==
    /\ progress.membership = MembershipAt(progress.applied)
    /\ meta.state = "whole" =>
         meta.progress.membership = MembershipAt(meta.progress.applied)

\* A replica catches up: when crashes and commits stop, the process runs and
\* has applied every committed entry, unless a crash tore the files of a received
\* snapshot, which install_snapshot does not sync, and `restore` fails for good.
CatchesUp ==
    \/ <>[](up /\ progress.applied = Len(log))
    \/ <>[](~up /\ HasSnapshot /\ ~Readable)
=============================================================================
