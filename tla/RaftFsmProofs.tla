--------------------------- MODULE RaftFsmProofs ---------------------------
(***************************************************************************)
(* Proofs about the snapshot files of RaftFsm, for logs, commands and      *)
(* numbers of crashes of any size: whatever pair of snapshot files a crash *)
(* leaves, and however the log was purged, a replica can catch up from it. *)
(* They assume that no snapshot is installed while a builder is at work.   *)
(***************************************************************************)
EXTENDS RaftFsm, TLAPS

\* The parts of the state that hold log indexes.
Shape ==
    /\ up \in BOOLEAN
    /\ log \in Seq(Entries)
    /\ progress.applied \in Nat
    /\ floor \in Nat
    /\ snapshot \in Nat
    /\ purged \in Nat
    /\ \/ builder = Nothing
       \/ /\ builder \in [stage : {"created"}, progress : {builder.progress}]
          /\ builder.progress.applied \in Nat
       \/ /\ builder \in [stage : {"read", "renamed"}, progress : {builder.progress},
                          snap : {builder.snap}, at : Nat]
          /\ builder.progress.applied \in Nat
    /\ \/ install = Nothing
       \/ /\ install \in [stage : {"received", "installed", "renamed", "truncated"},
                          progress : {install.progress}, snap : {install.snap}, at : Nat]
          /\ install.progress.applied \in Nat
    /\ \/ data \in {Missing, Torn}
       \/ data \in [state : {"whole"}, snap : {data.snap}, at : Nat, synced : BOOLEAN]
    /\ \/ meta \in {Missing, Torn}
       \/ /\ meta \in [state : {"whole"}, progress : {meta.progress}, at : Nat,
                       synced : BOOLEAN]
          /\ meta.progress.applied \in Nat

\* While the process runs, neither openraft nor snapshot.meta is ahead of what
\* was applied, and a snapshot openraft knows of is on disk.
FilesInv ==
    /\ up => /\ snapshot <= progress.applied
             /\ purged <= snapshot
             /\ snapshot > 0 => HasSnapshot
             /\ meta.state = "whole" => /\ meta.progress.applied <= progress.applied
                                        /\ snapshot <= meta.progress.applied
    /\ ~up => builder = Nothing /\ install = Nothing /\ snapshot = 0
    /\ data.state = "missing" => meta.state = "missing"
    /\ purged > 0 =>
         /\ HasSnapshot
         /\ meta.state = "whole" => purged <= meta.progress.applied
    /\ data.state = "whole" /\ meta.state = "whole" => meta.progress.applied <= data.at

\* A builder's snapshot is newer than the last one, not ahead of the state it
\* holds, and nothing comes between its two renames.
BuilderInv ==
    builder # Nothing =>
        /\ install = Nothing
        /\ snapshot < builder.progress.applied
        /\ builder.progress.applied <= progress.applied
        /\ builder.stage \in {"read", "renamed"} =>
             /\ builder.progress.applied <= builder.at
             /\ meta.state = "whole" => meta.progress.applied <= builder.at
        /\ builder.stage = "renamed" => data.state = "whole" /\ data.at = builder.at

\* The same for a snapshot that is being installed.
InstallInv ==
    install # Nothing =>
        /\ install.progress.applied <= install.at
        /\ progress.applied <= install.progress.applied
        /\ install.stage \in {"installed", "renamed", "truncated"} =>
             progress = install.progress
        /\ install.stage \in {"renamed", "truncated"} =>
             data.state = "whole" /\ data.at = install.at

SnapshotInv == Shape /\ FilesInv /\ BuilderInv /\ InstallInv

LEMMA StepSnapshotInv ==
    ASSUME ~InstallWhileBuilding, ~TornDecodes
    PROVE  SnapshotInv /\ [Next]_vars => SnapshotInv'
<1> SUFFICES ASSUME SnapshotInv, [Next]_vars
             PROVE  SnapshotInv'
  OBVIOUS
<1> USE DEF SnapshotInv, Shape, Nothing, Missing, Torn, HasSnapshot
<1>1. ASSUME NEW entry \in Entries, CommitEntry(entry)
      PROVE  SnapshotInv'
  BY <1>1 DEF CommitEntry, fsm, disk, FilesInv, BuilderInv, InstallInv
<1>2. CASE ApplyEntry
  BY <1>2 DEF ApplyEntry, disk, world, FilesInv, BuilderInv, InstallInv
<1>3. CASE GetSnapshotBuilder
  BY <1>3 DEF GetSnapshotBuilder, fsm, disk, world, FilesInv, BuilderInv, InstallInv
<1>4. CASE ReadState
  BY <1>4 DEF ReadState, fsm, disk, world, FilesInv, BuilderInv, InstallInv
<1>5. CASE RenameData
  BY <1>5 DEF RenameData, fsm, disk, world, FilesInv, BuilderInv, InstallInv
<1>6. CASE RenameMeta
  BY <1>6 DEF RenameMeta, fsm, disk, world, FilesInv, BuilderInv, InstallInv
<1>7. ASSUME NEW i \in 1..Len(log), NEW j \in 1..Len(log), i <= j, ReceiveSnapshot(i, j)
      PROVE  SnapshotInv'
  BY <1>7 DEF ReceiveSnapshot, fsm, disk, world, FilesInv, BuilderInv, InstallInv
<1>8. CASE InstallState
  BY <1>8 DEF InstallState, fsm, disk, world, FilesInv, BuilderInv, InstallInv
<1>9. CASE RenameReceived
  BY <1>9 DEF RenameReceived, fsm, disk, world, FilesInv, BuilderInv, InstallInv
<1>10. CASE TruncateMeta
  BY <1>10 DEF TruncateMeta, fsm, disk, world, FilesInv, BuilderInv, InstallInv
<1>11. CASE WriteMeta
  BY <1>11 DEF WriteMeta, fsm, disk, world, FilesInv, BuilderInv, InstallInv
<1>12. ASSUME NEW i \in 1..Len(log), Purge(i)
       PROVE  SnapshotInv'
  BY <1>12 DEF Purge, fsm, disk, world, FilesInv, BuilderInv, InstallInv
<1>13. CASE Crash
  <2>1. \/ data' = data
        \/ data.state = "whole" /\ data' = Torn
    BY <1>13 DEF Crash, AfterCrash, EmptyAfterCrash
  <2>2. \/ meta' = meta
        \/ meta.state = "whole" /\ meta' = Torn
    BY <1>13 DEF Crash, AfterCrash
  <2>3. /\ up' = FALSE /\ builder' = Nothing /\ install' = Nothing
        /\ progress'.applied = 0 /\ floor' = 0 /\ snapshot' = 0
        /\ UNCHANGED <<log, purged>>
    BY <1>13 DEF Crash, NoProgress
  <2>4. Shape'
    <3>1. \/ data' \in {Missing, Torn}
          \/ data' \in [state : {"whole"}, snap : {data'.snap}, at : Nat, synced : BOOLEAN]
      BY <2>1
    <3>2. \/ meta' \in {Missing, Torn}
          \/ /\ meta' \in [state : {"whole"}, progress : {meta'.progress}, at : Nat,
                           synced : BOOLEAN]
             /\ meta'.progress.applied \in Nat
      BY <2>2
    <3>3. /\ log' \in Seq(Entries) /\ progress'.applied \in Nat
          /\ floor' \in Nat /\ snapshot' \in Nat /\ purged' \in Nat
      BY <2>3
    <3>4. up' \in BOOLEAN
      BY <2>3, Zenon
    <3> QED
      BY <2>3, <3>1, <3>2, <3>3, <3>4, Zenon
  <2>5. FilesInv'
    BY <2>1, <2>2, <2>3 DEF FilesInv
  <2> QED
    BY <2>3, <2>4, <2>5 DEF BuilderInv, InstallInv
<1>14. CASE Restart
  <2>1. CASE HasSnapshot
    BY <1>14, <2>1 DEF Restart, Readable, fsm, disk, FilesInv, BuilderInv, InstallInv
  <2>2. CASE ~HasSnapshot
    BY <1>14, <2>2 DEF Restart, fsm, disk, FilesInv, BuilderInv, InstallInv
  <2> QED
    BY <2>1, <2>2
<1>15. CASE UNCHANGED vars
  BY <1>15 DEF vars, FilesInv, BuilderInv, InstallInv
<1> QED
  BY <1>1, <1>2, <1>3, <1>4, <1>5, <1>6, <1>7, <1>8, <1>9, <1>10, <1>11, <1>12,
     <1>13, <1>14, <1>15 DEF Next

LEMMA SnapshotInvariant ==
    ASSUME ~InstallWhileBuilding, ~TornDecodes
    PROVE  Spec => []SnapshotInv
<1>1. Init => SnapshotInv
  BY DEF Init, SnapshotInv, Shape, FilesInv, BuilderInv, InstallInv, NoProgress,
         Nothing, Missing, Torn, HasSnapshot
<1> QED
  BY <1>1, StepSnapshotInv, PTL DEF Spec

\* Whatever pair of snapshot files a crash leaves, snapshot.meta claims no entry
\* that snapshot.data does not hold, so that the replay after a restart skips
\* none: the order of the renames in build_snapshot and install_snapshot.
THEOREM MetaIsNeverAhead ==
    ASSUME ~InstallWhileBuilding, ~TornDecodes
    PROVE  Spec => []MetaNeverAhead
<1>1. SnapshotInv => MetaNeverAhead
  BY DEF SnapshotInv, Shape, FilesInv, MetaNeverAhead, HasSnapshot, Readable,
         Missing, Torn
<1> QED
  BY <1>1, SnapshotInvariant, PTL

\* The log is never purged past what the replica has applied, nor past the
\* snapshot a restart would resume from.
THEOREM PurgeIsSafe ==
    ASSUME ~InstallWhileBuilding, ~TornDecodes
    PROVE  Spec => []NothingPurgedTooEarly
<1>1. SnapshotInv => NothingPurgedTooEarly
  BY DEF SnapshotInv, Shape, FilesInv, NothingPurgedTooEarly
<1> QED
  BY <1>1, SnapshotInvariant, PTL
=============================================================================
