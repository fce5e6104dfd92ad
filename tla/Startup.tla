------------------------------ MODULE Startup ------------------------------
(***************************************************************************)
(* A server that ran without replication (ProgramStore) is started with a  *)
(* raft_dir: open_engine, import_programs_dir and migrate_mutation_logs of *)
(* crates/mangle-server/src/main.rs, for a cluster of one node, with       *)
(* crashes and the snapshots that openraft may take at any time.           *)
(*                                                                         *)
(* The Raft log is external: a node alone commits what it appends.  Every  *)
(* command goes through engine.write, which returns after the entry was    *)
(* applied; RaftFsm has the steps of a snapshot that are one step here.    *)
(***************************************************************************)
EXTENDS ProgramStore

CONSTANTS Mutations,    \* the Mutate commands clients send to the replicated server
          MaxEntries,   \* bound: entries of the log
          MaxStops      \* bound: crashes of the replicated server

VARIABLES
    phase,      \* how far main is; "legacy" before the change of mode
    at,         \* the file of programs_dir, or the name of persist_edb, in turn
    awaited,    \* the index engine.write waits for, 0 when it does not
    entries,    \* the log
    applied,    \* what the state machine has applied of it
    replica,    \* the registry of the replicated store
    answer,     \* the outcome of the entry applied last
    saved,      \* the snapshot on disk
    bootstrap,  \* whether the configuration says raft_bootstrap(1)
    restored,   \* whether this process began from a snapshot
    legacy,     \* history: what the server without replication would load
    touched,    \* history: whether a client wrote to the replicated server
    stops

nodeVars  == <<applied, replica, answer, restored>>
startVars == <<phase, at, awaited, entries, nodeVars, saved, bootstrap, legacy, touched, stops>>

NoSnapshot == [index |-> 0, snap |-> [n \in Programs |-> Absent]]
Membership == [type |-> "Membership"]
PersistEdb == SetToSeq(Persistent)

StartInit ==
    /\ Init
    /\ phase = "legacy" /\ at = 1 /\ awaited = 0
    /\ entries = <<>> /\ saved = NoSnapshot /\ bootstrap = TRUE
    /\ applied = 0 /\ replica = EmptyRegistry /\ answer = NoOutcome /\ restored = FALSE
    /\ legacy = [n \in Programs |-> {}] /\ touched = FALSE
    /\ stops = 0

----------------------------------------------------------------------------
(* the state machine *)

\* The facts that the file sources of each program hold now.
Sourced(fs) == [n \in Programs |-> External(n, fs[n])]

\* ProgramStore::apply: a directory with a file that does not parse is an error
\* of the load.
Answered(registry, fs, entry) ==
    IF entry.type = "Membership" THEN [registry |-> registry, outcome |-> NoOutcome]
    ELSE IF entry.type = "Load" /\ ~Readable(fs[entry.name])
    THEN [registry |-> registry, outcome |-> Err]
    ELSE Apply(registry, Sourced(fs), entry)

Serving == phase \in {"import", "migrate", "rename", "serve"}

ApplyEntry ==
    /\ Serving
    /\ applied < Len(entries)
    /\ LET done == Answered(replica, files, entries[applied + 1])
       IN  replica' = done.registry /\ answer' = done.outcome
    /\ applied' = applied + 1
    /\ UNCHANGED <<vars, phase, at, awaited, entries, saved, bootstrap, restored, legacy, touched, stops>>

\* openraft has a snapshot built when its policy says so.
TakeSnapshot ==
    /\ Serving
    /\ saved.index < applied
    /\ saved' = [index |-> applied, snap |-> SnapshotState(replica)]
    /\ UNCHANGED <<vars, phase, at, awaited, entries, nodeVars, bootstrap, legacy, touched, stops>>

\* engine.write: the entry is in the log, and the caller waits.
Write(cmd) ==
    /\ awaited = 0
    /\ entries' = Append(entries, cmd)
    /\ awaited' = Len(entries) + 1

Returned == awaited > 0 /\ awaited <= applied

----------------------------------------------------------------------------
(* main *)

\* The server without replication stops, and its configuration names a raft_dir.
Upgrade ==
    /\ phase = "legacy"
    /\ call = Idle
    /\ phase' = "down"
    /\ legacy' = [n \in Programs |-> IF Readable(files[n]) THEN External(n, files[n]) ELSE {}]
    /\ programs' = EmptyRegistry
    /\ outcome' = NoOutcome
    /\ Forget(Programs)
    /\ UNCHANGED <<call, files, at, awaited, entries, nodeVars, saved, bootstrap, touched, stops>>

HasSnapshot == saved # NoSnapshot

Restorable ==
    /\ \A n \in Programs : saved.snap[n] # Absent => Readable(files[n])
    /\ Installable(saved.snap, Sourced(files))

\* open_engine up to the bootstrap: restore, then the log tells a fresh node
\* from one that must not bootstrap again.
OpenEngine ==
    /\ phase = "down"
    /\ LET fresh == entries = <<>> /\ ~HasSnapshot
           fails == (HasSnapshot /\ ~Restorable) \/ (~fresh /\ bootstrap)
       IN  /\ phase' = IF fails THEN "exited" ELSE IF fresh THEN "fresh" ELSE "serve"
           /\ restored' = (~fails /\ HasSnapshot)
    /\ applied' = IF restored' THEN saved.index ELSE 0
    /\ replica' = IF restored' THEN InstallSnapshotState(saved.snap, Sourced(files))
                  ELSE EmptyRegistry
    /\ UNCHANGED <<vars, at, awaited, entries, answer, saved, bootstrap, legacy, touched, stops>>

\* engine.bootstrap and wait_for_leader
Bootstrap ==
    /\ phase = "fresh"
    /\ entries' = <<Membership>>
    /\ phase' = "import"
    /\ at' = 1
    /\ UNCHANGED <<vars, awaited, nodeVars, saved, bootstrap, legacy, touched, stops>>

\* import_programs_dir: a program that does not load is passed over.
ImportProgram ==
    /\ phase = "import"
    /\ at <= Len(Dir)
    /\ \/ /\ Write([type |-> "Load", name |-> Dir[at].name, source |-> Dir[at].source])
          /\ UNCHANGED at
       \/ /\ Returned
          /\ at' = at + 1 /\ awaited' = 0
          /\ UNCHANGED entries
    /\ UNCHANGED <<vars, phase, nodeVars, saved, bootstrap, legacy, touched, stops>>

ImportDone ==
    /\ phase = "import"
    /\ at > Len(Dir)
    /\ phase' = "migrate"
    /\ at' = 1
    /\ UNCHANGED <<vars, awaited, entries, nodeVars, saved, bootstrap, legacy, touched, stops>>

\* Mutant of MutationsToOps: the retracted facts are forgotten.
InsertsToOps(lines) ==
    LET fs == SetToSeq(Lines(lines, "Insert"))
    IN  {[i \in DOMAIN fs |-> [kind |-> "Insert", fact |-> fs[i]]]}

\* mutations_to_ops: relation by relation, in the order of a hash map, so the
\* insert of a fact may come before or after its retract.
MutationsToOps(lines) ==
    LET of(kind) == LET fs == SetToSeq(Lines(lines, kind))
                    IN  [i \in DOMAIN fs |-> [kind |-> kind, fact |-> fs[i]]]
    IN  {of("Insert") \o of("Retract"), of("Retract") \o of("Insert")}

\* migrate_mutation_logs, up to the write of one file's command
MigrateLog(n) ==
    /\ phase = "migrate"
    /\ files[n] # <<>>
    /\ IF Readable(files[n])
       THEN /\ \E ops \in MutationsToOps(files[n]) :
                 Write([type |-> "Mutate", name |-> n, ops |-> ops])
            /\ UNCHANGED phase
       ELSE awaited = 0 /\ phase' = "exited" /\ UNCHANGED <<awaited, entries>>
    /\ UNCHANGED <<vars, at, nodeVars, saved, bootstrap, legacy, touched, stops>>

\* A command that fails ends the start-up.
Migrated ==
    /\ phase = "migrate"
    /\ Returned
    /\ awaited' = 0
    /\ phase' = IF answer = Err THEN "exited" ELSE "rename"
    /\ UNCHANGED <<vars, at, entries, nodeVars, saved, bootstrap, legacy, touched, stops>>

\* fs::rename(mutations.mg, mutations.mg.migrated)
RenameLog ==
    /\ phase = "rename"
    /\ files' = [files EXCEPT ![PersistEdb[at]] = <<>>]
    /\ phase' = "migrate"
    /\ at' = at + 1
    /\ UNCHANGED <<programs, call, outcome, unnoted, unlogged,
                   awaited, entries, nodeVars, saved, bootstrap, legacy, touched, stops>>

\* The next name has no file, or there is none left and the server listens.
MigrateNext ==
    /\ phase = "migrate"
    /\ awaited = 0
    /\ IF at > Len(PersistEdb) THEN phase' = "serve" /\ UNCHANGED at
       ELSE files[PersistEdb[at]] = <<>> /\ at' = at + 1 /\ UNCHANGED phase
    /\ UNCHANGED <<vars, awaited, entries, nodeVars, saved, bootstrap, legacy, touched, stops>>

\* A client's command; nobody waits for it here.
ClientMutate(c) ==
    /\ phase = "serve"
    /\ Len(entries) < MaxEntries
    /\ entries' = Append(entries, [type |-> "Mutate", name |-> c.name, ops |-> c.ops])
    /\ touched' = TRUE
    /\ UNCHANGED <<vars, phase, at, awaited, nodeVars, saved, bootstrap, legacy, stops>>

\* The process ends without notice.
Stop ==
    /\ Serving \/ phase = "fresh"
    /\ stops < MaxStops
    /\ stops' = stops + 1
    /\ phase' = "down" /\ at' = 1 /\ awaited' = 0
    /\ applied' = 0 /\ replica' = EmptyRegistry /\ answer' = NoOutcome /\ restored' = FALSE
    /\ UNCHANGED <<vars, entries, saved, bootstrap, legacy, touched>>

\* A start that failed is tried again, with raft_bootstrap removed or not.
StartAgain ==
    /\ phase = "exited"
    /\ phase' = "down" /\ at' = 1
    /\ bootstrap' \in {bootstrap, FALSE}
    /\ applied' = 0 /\ replica' = EmptyRegistry /\ answer' = NoOutcome /\ restored' = FALSE
    /\ UNCHANGED <<vars, awaited, entries, saved, legacy, touched, stops>>

StartNext ==
    \/ phase = "legacy" /\ Next /\ UNCHANGED startVars
    \/ Upgrade \/ OpenEngine \/ Bootstrap \/ ImportProgram \/ ImportDone
    \/ at <= Len(PersistEdb) /\ MigrateLog(PersistEdb[at])
    \/ Migrated \/ RenameLog \/ MigrateNext
    \/ ApplyEntry \/ TakeSnapshot \/ Stop \/ StartAgain
    \/ \E c \in Mutations : ClientMutate(c)

----------------------------------------------------------------------------
(* properties *)

\* The registry that the log gives from its start, over the directories as they
\* are now
Replayed ==
    LET after[i \in 0..Len(entries)] ==
          IF i = 0 THEN EmptyRegistry ELSE Answered(after[i - 1], files, entries[i]).registry
    IN  after[Len(entries)]

\* Moving the facts of mutations.mg from the directory into the log changes
\* nothing that a restart could show: a node that has applied its log, and that
\* did not begin from a snapshot, has the facts it would have after replaying
\* the log over the directories as the migration left them (main.rs 287-332).
MigrationIsReplayable ==
    phase = "serve" /\ applied = Len(entries) /\ ~restored =>
        \A n \in Programs :
            replica[n] = Absent \/ Replayed[n] = Absent \/ replica[n].facts = Replayed[n].facts

\* main.rs 290-294: the replicated ledger supersedes mutations.mg; as long as no
\* client wrote, a node that has applied its log has every fact of a program
\* that the server without replication would have loaded.
LedgerSupersedesLog ==
    phase = "serve" /\ applied = Len(entries) /\ ~touched =>
        \A n \in Programs : replica[n] # Absent => legacy[n] \subseteq replica[n].facts
=============================================================================
