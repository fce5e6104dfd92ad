---------------------------- MODULE ProgramStore ----------------------------
(***************************************************************************)
(* `ProgramStore` (crates/mangle-server/src/store.rs) as a server without  *)
(* replication runs it, with the `MutationLog` of src/mutations.rs and the *)
(* `FileEdbSource` that reads the log back when a program is loaded.       *)
(*                                                                         *)
(* A `Mutate` command is modelled step by step, because a step of it can   *)
(* fail after earlier ones took effect, and because the process can die    *)
(* between two appends to the mutation log.  The store is behind one       *)
(* RwLock, so nothing else runs while `call` is in progress, and readers   *)
(* only see states in which it is `Idle`.                                  *)
(***************************************************************************)
EXTENDS StoreCommands, FiniteSets

CONSTANTS
    Base,        \* Base[n]: facts in the files of edb_dir/n other than mutations.mg
    Persistent,  \* names configured with persist_edb
    Reparse,     \* Reparse[f]: what the parser makes of the printed form of f
    Unparsable,  \* the value of Reparse for text the parser rejects
    Dir,         \* programs_dir: a sequence of [name, source], sorted by file name
    Commands,    \* the Mutate commands a client may send: records [name, ops]
    MaxLines     \* bound: lines a mutations.mg may reach

\* The constants are what their comments say they are.
ASSUME ConstantTypes ==
    /\ Persistent \subseteq Programs
    /\ Base \in [Programs -> SUBSET Facts]
    /\ Reparse \in [Facts -> Facts \cup {Unparsable}]
    /\ Unparsable \notin Facts
    /\ Dir \in Seq([name : Programs, source : Sources])
    /\ Commands \subseteq [name : Programs, ops : Seq(Ops)]
    /\ Absent \notin StoredPrograms

VARIABLES
    programs,  \* the registry: `programs` of ProgramStore
    call,      \* the Mutate command in progress, or Idle
    outcome,   \* what the last finished command returned
    files,     \* files[n]: the lines of edb_dir/n/mutations.mg, as ops
    unnoted,   \* history: facts changed in the store without a ledger note
    unlogged   \* history: facts changed in the store without a log line

vars == <<programs, call, outcome, files, unnoted, unlogged>>

Idle == [phase |-> "idle"]

NoOutcome == [result |-> "None"]

\* A line that was only partly on disk when the machine went down.
TornLine == [kind |-> "Torn"]

FactsOf(ops) == {ops[i].fact : i \in DOMAIN ops}

\* FileEdbSource::load_data over the program's directory: every line is parsed
\* back, and every retract line removes its fact wherever the line stands.
Lines(lines, kind) ==
    {Reparse[lines[i].fact] : i \in {j \in DOMAIN lines : lines[j].kind = kind}}

Readable(lines) ==
    /\ \A i \in DOMAIN lines : lines[i] # TornLine
    /\ Unparsable \notin Lines(lines, "Insert") \cup Lines(lines, "Retract")

External(n, lines) == (Base[n] \cup Lines(lines, "Insert")) \ Lines(lines, "Retract")

\* Database::open succeeds: the text compiles, the files parse and the rules
\* evaluate on the facts read.
Loadable(n, source, lines) ==
    /\ source \notin BadSources
    /\ Readable(lines)
    /\ Evaluable(External(n, lines))

Init ==
    /\ programs = EmptyRegistry
    /\ call = Idle
    /\ outcome = NoOutcome
    /\ files = [n \in Programs |-> <<>>]
    /\ unnoted = [n \in Programs |-> {}]
    /\ unlogged = [n \in Programs |-> {}]

----------------------------------------------------------------------------
(* apply_mutate, one step per loop iteration *)

\* The early returns: unknown program, or an op on a source-defined relation.
RejectMutate(n, ops) ==
    /\ call = Idle
    /\ programs[n] = Absent \/ FactsOf(ops) \cap Defined # {}
    /\ outcome' = Err
    /\ UNCHANGED <<programs, call, files, unnoted, unlogged>>

BeginMutate(n, ops) ==
    /\ call = Idle
    /\ programs[n] # Absent
    /\ FactsOf(ops) \cap Defined = {}
    /\ n \in Persistent => Len(files[n]) + Len(ops) <= MaxLines
    /\ call' = [phase |-> "batch", name |-> n, todo |-> ops, applied |-> <<>>,
                skipped |-> 0, before |-> programs[n]]
    /\ UNCHANGED <<programs, outcome, files, unnoted, unlogged>>

\* Mutant of BatchOp: effectiveness is judged against the facts the command
\* found, not against those its own ops left.
BatchOpStale ==
    /\ call.phase = "batch"
    /\ call.todo # <<>>
    /\ LET op == Head(call.todo)
           n  == call.name
       IN  IF Effective(call.before.facts, op)
           THEN /\ programs' = [programs EXCEPT ![n].facts = Batched(@, op)]
                /\ call' = [call EXCEPT !.todo = Tail(@),
                                        !.applied = Append(@, op)]
           ELSE /\ call' = [call EXCEPT !.todo = Tail(@), !.skipped = @ + 1]
                /\ UNCHANGED programs
    /\ UNCHANGED <<outcome, files, unnoted, unlogged>>

\* One op: skipped against the membership set, or batched into the store.
BatchOp ==
    /\ call.phase = "batch"
    /\ call.todo # <<>>
    /\ LET op == Head(call.todo)
           n  == call.name
       IN  IF Effective(programs[n].facts, op)
           THEN /\ programs' = [programs EXCEPT ![n].facts = Batched(@, op)]
                /\ call' = [call EXCEPT !.todo = Tail(@),
                                        !.applied = Append(@, op)]
           ELSE /\ call' = [call EXCEPT !.todo = Tail(@), !.skipped = @ + 1]
                /\ UNCHANGED programs
    /\ UNCHANGED <<outcome, files, unnoted, unlogged>>

MutatedOutcome(c) ==
    [result |-> "Mutated", applied |-> Len(c.applied), skipped |-> c.skipped]

\* Mutant of Commit: the first effective op is never noted.
CommitSkipsFirst ==
    /\ call.phase = "batch"
    /\ call.todo = <<>>
    /\ IF call.applied = <<>>
       THEN /\ call' = Idle
            /\ outcome' = MutatedOutcome(call)
       ELSE /\ Evaluable(programs[call.name].facts)
            /\ call' = [call EXCEPT !.phase = "note", !.todo = Tail(call.applied)]
            /\ UNCHANGED outcome
    /\ UNCHANGED <<programs, files, unnoted, unlogged>>

\* batch.commit() recomputed the derived facts; without an effective op there
\* is no batch and the command is done.
Commit ==
    /\ call.phase = "batch"
    /\ call.todo = <<>>
    /\ IF call.applied = <<>>
       THEN /\ call' = Idle
            /\ outcome' = MutatedOutcome(call)
       ELSE /\ Evaluable(programs[call.name].facts)
            /\ call' = [call EXCEPT !.phase = "note", !.todo = call.applied]
            /\ UNCHANGED outcome
    /\ UNCHANGED <<programs, files, unnoted, unlogged>>

\* batch.commit() returned an error: the `?` leaves apply_mutate with the
\* batch in the store and nothing noted.
CommitFails ==
    /\ call.phase = "batch"
    /\ call.todo = <<>>
    /\ call.applied # <<>>
    /\ ~Evaluable(programs[call.name].facts)
    /\ call' = Idle
    /\ outcome' = Err
    /\ unnoted' = [unnoted EXCEPT ![call.name] = @ \cup FactsOf(call.applied)]
    /\ unlogged' = [unlogged EXCEPT ![call.name] = @ \cup FactsOf(call.applied)]
    /\ UNCHANGED <<programs, files>>

\* Mutant of NoteOp: retractions do not reach the log.
NoteOpLogsInserts ==
    /\ call.phase = "note"
    /\ call.todo # <<>>
    /\ LET op == Head(call.todo)
           n  == call.name
       IN  /\ programs' = [programs EXCEPT ![n].ledger = Note(@, op)]
           /\ files' = IF n \in Persistent /\ op.kind = "Insert"
                       THEN [files EXCEPT ![n] = Append(@, op)]
                       ELSE files
    /\ call' = [call EXCEPT !.todo = Tail(@)]
    /\ UNCHANGED <<outcome, unnoted, unlogged>>

\* The ledger note of one op and, for a persistent program, its log line.
NoteOp ==
    /\ call.phase = "note"
    /\ call.todo # <<>>
    /\ LET op == Head(call.todo)
           n  == call.name
       IN  /\ programs' = [programs EXCEPT ![n].ledger = Note(@, op)]
           /\ files' = IF n \in Persistent
                       THEN [files EXCEPT ![n] = Append(@, op)]
                       ELSE files
    /\ call' = [call EXCEPT !.todo = Tail(@)]
    /\ UNCHANGED <<outcome, unnoted, unlogged>>

\* append_line failed (the directory, the open or the write): the op is noted,
\* the ops after it are not, and the command returns the error.
AppendFails ==
    /\ call.phase = "note"
    /\ call.todo # <<>>
    /\ call.name \in Persistent
    /\ LET op == Head(call.todo)
           n  == call.name
       IN  /\ programs' = [programs EXCEPT ![n].ledger = Note(@, op)]
           /\ unnoted' = [unnoted EXCEPT ![n] = @ \cup FactsOf(Tail(call.todo))]
           /\ unlogged' = [unlogged EXCEPT ![n] = @ \cup FactsOf(call.todo)]
    /\ call' = Idle
    /\ outcome' = Err
    /\ UNCHANGED files

FinishMutate ==
    /\ call.phase = "note"
    /\ call.todo = <<>>
    /\ call' = Idle
    /\ outcome' = MutatedOutcome(call)
    /\ UNCHANGED <<programs, files, unnoted, unlogged>>

----------------------------------------------------------------------------
(* the registry *)

\* Every name of S was opened afresh or dropped: its histories start over.
Forget(S) ==
    /\ unnoted' = [n \in Programs |-> IF n \in S THEN {} ELSE unnoted[n]]
    /\ unlogged' = [n \in Programs |-> IF n \in S THEN {} ELSE unlogged[n]]

\* load: the old program is replaced only after Database::open succeeded.
LoadProgram(n, source) ==
    /\ call = Idle
    /\ IF Loadable(n, source, files[n])
       THEN /\ programs' = [programs EXCEPT ![n] = Opened(source, External(n, files[n]))]
            /\ outcome' = [result |-> "Loaded"]
            /\ Forget({n})
       ELSE /\ outcome' = Err
            /\ UNCHANGED <<programs, unnoted, unlogged>>
    /\ UNCHANGED <<call, files>>

DeleteProgram(n) ==
    /\ call = Idle
    /\ IF programs[n] # Absent
       THEN /\ programs' = [programs EXCEPT ![n] = Absent]
            /\ outcome' = [result |-> "Deleted"]
            /\ Forget({n})
       ELSE /\ outcome' = Err
            /\ UNCHANGED <<programs, unnoted, unlogged>>
    /\ UNCHANGED <<call, files>>

\* reload: the text comes from programs_dir, and a missing file is an error.
Reload(n) ==
    LET entries == {i \in DOMAIN Dir : Dir[i].name = n}
    IN  IF entries = {}
        THEN /\ call = Idle
             /\ outcome' = Err
             /\ UNCHANGED <<programs, call, files, unnoted, unlogged>>
        ELSE \E i \in entries : LoadProgram(n, Dir[i].source)

\* The registry after loading the files of programs_dir whose indexes are in I,
\* when the mutation logs are fs.
LoadedFrom(I, fs) ==
    [n \in Programs |->
        IF \E i \in I : Dir[i].name = n
        THEN Opened(Dir[CHOOSE i \in I : Dir[i].name = n].source, External(n, fs[n]))
        ELSE Absent]

LoadableFiles(fs) ==
    {i \in DOMAIN Dir : Loadable(Dir[i].name, Dir[i].source, fs[Dir[i].name])}

\* reload_all: clear first, then load in file order and stop at the first file
\* that fails, leaving what was loaded before it.
ReloadAll ==
    /\ call = Idle
    /\ LET upto == {i \in DOMAIN Dir : \A j \in 1..i : j \in LoadableFiles(files)}
       IN  /\ programs' = LoadedFrom(upto, files)
           /\ outcome' = IF upto = DOMAIN Dir THEN [result |-> "Loaded"] ELSE Err
    /\ Forget(Programs)
    /\ UNCHANGED <<call, files>>

\* What a crash leaves of a log written without fsync: a prefix of its lines,
\* or a prefix and a part of the line after it.
Survivors(lines) ==
    {SubSeq(lines, 1, k) : k \in 0..Len(lines)}
        \cup {Append(SubSeq(lines, 1, k), TornLine) : k \in 0..Len(lines) - 1}

\* The process dies at any point and starts again: load_programs_dir loads
\* every file that loads.
Restart ==
    /\ files' \in [Programs -> UNION {Survivors(files[n]) : n \in Programs}]
    /\ \A n \in Programs : files'[n] \in Survivors(files[n])
    /\ programs' = LoadedFrom(LoadableFiles(files'), files')
    /\ call' = Idle
    /\ outcome' = NoOutcome
    /\ Forget(Programs)

Next ==
    \/ \E c \in Commands : RejectMutate(c.name, c.ops) \/ BeginMutate(c.name, c.ops)
    \/ BatchOp
    \/ Commit
    \/ CommitFails
    \/ call # Idle /\ (NoteOp \/ AppendFails)
    \/ FinishMutate
    \/ \E n \in Programs, s \in Sources : LoadProgram(n, s)
    \/ \E n \in Programs : DeleteProgram(n) \/ Reload(n)
    \/ ReloadAll
    \/ Restart

Spec == Init /\ [][Next]_vars

----------------------------------------------------------------------------
(* properties *)

Outcomes ==
    {NoOutcome, Err, [result |-> "Loaded"], [result |-> "Deleted"]}
        \cup [result : {"Mutated"}, applied : Nat, skipped : Nat]

Running ==
    [phase : {"batch", "note"}, name : Programs, todo : Seq(Ops),
     applied : Seq(Ops), skipped : Nat, before : StoredPrograms]

LogLines == Seq(Ops \cup {TornLine})

\* Every variable holds a value of the shape the code gives it; in particular
\* a command in progress is always one of a registered program.
TypeOK ==
    /\ programs \in Registries
    /\ call \in {Idle} \cup Running
    /\ call # Idle => programs[call.name] # Absent
    /\ outcome \in Outcomes
    /\ files \in [Programs -> LogLines]
    /\ unnoted \in [Programs -> SUBSET Facts]
    /\ unlogged \in [Programs -> SUBSET Facts]

\* Between commands the ledger describes the store (store.rs 28-31): no fact is
\* both replicated and retracted, a replicated fact is present and a retracted
\* one is absent, except for facts a failed command changed without a note.
LedgerSound ==
    call = Idle =>
        \A n \in Programs : programs[n] # Absent =>
            LET p == programs[n]
            IN  /\ p.ledger.replicated \cap p.ledger.retracted = {}
                /\ p.ledger.replicated \subseteq p.facts \cup unnoted[n]
                /\ p.ledger.retracted \cap p.facts \subseteq unnoted[n]

\* No fact is lost by a snapshot: between commands, what install_snapshot_state
\* would rebuild from the ledger contains every present fact, except for facts
\* a failed command changed without a note.  (`Base` stands for the external
\* facts: a replicated node keeps no mutation log.)
RestoreLosesNothing ==
    call = Idle =>
        \A n \in Programs \ Persistent : programs[n] # Absent =>
            programs[n].facts \subseteq
                Restored(Base[n], programs[n].ledger) \cup unnoted[n]

\* No printed fact parses back as another one.
PrintsFaithfully == \A f \in Facts : Reparse[f] \in {f, Unparsable}

\* A restart never brings back a fact: whatever load_data would read for a
\* loaded persistent program is present now, except for facts whose retraction
\* the log never received (apply_mutate 467-482, file_source.rs load_data).
RestartNeverResurrects ==
    PrintsFaithfully /\ call = Idle =>
        \A n \in Persistent : programs[n] # Absent /\ Readable(files[n]) =>
            External(n, files[n]) \subseteq programs[n].facts \cup unlogged[n]

\* mutations.rs 16-17: a restart reconstructs the correct state from the log;
\* every present fact of a persistent program is read back, except for facts
\* whose insertion the log never received.
RestartReconstructs ==
    call = Idle =>
        \A n \in Persistent : programs[n] # Absent /\ Readable(files[n]) =>
            programs[n].facts \subseteq External(n, files[n]) \cup unlogged[n]

\* store.rs 367-368: a Mutate command is all-or-nothing; one that returns an
\* error leaves the facts as they were when it began.
AllOrNothing ==
    [][call # Idle /\ call' = Idle /\ outcome' = Err =>
         programs'[call.name].facts = call.before.facts]_vars
=============================================================================
