--------------------------- MODULE StoreCommands ---------------------------
(***************************************************************************)
(* `ProgramStore` of crates/mangle-server/src/store.rs as functions from a *)
(* program registry to a program registry: what one command does under the *)
(* write lock of the store.                                                *)
(*                                                                         *)
(* A program is its source, the facts of its EDB relations (`facts`) and   *)
(* its ledger.  Derived facts are a function of source and facts that the  *)
(* commit of every batch recomputes, so they are left out here.            *)
(***************************************************************************)
EXTENDS FactLedger, SequencesExt, Naturals

CONSTANTS
    Programs,     \* program names
    Sources,      \* program texts
    BadSources,   \* the texts that do not compile
    Facts,        \* facts of the relations a command may name
    Defined,      \* facts of relations the program source itself defines
    Poison,       \* sets of facts whose join makes a rule fail (a division by zero)
    Absent        \* the value of a name that is not in the registry

Ops == [kind : {"Insert", "Retract"}, fact : Facts]

Ledgers == [replicated : SUBSET Facts, retracted : SUBSET Facts]

StoredPrograms == [source : Sources, facts : SUBSET Facts, ledger : Ledgers]

Registries == [Programs -> StoredPrograms \cup {Absent}]

EmptyRegistry == [n \in Programs |-> Absent]

\* Recomputing the derived facts succeeds.
Evaluable(facts) == \A bad \in Poison : ~(bad \subseteq facts)

\* load: Database::open reads the external facts; the ledger starts empty.
Opened(source, external) ==
    [source |-> source, facts |-> external, ledger |-> EmptyLedger]

\* apply_mutate: classification, batch and ledger note of one op.  The code
\* runs the three as three loops over the same op list; an op's class depends
\* only on the ops before it, so one pass is the same.
ApplyOp(acc, op) ==
    IF Effective(acc.prog.facts, op)
    THEN [prog    |-> [acc.prog EXCEPT !.facts  = Batched(@, op),
                                       !.ledger = Note(@, op)],
          applied |-> acc.applied + 1,
          skipped |-> acc.skipped]
    ELSE [acc EXCEPT !.skipped = @ + 1]

ApplyOps(prog, ops) ==
    LET after[i \in 0..Len(ops)] ==
          IF i = 0 THEN [prog |-> prog, applied |-> 0, skipped |-> 0]
          ELSE ApplyOp(after[i - 1], ops[i])
    IN  after[Len(ops)]

Err == [result |-> "Err"]

\* What one command makes of the registry, and its ApplyOutcome.  A commit
\* that fails leaves the batch in the store and the ledger as it was.
ApplyMutate(registry, n, ops) ==
    IF registry[n] = Absent \/ \E i \in DOMAIN ops : ops[i].fact \in Defined
    THEN [registry |-> registry, outcome |-> Err]
    ELSE LET done == ApplyOps(registry[n], ops)
         IN  IF done.applied > 0 /\ ~Evaluable(done.prog.facts)
             THEN [registry |-> [registry EXCEPT ![n].facts = done.prog.facts],
                   outcome  |-> Err]
             ELSE [registry |-> [registry EXCEPT ![n] = done.prog],
                   outcome  |-> [result  |-> "Mutated",
                                 applied |-> done.applied,
                                 skipped |-> done.skipped]]

\* `external` maps every name to the facts its external sources hold.
ApplyLoad(registry, external, n, source) ==
    IF source \in BadSources \/ ~Evaluable(external[n])
    THEN [registry |-> registry, outcome |-> Err]
    ELSE [registry |-> [registry EXCEPT ![n] = Opened(source, external[n])],
          outcome  |-> [result |-> "Loaded"]]

ApplyDelete(registry, n) ==
    IF registry[n] = Absent
    THEN [registry |-> registry, outcome |-> Err]
    ELSE [registry |-> [registry EXCEPT ![n] = Absent],
          outcome  |-> [result |-> "Deleted"]]

\* ProgramStore::apply.
Apply(registry, external, cmd) ==
    CASE cmd.type = "Mutate" -> ApplyMutate(registry, cmd.name, cmd.ops)
      [] cmd.type = "Load"   -> ApplyLoad(registry, external, cmd.name, cmd.source)
      [] cmd.type = "Delete" -> ApplyDelete(registry, cmd.name)
      [] cmd.type = "Noop"   -> [registry |-> registry,
                                 outcome  |-> [result |-> "Noop"]]

\* snapshot_state: the sources and ledgers of the registered programs; the
\* facts themselves are not part of it.
SnapshotState(registry) ==
    [n \in Programs |->
        IF registry[n] = Absent THEN Absent
        ELSE [source |-> registry[n].source, ledger |-> registry[n].ledger]]

\* Every load and every commit of install_snapshot_state succeeds.
Installable(snap, external) ==
    \A n \in Programs : snap[n] # Absent =>
        /\ snap[n].source \notin BadSources
        /\ Evaluable(external[n])
        /\ Evaluable(Restored(external[n], snap[n].ledger))

\* install_snapshot_state: clear, then load every program of the snapshot and
\* replay its ledger over the external facts of this node.
InstallSnapshotState(snap, external) ==
    [n \in Programs |->
        IF snap[n] = Absent THEN Absent
        ELSE [source |-> snap[n].source,
              facts  |-> Restored(external[n], snap[n].ledger),
              ledger |-> snap[n].ledger]]
=============================================================================
