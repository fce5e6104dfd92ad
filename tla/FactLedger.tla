----------------------------- MODULE FactLedger -----------------------------
(***************************************************************************)
(* The replicated-fact ledger of one program: `FactLedger` of              *)
(* crates/mangle-server/src/store.rs, with the two ways the store uses it: *)
(* classifying the ops of a `Mutate` command against the facts that are    *)
(* present, and rebuilding a program's facts from a snapshot.              *)
(*                                                                         *)
(* A fact stands for one (relation, tuple) pair of one program.  An op is  *)
(* a record [kind, fact].  The code keeps one BTreeSet per relation; one   *)
(* set of facts says the same, because an emptied per-relation set and an  *)
(* absent one hold the same facts.                                         *)
(***************************************************************************)

EmptyLedger == [replicated |-> {}, retracted |-> {}]

\* Mutant of NoteInsert: the earlier retraction is kept.
NoteInsertOnly(ledger, f) ==
    [ledger EXCEPT !.replicated = @ \cup {f}]

\* note_insert: the fact is replicated from now on, and an earlier
\* retraction of it is forgotten.
NoteInsert(ledger, f) ==
    [replicated |-> ledger.replicated \cup {f},
     retracted  |-> ledger.retracted \ {f}]

\* note_retract: a replicated fact only stops being one; any other fact is
\* taken to come from an external source and is remembered as retracted.
NoteRetract(ledger, f) ==
    IF f \in ledger.replicated
    THEN [ledger EXCEPT !.replicated = @ \ {f}]
    ELSE [ledger EXCEPT !.retracted = @ \cup {f}]

Note(ledger, op) ==
    IF op.kind = "Insert" THEN NoteInsert(ledger, op.fact)
                          ELSE NoteRetract(ledger, op.fact)

\* The membership test of apply_mutate: an insert of a present fact and a
\* retract of an absent one are skipped.
Effective(facts, op) == (op.kind = "Insert") <=> (op.fact \notin facts)

\* Batch::insert and Batch::retract on the base facts of the database.
Batched(facts, op) ==
    IF op.kind = "Insert" THEN facts \cup {op.fact} ELSE facts \ {op.fact}

\* Mutant of Restored: the retracted facts are not retracted again.
RestoredInsertsOnly(external, ledger) == external \cup ledger.replicated

\* The batch install_snapshot_state builds from a ledger, over the facts that
\* loading the program reads from its external sources: all replicated facts
\* are inserted first, then all retracted ones are retracted.
Restored(external, ledger) ==
    (external \cup ledger.replicated) \ ledger.retracted
=============================================================================
