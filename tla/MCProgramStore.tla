--------------------------- MODULE MCProgramStore ---------------------------
(***************************************************************************)
(* Instances of ProgramStore for TLC.                                      *)
(***************************************************************************)
EXTENDS ProgramStore

CONSTANTS p1, p2, s, bad, a, e, d, z, t

\* p1 has a file that compiles, p2 one that does not; p1 is read first.
MCDir == <<[name |-> p1, source |-> s], [name |-> p2, source |-> bad]>>

MCDirOne == <<[name |-> p1, source |-> s]>>

MCBase == [n \in Programs |-> IF n = p1 THEN {e} ELSE {}]

\* Every fact parses back as itself, except t: a duration of 90 minutes prints
\* as 1h30m0s, which is not a literal of the language.
MCReparse == [f \in Facts |-> IF f = t THEN Unparsable ELSE f]

UpTo(S, k) == UNION {[1..i -> S] : i \in 1..k}

\* For p1 up to two ops on the ordinary and the external fact, and single ops on
\* the others: the sequences that matter span commands as well as ops.  For p2
\* one insert.
MCCommands ==
    [name : {p1},
     ops  : UpTo([kind : {"Insert", "Retract"}, fact : Facts \cap {a, e}], 2)
              \cup UpTo([kind : {"Insert", "Retract"}, fact : Facts], 1)]
    \cup [name : Programs \ {p1},
          ops  : {<<[kind |-> "Insert", fact |-> a]>>}]

\* The step-by-step store seen through its lock: a command in progress has
\* changed nothing yet.
Atomic == INSTANCE AtomicStore
    WITH programs <- IF call = Idle THEN programs
                     ELSE [programs EXCEPT ![call.name] = call.before],
         external <- Base

\* Without a mutation log every command is one step from registry to registry
\* for whoever takes the lock next (ProgramStore::apply): ProgramStore
\* implements AtomicStore, outcomes and failed commits included.
CommandsAreAtomic == Atomic!Spec
=============================================================================
