---------------------------- MODULE AtomicStore ----------------------------
(***************************************************************************)
(* What `ProgramStore` promises its callers: every command is one step     *)
(* from registry to registry, given by StoreCommands.  `ProgramStore` is   *)
(* shown to implement this when it keeps no mutation log, whose appends    *)
(* can fail half-way through a command.                                    *)
(***************************************************************************)
EXTENDS StoreCommands

CONSTANTS
    external,   \* external[n]: the facts the sources of n hold
    Dir,        \* programs_dir: a sequence of [name, source]
    Commands    \* the Mutate commands a client may send: records [name, ops]

VARIABLES programs, outcome

vars == <<programs, outcome>>

NoOutcome == [result |-> "None"]

Init == programs = EmptyRegistry /\ outcome = NoOutcome

Becomes(after) == programs' = after.registry /\ outcome' = after.outcome

Mutate(n, ops) == Becomes(ApplyMutate(programs, n, ops))

LoadProgram(n, s) == Becomes(ApplyLoad(programs, external, n, s))

DeleteProgram(n) == Becomes(ApplyDelete(programs, n))

Reload(n) ==
    IF \E i \in DOMAIN Dir : Dir[i].name = n
    THEN \E i \in DOMAIN Dir : Dir[i].name = n /\ LoadProgram(n, Dir[i].source)
    ELSE outcome' = Err /\ UNCHANGED programs

\* Load the entries of Dir one after the other, from an empty registry; with
\* `stop` the first failure ends it, without it failures are passed over.
LoadDir(stop) ==
    LET Step(acc, entry) ==
          LET after == ApplyLoad(acc.registry, external, entry.name, entry.source)
          IN  IF stop /\ acc.outcome = Err THEN acc
              ELSE [after EXCEPT !.outcome = IF acc.outcome = Err THEN Err ELSE @]
    IN  FoldLeft(Step, [registry |-> EmptyRegistry,
                        outcome  |-> [result |-> "Loaded"]], Dir)

ReloadAll == Becomes(LoadDir(TRUE))

Restart == programs' = LoadDir(FALSE).registry /\ outcome' = NoOutcome

Next ==
    \/ \E c \in Commands : Mutate(c.name, c.ops)
    \/ \E n \in Programs, s \in Sources : LoadProgram(n, s)
    \/ \E n \in Programs : DeleteProgram(n) \/ Reload(n)
    \/ ReloadAll
    \/ Restart

Spec == Init /\ [][Next]_vars
=============================================================================
