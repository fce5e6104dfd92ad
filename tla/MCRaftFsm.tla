----------------------------- MODULE MCRaftFsm -----------------------------
(***************************************************************************)
(* Instances of RaftFsm for TLC.                                           *)
(***************************************************************************)
EXTENDS RaftFsm

CONSTANTS p1, s, a, e

MCExternal == [n \in Programs |-> {e} \cap Facts]

Mutate(ops) == [type |-> "Mutate", name |-> p1, ops |-> ops]

Op(kind, f) == [kind |-> kind, fact |-> f]

\* Loads, deletes, and mutations of the ordinary and the external fact; the
\* last inserts the external fact, which is a no-op the first time.
MCEntries ==
    {[type |-> "Load", name |-> p1, source |-> s],
     [type |-> "Delete", name |-> p1],
     [type |-> "Membership"],
     Mutate(<<Op("Insert", a), Op("Retract", e)>>),
     Mutate(<<Op("Retract", a)>>),
     Mutate(<<Op("Insert", e), Op("Retract", e)>>)}
=============================================================================
