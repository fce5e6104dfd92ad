----------------------------- MODULE MCDatabase -----------------------------
(***************************************************************************)
(* Instances of Database for TLC.                                          *)
(***************************************************************************)
EXTENDS Database

CONSTANTS s1, s2, a, b, z, d, e

\* s1 derives d from a, s2 derives e from the absence of a; b matters to none,
\* z makes both fail.
MCRules ==
    [s \in Sources |->
        [S \in SUBSET Base |->
            IF s = s1 THEN (IF a \in S THEN {d} ELSE {})
                      ELSE (IF a \in S THEN {} ELSE {e})]]

\* A reload of s2 loses a, on whose absence the rules depend (see PushDown).
MCKept == [s \in Sources |-> IF s = s1 THEN {a, z} ELSE {b, z}]

\* e does not survive being written and read.
MCReadBack == [x \in Derived |-> IF x = e THEN d ELSE x]

\* One of the versions of the directory holds a fact of a derived relation.
MCVersions == {{}, {a, b, e}, {z}}

MCBatches == {{}, {a, b}, {z}}
=============================================================================
