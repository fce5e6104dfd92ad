------------------------------ MODULE Database ------------------------------
(***************************************************************************)
(* `Database` (crates/mangle-db/src/database.rs) with its IDB cache        *)
(* (src/file_backend.rs) over a `FileEdbSource` (src/file_source.rs) whose *)
(* directory other programs may change at any time.                        *)
(*                                                                         *)
(* One program name, hence one pair of cache files.  `Open` replaces the   *)
(* running database when it succeeds, as ProgramStore::load does.  An      *)
(* operation holds the lock of the store from its first step to its last;  *)
(* the directory and the machine do not wait for it.                       *)
(***************************************************************************)
EXTENDS Naturals

CONSTANTS
    Base,          \* facts of extensional relations
    Derived,       \* facts of relations the rules define
    Sources,       \* program texts
    Rules,         \* Rules[s][S]: what the rules of s derive from S
    Kept,          \* Kept[s]: base facts that pass the predicates s pushes down
    ReadBack,      \* ReadBack[d]: d after simplerow wrote and read it
    Versions,      \* what the directory of the source may hold
    Batches,       \* the base facts a batch of changes may leave
    Poison,        \* base facts on which the rules fail
    CoarseStamps,  \* whether an edit may leave length and second as they were
    None,          \* no database, no file
    Torn,          \* a file whose content is incomplete
    MaxEdits       \* bound: changes of the directory

\* An open database; origin and trusty are history: where its derived facts come
\* from, and whether an open wrote the cache they come from.
Databases ==
    [source : Sources, edb : SUBSET Base, idb : SUBSET Derived,
     stamp : 0..MaxEdits, loaded : Versions,
     origin : {"cache", "open", "recompute", "reload", "failed"}, trusty : BOOLEAN]

\* The constants are what their comments say.
ASSUME ConstantTypes ==
    /\ Rules \in [Sources -> [SUBSET Base -> SUBSET Derived]]
    /\ Kept \in [Sources -> SUBSET Base]
    /\ ReadBack \in [Derived -> Derived]
    /\ Versions \subseteq SUBSET (Base \cup Derived)
    /\ Batches \subseteq SUBSET Base
    /\ Base \cap Derived = {}
    /\ Poison \subseteq Base
    /\ CoarseStamps \in BOOLEAN
    /\ MaxEdits \in Nat
    /\ None \notin Databases

VARIABLES
    dir,       \* the directory of the source: its facts, and its fingerprint
    contents,  \* history: contents[i] is what the directory held at stamp i
    meta,      \* {name}.meta.json
    idb,       \* {name}.idb.mgr
    db,        \* the running database, or None
    call       \* the operation in progress

vars == <<dir, contents, meta, idb, db, call>>

Idle == [stage |-> "idle"]

Whole(file) == file # None /\ file # Torn

Evaluable(S) == S \cap Poison = {}

\* write_simple_row and read_simple_row: printed as atoms, parsed as clauses.
Reread(S) == {ReadBack[d] : d \in S}

Init ==
    /\ dir \in [facts : Versions, stamp : {0}]
    /\ contents = [i \in 0..MaxEdits |-> dir.facts]
    /\ meta = None
    /\ idb = None
    /\ db = None
    /\ call = Idle

----------------------------------------------------------------------------
(* open *)

\* compute_edb_fingerprint, before anything is read.
OpenFingerprint(s) ==
    /\ call = Idle
    /\ call' = [stage |-> "cache", op |-> "open", source |-> s, stamp |-> dir.stamp]
    /\ UNCHANGED <<dir, contents, meta, idb, db>>

\* Mutant of CacheHit: the fingerprint is not compared.
CacheHitAnyStamp == Whole(meta) /\ Whole(idb) /\ meta.source = call.source

\* The cache is for this text and this fingerprint.
CacheHit ==
    /\ Whole(meta) /\ Whole(idb)
    /\ meta.source = call.source
    /\ meta.stamp = call.stamp

\* IdbBackend::load: both files exist and one does not decode.
CacheFails == None \notin {meta, idb} /\ Torn \in {meta, idb}

\* The `?` on backend.load: open returns the error.
OpenCacheFails ==
    /\ call.stage = "cache"
    /\ CacheFails
    /\ call' = Idle
    /\ UNCHANGED <<dir, contents, meta, idb, db>>

OpenLoadCache ==
    /\ call.stage = "cache"
    /\ ~CacheFails
    /\ call' = [stage |-> "load", op |-> "open", source |-> call.source,
                stamp |-> call.stamp, cached |-> IF CacheHit THEN idb ELSE None]
    /\ UNCHANGED <<dir, contents, meta, idb, db>>

\* load_edb_into_store through a FileEdbSource that has not read its directory
\* yet, and the rest of a hit: the cached facts join the facts that were read.
OpenHit ==
    /\ call.stage = "load"
    /\ call.cached # None
    /\ db' = [source |-> call.source,
              edb    |-> dir.facts \cap Base,
              idb    |-> (dir.facts \cap Derived) \cup Reread(call.cached.rows),
              stamp  |-> call.stamp,
              loaded |-> dir.facts,
              origin |-> "cache",
              trusty |-> call.cached.by = "open" /\ call.cached.paired]
    /\ call' = Idle
    /\ UNCHANGED <<dir, contents, meta, idb>>

\* The same for a miss: full_recompute adds what the rules derive.
OpenMiss ==
    /\ call.stage = "load"
    /\ call.cached = None
    /\ Evaluable(dir.facts \cap Base)
    /\ call' =
         [stage |-> "meta", op |-> "open",
          new |-> [source |-> call.source,
                   edb    |-> dir.facts \cap Base,
                   idb    |-> (dir.facts \cap Derived)
                                \cup Rules[call.source][dir.facts \cap Base],
                   stamp  |-> call.stamp,
                   loaded |-> dir.facts,
                   origin |-> "open",
                   trusty |-> TRUE]]
    /\ UNCHANGED <<dir, contents, meta, idb, db>>

OpenFails ==
    /\ call.stage = "load"
    /\ call.cached = None
    /\ ~Evaluable(dir.facts \cap Base)
    /\ call' = Idle
    /\ UNCHANGED <<dir, contents, meta, idb, db>>

----------------------------------------------------------------------------
(* mutations and reload, in place *)

\* Mutant of Recomputed: the derived facts are not cleared first.
RecomputedOnTop(d) == [d EXCEPT !.idb = @ \cup Rules[d.source][d.edb],
                                !.origin = "recompute"]

\* recompute_idb: clear the derived relations, derive them again.
Recomputed(d) == [d EXCEPT !.idb = Rules[d.source][d.edb], !.origin = "recompute"]

\* A batch of changes to base facts and its commit.
Commit(edb) ==
    /\ call = Idle
    /\ db # None
    /\ Evaluable(edb)
    /\ db' = Recomputed([db EXCEPT !.edb = edb])
    /\ call' = [stage |-> "meta", op |-> "commit", new |-> db']
    /\ UNCHANGED <<dir, contents, meta, idb>>

\* The evaluation fails after the derived relations were cleared.
CommitFails(edb) ==
    /\ call = Idle
    /\ db # None
    /\ ~Evaluable(edb)
    /\ db' = [db EXCEPT !.edb = edb, !.idb = {}, !.origin = "failed"]
    /\ UNCHANGED <<dir, contents, meta, idb, call>>

\* reload: clear all, load what the source holds, which is what it read when it
\* was first asked, filtered by the pushed-down predicates, and derive.
Reload ==
    /\ call = Idle
    /\ db # None
    /\ LET edb == db.loaded \cap Base \cap Kept[db.source]
           old == db.loaded \cap Derived
       IN  IF Evaluable(edb)
           THEN /\ db' = [db EXCEPT !.edb = edb, !.origin = "reload",
                                    !.idb = old \cup Rules[db.source][edb]]
                /\ call' = [stage |-> "stamp", op |-> "reload"]
           ELSE /\ db' = [db EXCEPT !.edb = edb, !.origin = "failed", !.idb = old]
                /\ UNCHANGED call
    /\ UNCHANGED <<dir, contents, meta, idb>>

\* The fingerprint is taken once the facts are derived.
ReloadFingerprint ==
    /\ call.stage = "stamp"
    /\ db' = [db EXCEPT !.stamp = dir.stamp]
    /\ call' = [stage |-> "meta", op |-> "reload", new |-> db']
    /\ UNCHANGED <<dir, contents, meta, idb>>

----------------------------------------------------------------------------
(* save *)

\* The meta file is written first; the derived facts on disk are those of an
\* earlier save until the next step.
SaveMeta ==
    /\ call.stage = "meta"
    /\ meta' = [source |-> call.new.source, stamp |-> call.new.stamp]
    /\ idb' = IF Whole(idb) THEN [idb EXCEPT !.paired = FALSE] ELSE idb
    /\ call' = [call EXCEPT !.stage = "idb"]
    /\ UNCHANGED <<dir, contents, db>>

\* extract_idb_snapshot: the relations the rules define.
IdbSnapshot(d) == d.idb

SaveIdb ==
    /\ call.stage = "idb"
    /\ idb' = [rows |-> IdbSnapshot(call.new), by |-> call.op, paired |-> TRUE]
    /\ db' = call.new
    /\ call' = Idle
    /\ UNCHANGED <<dir, contents, meta>>

\* A write fails and may leave a part of the file; the operation returns the
\* error, an open without replacing the database.
SaveFails ==
    /\ call.stage \in {"meta", "idb"}
    /\ IF call.stage = "meta" THEN meta' \in {meta, Torn} /\ idb' = idb
                              ELSE idb' \in {idb, Torn} /\ meta' = meta
    /\ call' = Idle
    /\ UNCHANGED <<dir, contents, db>>

----------------------------------------------------------------------------
(* the world *)

\* Somebody changes the files of the directory.
Edit(facts) ==
    /\ dir.stamp < MaxEdits
    /\ \E i \in {dir.stamp + 1} \cup (IF CoarseStamps THEN {dir.stamp} ELSE {}) :
         /\ dir' = [facts |-> facts, stamp |-> i]
         /\ contents' = [contents EXCEPT ![i] = facts]
    /\ UNCHANGED <<meta, idb, db, call>>

\* The machine goes down; no file of the cache is ever synced.
Crash ==
    /\ db' = None
    /\ call' = Idle
    /\ meta' \in {meta} \cup (IF Whole(meta) THEN {Torn} ELSE {})
    /\ idb' \in {idb} \cup (IF Whole(idb) THEN {Torn} ELSE {})
    /\ UNCHANGED <<dir, contents>>

Next ==
    \/ \E s \in Sources : OpenFingerprint(s)
    \/ OpenCacheFails
    \/ OpenLoadCache
    \/ OpenHit
    \/ OpenMiss
    \/ OpenFails
    \/ \E edb \in Batches : Commit(edb) \/ CommitFails(edb)
    \/ Reload
    \/ ReloadFingerprint
    \/ SaveMeta
    \/ SaveIdb
    \/ SaveFails
    \/ \E facts \in Versions : Edit(facts)
    \/ Crash

Spec == Init /\ [][Next]_vars

----------------------------------------------------------------------------
(* properties *)

CachedIdbs ==
    [rows : SUBSET Derived, by : {"open", "commit", "reload"}, paired : BOOLEAN]

\* Every variable has the shape the code gives it; the database a reload works
\* on stays open until it is done.
TypeOK ==
    /\ dir \in [facts : Versions, stamp : 0..MaxEdits]
    /\ contents \in [0..MaxEdits -> Versions]
    /\ meta \in {None, Torn} \cup [source : Sources, stamp : 0..MaxEdits]
    /\ idb \in {None, Torn} \cup CachedIdbs
    /\ db \in {None} \cup Databases
    /\ call.stage = "stamp" => db # None
    /\ call \in {Idle}
         \cup [stage : {"cache"}, op : {"open"}, source : Sources, stamp : 0..MaxEdits]
         \cup [stage : {"load"}, op : {"open"}, source : Sources, stamp : 0..MaxEdits,
               cached : {None} \cup CachedIdbs]
         \cup [stage : {"stamp"}, op : {"reload"}]
         \cup [stage : {"meta", "idb"}, op : {"open", "commit", "reload"}, new : Databases]

\* What the rules derive from the base facts of a database.
Consequences(d) == Rules[d.source][d.edb]

\* The derived facts of a database are what the rules give, with those the
\* sources themselves hold until a commit clears them.
Exact(d) ==
    CASE d.origin = "recompute" -> d.idb = Consequences(d)
      [] d.origin \in {"open", "reload"} ->
           d.idb = Consequences(d) \cup (d.loaded \cap Derived)
      [] OTHER -> TRUE

\* Full recomputation is right whatever was there before (database.rs 46-49):
\* after a commit the derived facts are those the rules give, and an open or a
\* reload adds to them only derived facts the sources themselves hold.
RecomputeIsExact == db # None => Exact(db)

\* The derived relations of text s over the directory as it was at stamp i.
Fresh(s, i) == (contents[i] \cap Derived) \cup Rules[s][contents[i] \cap Base]

\* A cache that an open wrote, and whose two files are of one save, is right: a
\* hit serves what the rules derive from the directory as it was when the
\* fingerprint of this open was taken (database.rs 98-167), no matter what
\* changed the directory or stopped the machine in between.
OpenedCacheIsFresh ==
    db # None /\ db.origin = "cache" /\ db.trusty /\ ~CoarseStamps =>
        db.idb = (db.loaded \cap Derived) \cup Reread(Fresh(db.source, db.stamp))

\* database.rs 41: "Loaded if valid, else recomputed."  What a hit serves is what
\* the rules derive from the facts of the database, as a cache that loses no
\* value in writing and reading would have it.
CacheIsTransparent ==
    db # None /\ db.origin = "cache" =>
        db.idb = Consequences(db) \cup (db.loaded \cap Derived)
=============================================================================
