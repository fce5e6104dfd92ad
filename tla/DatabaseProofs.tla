--------------------------- MODULE DatabaseProofs ---------------------------
(***************************************************************************)
(* Proofs about Database, for any programs, directories and numbers of     *)
(* edits.                                                                  *)
(***************************************************************************)
EXTENDS Database, TLAPS

\* What the rules have types for.
LEMMA RulesType ==
    ASSUME NEW s \in Sources, NEW S
    PROVE  Rules[s][S \cap Base] \in SUBSET Derived
BY ConstantTypes

LEMMA RereadType ==
    ASSUME NEW S \in SUBSET Derived
    PROVE  Reread(S) \in SUBSET Derived
BY ConstantTypes DEF Reread

\* Every state has the shape the code gives it (TypeOK), whatever fails.
THEOREM TypeCorrect == Spec => []TypeOK
<1>1. Init => TypeOK
  <2>1. 0 \in 0..MaxEdits
    BY ConstantTypes
  <2> QED
    BY <2>1 DEF Init, TypeOK, Idle
<1>2. TypeOK /\ [Next]_vars => TypeOK'
  <2> SUFFICES ASSUME TypeOK, [Next]_vars
               PROVE  TypeOK'
    OBVIOUS
  <2>1. ASSUME NEW s \in Sources, OpenFingerprint(s)
        PROVE  TypeOK'
    BY <2>1 DEF TypeOK, OpenFingerprint
  <2>2. CASE OpenCacheFails
    BY <2>2 DEF TypeOK, OpenCacheFails, Idle
  <2>3. CASE OpenLoadCache
    BY <2>3 DEF TypeOK, OpenLoadCache, CacheHit, Whole, Idle
  <2>4. CASE OpenHit
    <3>1. /\ call.source \in Sources
          /\ call.stamp \in 0..MaxEdits
          /\ call.cached \in CachedIdbs
      BY <2>4 DEF TypeOK, OpenHit, Idle
    <3>2. Reread(call.cached.rows) \in SUBSET Derived
      BY <3>1, RereadType DEF CachedIdbs
    <3>3. (call.cached.by = "open" /\ call.cached.paired) \in BOOLEAN
      BY <3>1, Zenon DEF CachedIdbs
    <3>4. db' \in Databases
      BY <2>4, <3>1, <3>2, <3>3 DEF TypeOK, OpenHit, Databases
    <3> QED
      BY <2>4, <3>4 DEF TypeOK, OpenHit, Idle
  <2>5. CASE OpenMiss
    <3>1. /\ call.source \in Sources
          /\ call.stamp \in 0..MaxEdits
      BY <2>5 DEF TypeOK, OpenMiss, Idle
    <3>2. Rules[call.source][dir.facts \cap Base] \in SUBSET Derived
      BY <3>1, RulesType
    <3>3. call'.new \in Databases
      BY <2>5, <3>1, <3>2 DEF TypeOK, OpenMiss, Databases
    <3> QED
      BY <2>5, <3>3 DEF TypeOK, OpenMiss
  <2>6. CASE OpenFails
    BY <2>6 DEF TypeOK, OpenFails, Idle
  <2>7. ASSUME NEW edb \in Batches, Commit(edb)
        PROVE  TypeOK'
    <3>1. edb \in SUBSET Base
      BY ConstantTypes
    <3>2. db \in Databases
      BY <2>7 DEF TypeOK, Commit
    <3>3. Rules[db.source][edb] \in SUBSET Derived
      BY <3>1, <3>2, ConstantTypes DEF Databases
    <3>4. db' \in Databases
      BY <2>7, <3>1, <3>2, <3>3 DEF Commit, Recomputed, Databases
    <3> QED
      BY <2>7, <3>4 DEF TypeOK, Commit
  <2>8. ASSUME NEW edb \in Batches, CommitFails(edb)
        PROVE  TypeOK'
    <3>1. edb \in SUBSET Base
      BY ConstantTypes
    <3>2. db' \in Databases
      BY <2>8, <3>1 DEF TypeOK, CommitFails, Databases
    <3> QED
      BY <2>8, <3>2 DEF TypeOK, CommitFails, Idle
  <2>9. CASE Reload
    <3> DEFINE edb == db.loaded \cap Base \cap Kept[db.source]
    <3>1. db \in Databases
      BY <2>9 DEF TypeOK, Reload
    <3>2. edb \in SUBSET Base /\ db.loaded \cap Derived \in SUBSET Derived
      OBVIOUS
    <3>3. Rules[db.source][edb] \in SUBSET Derived
      BY <3>1, <3>2, ConstantTypes DEF Databases
    <3>4. db' \in Databases
      <4>1. CASE Evaluable(edb)
        <5>1. db' = [db EXCEPT !.edb = edb, !.origin = "reload",
                               !.idb = (db.loaded \cap Derived) \cup Rules[db.source][edb]]
          BY <2>9, <4>1 DEF Reload
        <5> HIDE DEF edb
        <5> QED
          BY <3>1, <3>2, <3>3, <5>1 DEF Databases
      <4>2. CASE ~Evaluable(edb)
        <5>1. db' = [db EXCEPT !.edb = edb, !.origin = "failed",
                               !.idb = db.loaded \cap Derived]
          BY <2>9, <4>2 DEF Reload
        <5> HIDE DEF edb
        <5> QED
          BY <3>1, <3>2, <5>1 DEF Databases
      <4> QED
        BY <4>1, <4>2
    <3>5. call' = call \/ call' = [stage |-> "stamp", op |-> "reload"]
      BY <2>9 DEF Reload
    <3> QED
      BY <2>9, <3>4, <3>5, ConstantTypes DEF TypeOK, Reload, Idle
  <2>10. CASE ReloadFingerprint
    <3>1. db' \in Databases
      BY <2>10 DEF TypeOK, ReloadFingerprint, Databases
    <3> QED
      BY <2>10, <3>1 DEF TypeOK, ReloadFingerprint
  <2>11. CASE SaveMeta
    <3>1. call.new \in Databases
      BY <2>11 DEF TypeOK, SaveMeta, Idle
    <3>2. meta' \in [source : Sources, stamp : 0..MaxEdits]
      BY <2>11, <3>1 DEF SaveMeta, Databases
    <3>3. idb' \in {None, Torn} \cup CachedIdbs
      BY <2>11 DEF TypeOK, SaveMeta, CachedIdbs, Whole
    <3>4. call' \in [stage : {"meta", "idb"}, op : {"open", "commit", "reload"},
                     new : Databases] /\ call'.stage = "idb"
      BY <2>11 DEF TypeOK, SaveMeta, Idle
    <3> QED
      BY <2>11, <3>2, <3>3, <3>4 DEF TypeOK, SaveMeta
  <2>12. CASE SaveIdb
    <3>1. call.new \in Databases /\ call.op \in {"open", "commit", "reload"}
      BY <2>12 DEF TypeOK, SaveIdb, Idle
    <3>2. idb' \in CachedIdbs
      BY <2>12, <3>1 DEF SaveIdb, IdbSnapshot, CachedIdbs, Databases
    <3> QED
      BY <2>12, <3>1, <3>2 DEF TypeOK, SaveIdb, Idle
  <2>13. CASE SaveFails
    BY <2>13 DEF TypeOK, SaveFails, Idle
  <2>14. ASSUME NEW facts \in Versions, Edit(facts)
         PROVE  TypeOK'
    <3>1. PICK i \in {dir.stamp + 1} \cup (IF CoarseStamps THEN {dir.stamp} ELSE {}) :
            /\ dir' = [facts |-> facts, stamp |-> i]
            /\ contents' = [contents EXCEPT ![i] = facts]
      BY <2>14 DEF Edit
    <3>2. i \in 0..MaxEdits
      BY <2>14, <3>1, ConstantTypes DEF TypeOK, Edit
    <3> QED
      BY <2>14, <3>1, <3>2 DEF TypeOK, Edit
  <2>15. CASE Crash
    BY <2>15 DEF TypeOK, Crash, Idle
  <2>16. CASE UNCHANGED vars
    BY <2>16 DEF TypeOK, vars
  <2> QED
    BY <2>1, <2>2, <2>3, <2>4, <2>5, <2>6, <2>7, <2>8, <2>9, <2>10, <2>11, <2>12,
       <2>13, <2>14, <2>15, <2>16 DEF Next
<1> QED
  BY <1>1, <1>2, PTL DEF Spec

----------------------------------------------------------------------------
(* recomputation *)

\* A save in progress is of an exact database, too.
ExactInv ==
    /\ RecomputeIsExact
    /\ call.stage \in {"meta", "idb"} => Exact(call.new)

\* Derived facts that no cache was asked for are those the rules give
\* (RecomputeIsExact), whatever was committed, reloaded or failed before.
THEOREM RecomputationIsExact == Spec => []RecomputeIsExact
<1>1. Init => ExactInv
  BY DEF Init, ExactInv, RecomputeIsExact, Idle
<1>2. TypeOK /\ ExactInv /\ [Next]_vars => ExactInv'
  <2> SUFFICES ASSUME TypeOK, ExactInv, [Next]_vars
               PROVE  ExactInv'
    OBVIOUS
  <2> USE DEF ExactInv, RecomputeIsExact
  <2>1. ASSUME NEW s \in Sources, OpenFingerprint(s)
        PROVE  ExactInv'
    BY <2>1 DEF OpenFingerprint, Exact, Consequences
  <2>2. CASE OpenCacheFails \/ OpenLoadCache \/ OpenFails
    BY <2>2 DEF OpenCacheFails, OpenLoadCache, OpenFails, Exact, Consequences, Idle
  <2>3. CASE OpenHit
    BY <2>3 DEF OpenHit, Exact, Idle
  <2>4. CASE OpenMiss
    BY <2>4 DEF OpenMiss, Exact, Consequences
  <2>5. ASSUME NEW edb \in Batches, Commit(edb)
        PROVE  ExactInv'
    <3>1. db \in Databases
      BY <2>5 DEF TypeOK, Commit
    <3>2. db'.origin = "recompute" /\ db'.idb = Rules[db'.source][db'.edb]
      BY <2>5, <3>1 DEF Commit, Recomputed, Databases
    <3>3. call' = [stage |-> "meta", op |-> "commit", new |-> db']
      BY <2>5 DEF Commit
    <3> QED
      BY <3>2, <3>3 DEF Exact, Consequences
  <2>6. ASSUME NEW edb \in Batches, CommitFails(edb)
        PROVE  ExactInv'
    BY <2>6 DEF TypeOK, CommitFails, Databases, Exact, Idle
  <2>7. CASE Reload
    <3>1. db \in Databases
      BY <2>7 DEF TypeOK, Reload
    <3>2. \/ db'.origin = "failed"
          \/ /\ db'.origin = "reload"
             /\ db'.idb = Rules[db'.source][db'.edb] \cup (db'.loaded \cap Derived)
      <4> DEFINE edb == db.loaded \cap Base \cap Kept[db.source]
      <4>1. CASE Evaluable(edb)
        <5>1. db' = [db EXCEPT !.edb = edb, !.origin = "reload",
                               !.idb = (db.loaded \cap Derived) \cup Rules[db.source][edb]]
          BY <2>7, <4>1 DEF Reload
        <5> HIDE DEF edb
        <5> QED
          BY <3>1, <5>1 DEF Databases
      <4>2. CASE ~Evaluable(edb)
        <5>1. db' = [db EXCEPT !.edb = edb, !.origin = "failed",
                               !.idb = db.loaded \cap Derived]
          BY <2>7, <4>2 DEF Reload
        <5> HIDE DEF edb
        <5> QED
          BY <3>1, <5>1 DEF Databases
      <4> QED
        BY <4>1, <4>2
    <3>3. call'.stage \in {"idle", "stamp"}
      BY <2>7 DEF Reload, Idle
    <3> QED
      BY <3>2, <3>3 DEF Exact, Consequences
  <2>8. CASE ReloadFingerprint
    <3>1. db \in Databases
      BY <2>8 DEF TypeOK, ReloadFingerprint
    <3>2. /\ db'.origin = db.origin
          /\ db'.idb = db.idb
          /\ db'.edb = db.edb
          /\ db'.source = db.source
          /\ db'.loaded = db.loaded
      BY <2>8, <3>1 DEF ReloadFingerprint, Databases
    <3>3. call' = [stage |-> "meta", op |-> "reload", new |-> db'] /\ db # None
      BY <2>8 DEF ReloadFingerprint, TypeOK
    <3> QED
      BY <3>2, <3>3 DEF Exact, Consequences
  <2>9. CASE SaveMeta
    <3>1. call'.new = call.new
      BY <2>9 DEF SaveMeta, TypeOK, Idle
    <3> QED
      BY <2>9, <3>1 DEF SaveMeta, Exact, Consequences
  <2>10. CASE SaveIdb
    BY <2>10 DEF SaveIdb, Exact, Consequences, Idle
  <2>11. CASE SaveFails
    BY <2>11 DEF SaveFails, Exact, Consequences, Idle
  <2>12. ASSUME NEW facts \in Versions, Edit(facts)
         PROVE  ExactInv'
    BY <2>12 DEF Edit, Exact, Consequences
  <2>13. CASE Crash
    BY <2>13 DEF Crash, Idle
  <2>14. CASE UNCHANGED vars
    BY <2>14 DEF vars, Exact, Consequences
  <2> QED
    BY <2>1, <2>2, <2>3, <2>4, <2>5, <2>6, <2>7, <2>8, <2>9, <2>10, <2>11, <2>12,
       <2>13, <2>14 DEF Next
<1> QED
  BY <1>1, <1>2, TypeCorrect, PTL DEF Spec, ExactInv

----------------------------------------------------------------------------
(* the cache *)

\* The directory is what the history says of its stamp, and stamps only grow;
\* what an open wrote is fresh, or its stamp is one no open will ask for again.
FreshInv ==
    /\ dir.facts = contents[dir.stamp]
    /\ call.stage \in {"cache", "load"} => call.stamp <= dir.stamp
    /\ call.stage = "load" /\ call.cached # None
         /\ call.cached.by = "open" /\ call.cached.paired =>
       call.cached.rows = Fresh(call.source, call.stamp)
    /\ call.stage = "stamp" => db.origin = "reload"
    /\ call.stage \in {"meta", "idb"} =>
         /\ call.new.origin # "cache"
         /\ call.new.stamp <= dir.stamp
         /\ call.op = "open" =>
              \/ call.new.idb = Fresh(call.new.source, call.new.stamp)
              \/ call.new.stamp < dir.stamp
    /\ call.stage = "idb" =>
         meta = [source |-> call.new.source, stamp |-> call.new.stamp]
    /\ Whole(meta) => meta.stamp <= dir.stamp
    /\ Whole(meta) /\ Whole(idb) /\ idb.by = "open" /\ idb.paired =>
         \/ idb.rows = Fresh(meta.source, meta.stamp)
         \/ /\ meta.stamp < dir.stamp
            /\ call.stage = "cache" => meta.stamp < call.stamp
    /\ db # None => db.stamp <= dir.stamp
    /\ db # None /\ db.origin = "cache" /\ db.trusty =>
         db.idb = (db.loaded \cap Derived) \cup Reread(Fresh(db.source, db.stamp))

LEMMA FreshStays ==
    ASSUME contents' = contents
    PROVE  \A s, i : Fresh(s, i)' = Fresh(s, i)
BY DEF Fresh

\* An edit leaves the history of the stamps before it alone.
LEMMA EditKeepsHistory ==
    ASSUME TypeOK, ~CoarseStamps, NEW facts \in Versions, Edit(facts)
    PROVE  /\ dir' = [facts |-> facts, stamp |-> dir.stamp + 1]
           /\ dir.stamp \in Nat /\ dir.stamp + 1 \in 0..MaxEdits
           /\ contents'[dir.stamp + 1] = facts
           /\ \A s, i : i \in 0..dir.stamp => Fresh(s, i)' = Fresh(s, i)
<1>1. /\ dir' = [facts |-> facts, stamp |-> dir.stamp + 1]
      /\ contents' = [contents EXCEPT ![dir.stamp + 1] = facts]
  BY DEF Edit
<1>2. dir.stamp \in Nat /\ dir.stamp + 1 \in 0..MaxEdits
  BY ConstantTypes DEF TypeOK, Edit
<1>3. \A i \in 0..dir.stamp : contents'[i] = contents[i]
  BY <1>1, <1>2, ConstantTypes DEF TypeOK
<1>4. contents'[dir.stamp + 1] = facts
  BY <1>1, <1>2 DEF TypeOK
<1>5. \A s, i : i \in 0..dir.stamp => Fresh(s, i)' = Fresh(s, i)
  BY <1>3 DEF Fresh
<1> QED
  BY <1>1, <1>2, <1>4, <1>5

LEMMA FreshStep ==
    ASSUME TypeOK, FreshInv, ~CoarseStamps, [Next]_vars
    PROVE  FreshInv'
<1>0. dir.stamp \in Nat /\ (Whole(meta) => meta.stamp \in Nat)
  BY DEF TypeOK, Whole
<1>1. ASSUME NEW s \in Sources, OpenFingerprint(s)
      PROVE  FreshInv'
  <2>1. \A t, i : Fresh(t, i)' = Fresh(t, i)
    BY <1>1, FreshStays DEF OpenFingerprint
  <2> QED
    BY <1>0, <1>1, <2>1 DEF FreshInv, OpenFingerprint, Whole
<1>2. CASE OpenCacheFails \/ OpenFails
  <2>1. \A t, i : Fresh(t, i)' = Fresh(t, i)
    BY <1>2, FreshStays DEF OpenCacheFails, OpenFails
  <2> QED
    BY <1>2, <2>1 DEF FreshInv, OpenCacheFails, OpenFails, Whole, Idle
<1>3. CASE OpenLoadCache
  <2>1. \A t, i : Fresh(t, i)' = Fresh(t, i)
    BY <1>3, FreshStays DEF OpenLoadCache
  <2>2. call.stamp \in Nat /\ call.source \in Sources
    BY <1>3 DEF TypeOK, OpenLoadCache, Idle
  <2>3. call' = [stage |-> "load", op |-> "open", source |-> call.source,
                 stamp |-> call.stamp, cached |-> IF CacheHit THEN idb ELSE None]
    BY <1>3 DEF OpenLoadCache
  <2>4. ASSUME call'.cached # None, call'.cached.by = "open", call'.cached.paired
        PROVE  call'.cached.rows = Fresh(call.source, call.stamp)
    <3>1. CacheHit /\ call'.cached = idb
      BY <2>3, <2>4
    <3> QED
      BY <1>0, <1>3, <2>2, <2>4, <3>1 DEF FreshInv, CacheHit, OpenLoadCache
  <2> QED
    BY <1>3, <2>1, <2>3, <2>4 DEF FreshInv, OpenLoadCache, Whole
<1>4. CASE OpenHit
  <2>1. \A t, i : Fresh(t, i)' = Fresh(t, i)
    BY <1>4, FreshStays DEF OpenHit
  <2>2. call.stage = "load" /\ call.cached # None
    BY <1>4 DEF OpenHit
  <2>3. ASSUME db'.trusty
        PROVE  db'.idb = (db'.loaded \cap Derived) \cup Reread(Fresh(db'.source, db'.stamp))
    <3>1. call.cached.rows = Fresh(call.source, call.stamp)
      BY <1>4, <2>2, <2>3 DEF FreshInv, OpenHit
    <3> QED
      BY <1>4, <3>1 DEF OpenHit
  <2>4. db'.stamp <= dir.stamp
    BY <1>4, <2>2 DEF FreshInv, OpenHit
  <2>5. \A S : Reread(S)' = Reread(S)
    BY DEF Reread
  <2> QED
    BY <1>4, <2>1, <2>3, <2>4, <2>5 DEF FreshInv, OpenHit, Whole, Idle, Reread
<1>5. CASE OpenMiss
  <2>1. \A t, i : Fresh(t, i)' = Fresh(t, i)
    BY <1>5, FreshStays DEF OpenMiss
  <2>2. call.stamp \in Nat /\ call.stamp <= dir.stamp
    BY <1>5 DEF TypeOK, FreshInv, OpenMiss, Idle
  <2>3. /\ call'.stage = "meta" /\ call'.op = "open"
        /\ call'.new.stamp = call.stamp /\ call'.new.source = call.source
        /\ call'.new.origin = "open"
        /\ call'.new.idb = (dir.facts \cap Derived)
                             \cup Rules[call.source][dir.facts \cap Base]
    BY <1>5 DEF OpenMiss
  <2>4. call.stamp = dir.stamp => call'.new.idb = Fresh(call.source, call.stamp)
    BY <2>3 DEF FreshInv, Fresh
  <2>5. call.stamp = dir.stamp \/ call.stamp < dir.stamp
    BY <1>0, <2>2
  <2> QED
    BY <1>5, <2>1, <2>2, <2>3, <2>4, <2>5 DEF FreshInv, OpenMiss, Whole
<1>6. ASSUME NEW edb \in Batches, Commit(edb) \/ CommitFails(edb)
      PROVE  FreshInv'
  <2>1. \A t, i : Fresh(t, i)' = Fresh(t, i)
    BY <1>6, FreshStays DEF Commit, CommitFails
  <2>2. db \in Databases /\ call = Idle
    BY <1>6 DEF TypeOK, Commit, CommitFails
  <2>3. db'.stamp = db.stamp /\ db'.origin \in {"recompute", "failed"}
    BY <1>6, <2>2 DEF Commit, CommitFails, Recomputed, Databases
  <2>4. \/ call' = Idle
        \/ call' = [stage |-> "meta", op |-> "commit", new |-> db']
    BY <1>6, <2>2 DEF Commit, CommitFails
  <2>5. UNCHANGED <<dir, contents, meta, idb>> /\ db # None
    BY <1>6 DEF Commit, CommitFails
  <2> QED
    BY <2>1, <2>2, <2>3, <2>4, <2>5 DEF FreshInv, Whole, Idle
<1>7. CASE Reload
  <2>1. \A t, i : Fresh(t, i)' = Fresh(t, i)
    BY <1>7, FreshStays DEF Reload
  <2>2. db \in Databases /\ db # None /\ call = Idle
    BY <1>7 DEF TypeOK, Reload
  <2> DEFINE edb == db.loaded \cap Base \cap Kept[db.source]
  <2>3. /\ db'.stamp = db.stamp /\ db'.origin \in {"reload", "failed"}
        /\ call'.stage = "stamp" => db'.origin = "reload"
    <3>1. CASE Evaluable(edb)
      <4>1. db' = [db EXCEPT !.edb = edb, !.origin = "reload",
                             !.idb = (db.loaded \cap Derived) \cup Rules[db.source][edb]]
        BY <1>7, <3>1 DEF Reload
      <4> HIDE DEF edb
      <4> QED
        BY <2>2, <4>1 DEF Databases
    <3>2. CASE ~Evaluable(edb)
      <4>1. /\ db' = [db EXCEPT !.edb = edb, !.origin = "failed",
                                !.idb = db.loaded \cap Derived]
            /\ call' = Idle
        BY <1>7, <2>2, <3>2 DEF Reload
      <4> HIDE DEF edb
      <4> QED
        BY <2>2, <4>1 DEF Databases, Idle
    <3> QED
      BY <3>1, <3>2
  <2>4. call'.stage \in {"idle", "stamp"} /\ UNCHANGED <<dir, contents, meta, idb>>
    BY <1>7, <2>2 DEF Reload, Idle
  <2> QED
    BY <2>1, <2>2, <2>3, <2>4 DEF FreshInv, Whole, Idle
<1>8. CASE ReloadFingerprint
  <2>1. \A t, i : Fresh(t, i)' = Fresh(t, i)
    BY <1>8, FreshStays DEF ReloadFingerprint
  <2>2. db \in Databases /\ db # None
    BY <1>8 DEF TypeOK, ReloadFingerprint
  <2>3. db'.stamp = dir.stamp
    BY <1>8, <2>2 DEF ReloadFingerprint, Databases
  <2>4. call' = [stage |-> "meta", op |-> "reload", new |-> db']
    BY <1>8 DEF ReloadFingerprint
  <2>5. db.origin = "reload" /\ dir.stamp <= dir.stamp
    BY <1>0, <1>8 DEF FreshInv, ReloadFingerprint
  <2>6. UNCHANGED <<dir, contents, meta, idb>> /\ db'.origin = db.origin
    BY <1>8, <2>2 DEF ReloadFingerprint, Databases
  <2> QED
    BY <2>1, <2>2, <2>3, <2>4, <2>5, <2>6 DEF FreshInv, Whole
<1>9. CASE SaveMeta
  <2>1. \A t, i : Fresh(t, i)' = Fresh(t, i)
    BY <1>9, FreshStays DEF SaveMeta
  <2>2. call'.new = call.new /\ call'.op = call.op /\ call'.stage = "idb"
    BY <1>9 DEF TypeOK, SaveMeta, Idle
  <2>3. Whole(idb') => ~idb'.paired
    BY <1>9 DEF TypeOK, SaveMeta, CachedIdbs, Whole
  <2>4. meta' = [source |-> call.new.source, stamp |-> call.new.stamp]
    BY <1>9 DEF SaveMeta
  <2>5. UNCHANGED <<dir, contents, db>> /\ call.stage = "meta"
    BY <1>9 DEF SaveMeta
  <2> QED
    BY <2>1, <2>2, <2>3, <2>4, <2>5 DEF FreshInv
<1>10. CASE SaveIdb
  <2>1. \A t, i : Fresh(t, i)' = Fresh(t, i)
    BY <1>10, FreshStays DEF SaveIdb
  <2> QED
    BY <1>10, <2>1 DEF FreshInv, SaveIdb, IdbSnapshot, Whole, Idle
<1>11. CASE SaveFails
  <2>1. \A t, i : Fresh(t, i)' = Fresh(t, i)
    BY <1>11, FreshStays DEF SaveFails
  <2> QED
    BY <1>11, <2>1 DEF FreshInv, SaveFails, Whole, Idle
<1>12. ASSUME NEW facts \in Versions, Edit(facts)
       PROVE  FreshInv'
  <2>1. /\ dir' = [facts |-> facts, stamp |-> dir.stamp + 1]
        /\ dir.stamp \in Nat /\ dir.stamp + 1 \in 0..MaxEdits
        /\ contents'[dir.stamp + 1] = facts
        /\ \A s, i : i \in 0..dir.stamp => Fresh(s, i)' = Fresh(s, i)
    BY <1>12, EditKeepsHistory
  <2>2. UNCHANGED <<meta, idb, db, call>>
    BY <1>12 DEF Edit
  <2> QED
    <3>1. \A i \in Nat : i <= dir.stamp => i \in 0..dir.stamp /\ i < dir.stamp + 1
      BY <2>1
    <3>2. /\ call.stage \in {"cache", "load"} => call.stamp \in Nat
          /\ call.stage \in {"meta", "idb"} => call.new.stamp \in Nat
          /\ db # None => db.stamp \in Nat
      BY DEF TypeOK, Idle, Databases
    <3>3. dir'.facts = contents'[dir'.stamp] /\ dir'.stamp = dir.stamp + 1
      BY <2>1
    <3> QED
      BY <1>0, <2>1, <2>2, <3>1, <3>2, <3>3 DEF FreshInv, Whole, Reread
<1>13. CASE Crash
  <2>1. \A t, i : Fresh(t, i)' = Fresh(t, i)
    BY <1>13, FreshStays DEF Crash
  <2> QED
    BY <1>13, <2>1 DEF FreshInv, Crash, Whole, Idle
<1>14. CASE UNCHANGED vars
  <2>1. \A t, i : Fresh(t, i)' = Fresh(t, i)
    BY <1>14, FreshStays DEF vars
  <2> QED
    BY <1>14, <2>1 DEF FreshInv, vars, Whole
<1> QED
  BY <1>1, <1>2, <1>3, <1>4, <1>5, <1>6, <1>7, <1>8, <1>9, <1>10, <1>11, <1>12,
     <1>13, <1>14 DEF Next

\* What a hit on a cache written by an open serves is what the rules derive from
\* the directory at the fingerprint of this open (OpenedCacheIsFresh).
THEOREM CacheOfOpenIsFresh == Spec => []OpenedCacheIsFresh
<1> DEFINE Inv == ~CoarseStamps => FreshInv
<1>1. Init => Inv
  BY ConstantTypes DEF Init, FreshInv, Idle, Whole
<1>2. TypeOK /\ Inv /\ [Next]_vars => Inv'
  BY FreshStep
<1>3. Inv => OpenedCacheIsFresh
  BY DEF FreshInv, OpenedCacheIsFresh
<1> QED
  BY <1>1, <1>2, <1>3, TypeCorrect, PTL DEF Spec
=============================================================================
