----------------------------- MODULE StoreTiers -----------------------------
(***************************************************************************)
(* Two implementations of the trait Store of crates/mangle-common under    *)
(* the same calls of one client: MemStore (mem) and DiskStore (disk is     *)
(* the file, held what its process holds).  A call of DiskStore that takes *)
(* several transactions leaves those to come in todo, and the process can  *)
(* crash between any two of them; MemStore does not outlive a crash, so    *)
(* afterwards only the file is followed.                                   *)
(*                                                                         *)
(* kept holds the facts that the client inserted and did not take back;    *)
(* overwritten those whose row lost its id to a later row; missed the      *)
(* relations whose delta MemStore::retract changed without its indexes.    *)
(***************************************************************************)
EXTENDS DiskStore, FiniteSets

CONSTANTS Tuples,        \* Tuples[r]: the tuples the client uses in relation r
          Temporal,      \* the temporal relations
          Sessions,      \* the sets of relations that a session works with
          MaxStoreCalls, MaxCrashes

VARIABLES session, mem, disk, held, todo, kept, overwritten, missed, storeCalls, crashes

tierVars == <<session, mem, disk, held, todo, kept, overwritten, missed, storeCalls, crashes>>

TierInit ==
    /\ session \in Sessions
    /\ mem = MemNew /\ disk = DiskNew /\ held = DiskOpen(DiskNew)
    /\ todo = <<>> /\ kept = {} /\ overwritten = {} /\ missed = {}
    /\ storeCalls = 0 /\ crashes = 0

\* A call of the client; after a crash MemStore is left alone.
StoreCalled(m) ==
    /\ todo = <<>> /\ storeCalls < MaxStoreCalls
    /\ storeCalls' = storeCalls + 1
    /\ mem' = IF crashes = 0 THEN m ELSE mem
    /\ UNCHANGED <<session, crashes>>

Drop(tier, r)         == [op |-> "drop", tier |-> tier, rel |-> r]
Promote(src, dst, r)  == [op |-> "promote", tier |-> src, dst |-> dst, rel |-> r]
Save                  == [op |-> "save"]

\* create_relation
CreateRelation(r) ==
    /\ StoreCalled(MemCreate(mem, r))
    /\ r \notin held.relations
    /\ held' = [relations |-> held.relations \cup {r},
                next_ids  |-> (r :> NextId(held, r)) @@ held.next_ids]
    /\ todo' = <<Save>>
    /\ UNCHANGED <<disk, kept, overwritten, missed>>

\* What the rows lose that a transaction writes over.
Lost(tier, r, rows) ==
    {<<r, disk.tables[tier][r][id]>> : id \in DOMAIN rows \cap DOMAIN disk.tables[tier][r]}

\* insert; the clients create a relation first
Insert(r, t) ==
    /\ r \in held.relations
    /\ StoreCalled(MemInsert(mem, r, t))
    /\ kept' = kept \cup {<<r, t>>}
    /\ IF DiskAdds(disk, r, t)
       THEN /\ disk' = DiskInsert(disk, held, r, t)
            /\ held' = AllocIds(held, r, 1)
            /\ overwritten' = (overwritten \ {<<r, t>>})
                              \cup Lost("next_delta", r, NextId(held, r) :> t)
       ELSE UNCHANGED <<disk, held, overwritten>>
    /\ UNCHANGED <<todo, missed>>

\* merge_deltas: delta into stable, then next_delta into delta, relation by
\* relation in any order, the meta table last
MergeDeltas ==
    /\ StoreCalled(MemMerge(mem))
    /\ \E order \in SetToSeqs(held.relations) :
         todo' = FlattenSeq([i \in DOMAIN order |->
                   <<Promote("delta", "stable", order[i]), Drop("delta", order[i]),
                     Promote("next_delta", "delta", order[i]), Drop("next_delta", order[i])>>])
                 \o <<Save>>
    /\ missed' = {}
    /\ UNCHANGED <<disk, held, kept, overwritten>>

\* retract; what was coalesced is not the client's to retract
Retract(r, t) ==
    /\ r \notin Temporal
    /\ StoreCalled(MemRetract(mem, r, t))
    /\ kept' = kept \ {<<r, t>>}
    /\ disk' = DiskRetract(disk, r, t)
    /\ missed' = IF MemFinds(mem, r, t) THEN missed \ {r}
                 ELSE IF FlattenTuple(t) \in ToSet(mem.delta[r]) THEN missed \cup {r}
                 ELSE missed
    /\ UNCHANGED <<held, todo, overwritten>>

\* clear
Clear(r) ==
    /\ StoreCalled(MemClear(mem, r))
    /\ kept' = {f \in kept : f[1] # r}
    /\ todo' = <<Drop("stable", r), Drop("delta", r), Drop("next_delta", r)>>
    /\ missed' = missed \ {r}
    /\ UNCHANGED <<disk, held, overwritten>>

\* coalesce_temporal, which the driver calls right after a merge; the default
\* of the trait, and so DiskStore's, does nothing
CoalesceTemporal(r) ==
    /\ r \in Temporal /\ crashes = 0 /\ mem.next_delta[r] = <<>>
    /\ StoreCalled(MemCoalesce(mem, r))
    /\ UNCHANGED <<disk, held, todo, kept, overwritten, missed>>

\* The next transaction of DiskStore's call.
Transaction ==
    /\ todo # <<>>
    /\ todo' = Tail(todo)
    /\ LET s == Head(todo)
       IN  \/ /\ s.op = "drop"
              /\ disk' = DropTier(disk, s.tier, s.rel)
              /\ UNCHANGED <<held, overwritten>>
           \/ /\ s.op = "promote"
              /\ LET rows == Promotion(disk, held, s.tier, s.rel)
                 IN  /\ disk' = WriteRows(disk, s.dst, s.rel, rows)
                     /\ held' = AllocIds(held, s.rel, Cardinality(DOMAIN rows))
                     /\ overwritten' = overwritten \cup Lost(s.dst, s.rel, rows)
           \/ /\ s.op = "save"
              /\ disk' = SaveRowIds(disk, held)
              /\ UNCHANGED <<held, overwritten>>
    /\ UNCHANGED <<session, mem, kept, missed, storeCalls, crashes>>

\* The process ends, and DiskStore::open reads the file again.
StoreCrash ==
    /\ crashes < MaxCrashes
    /\ crashes' = crashes + 1
    /\ mem' = MemNew /\ held' = DiskOpen(disk) /\ todo' = <<>> /\ missed' = {}
    /\ UNCHANGED <<session, disk, kept, overwritten, storeCalls>>

TierNext ==
    \/ \E r \in session : \/ CreateRelation(r) \/ Clear(r) \/ CoalesceTemporal(r)
                         \/ \E t \in Tuples[r] : Insert(r, t) \/ Retract(r, t)
    \/ MergeDeltas \/ Transaction \/ StoreCrash

----------------------------------------------------------------------------
(* Properties *)

OnDisk(r) == UNION {DiskTier(disk, tier, r) : tier \in Tiers}

\* The instants that the intervals among tuples cover.
Covered(tuples) == UNION {{<<SubSeq(t, 1, Len(t) - 2), n>> : n \in t[Len(t) - 1].n..t[Len(t)].n} :
                            t \in tuples}

Keys(r, col) == {t[col] : t \in {u \in Tuples[r] : col \in DOMAIN u}}

\* What reads of a column by a key give: the rows of the scan that hold it.  An
\* index of MemStore also gives compounds of the same length, which its callers
\* filter.
LookupsAgree(r, scan, delta) ==
    \A col \in 1..2 : \A key \in Keys(r, col) :
        LET hits(s) == {t \in s : t[col] = key}
        IN  /\ \A t \in MemScanIndex(mem, r, col, key) : t[col] # OutOfBounds
            /\ hits(MemScanIndex(mem, r, col, key)) = hits(scan)
            /\ hits(MemScanDeltaIndex(mem, r, col, key)) = hits(delta)
            /\ DiskScanIndex(disk, r, col, key) = hits(scan)
            /\ DiskScanDeltaIndex(disk, r, col, key) = hits(delta)

\* Between calls of a process that has not crashed, the two stores give the
\* same answers: the same tuples in the scan, the delta and next_delta of every
\* relation, each once, and through every index exactly the tuples of the scan
\* with that key; of a temporal relation, which MemStore coalesces, the same
\* instants.  The indexes of a delta that MemStore::retract took a row from are
\* excepted until the next merge: it rebuilds indexes only when the row was
\* stable.
StoresAgree ==
    todo = <<>> /\ crashes = 0 =>
    \A r \in session :
        LET scan == ToSet(MemScan(mem, r))
            delta == ToSet(TierTuples(mem, "delta", r))
        IN  IF r \in Temporal THEN Covered(scan) = Covered(DiskScan(disk, r))
            ELSE /\ scan = DiskScan(disk, r)
                 /\ Cardinality(scan) = Len(MemScan(mem, r))
                 /\ delta = DiskTier(disk, "delta", r)
                 /\ ToSet(TierTuples(mem, "next_delta", r)) = DiskTier(disk, "next_delta", r)
                 /\ r \notin missed => LookupsAgree(r, scan, delta)

\* No crash, between whichever transactions of merge_deltas, clear or
\* create_relation, loses a fact that insert stored: it is in one of the tiers.
\* The one exception is a row that a later one takes the id of, and that needs
\* a crash: open reads the ids that create_relation and merge_deltas saved, not
\* those that were used since.
CrashLosesNothing ==
    /\ \A f \in kept : f[2] \in OnDisk(f[1]) \/ f \in overwritten
    /\ crashes = 0 => overwritten = {}
=============================================================================
