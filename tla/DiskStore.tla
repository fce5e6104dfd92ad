------------------------------ MODULE DiskStore -----------------------------
(***************************************************************************)
(* The store on disk of crates/mangle-db/src/disk_store.rs, over redb.     *)
(*                                                                         *)
(* What the file holds, d: for every tier and relation a table from row    *)
(* ids to tuples, for every tier, relation and column an index of          *)
(* <<tier, relation, column, value, row id>>, and the meta table with the  *)
(* next row id of each known relation.  What the process holds, h: the     *)
(* known relations and the next row ids.  A redb transaction is one step.  *)
(***************************************************************************)
EXTENDS MemStore

NoTable == <<>>

DiskNew == [tables |-> [tier \in Tiers |-> [r \in Relations |-> NoTable]],
            index  |-> {}, meta |-> NoTable]

\* DiskStore::open: the relations and the ids are those of the meta table
DiskOpen(d) == [relations |-> DOMAIN d.meta, next_ids |-> d.meta]

NextId(h, r) == IF r \in DOMAIN h.next_ids THEN h.next_ids[r] ELSE 0

\* alloc_id, n times
AllocIds(h, r, n) == [h EXCEPT !.next_ids = (r :> (NextId(h, r) + n)) @@ @]

\* index_lookup_row_ids
RowIds(d, tier, r, col, value) == {i[5] : i \in {j \in d.index :
                                     j[1] = tier /\ j[2] = r /\ j[3] = col /\ j[4] = value}}

\* tier_contains_tuple and retract_from_tier look a tuple up through the index
\* of its first column, one without columns by a scan
RowsHolding(d, tier, r, t) ==
    LET table == d.tables[tier][r]
        candidates == IF t = <<>> THEN DOMAIN table
                      ELSE RowIds(d, tier, r, 1, t[1]) \cap DOMAIN table
    IN  {id \in candidates : table[id] = t}

\* fetch_by_index
FetchByIndex(d, tier, r, col, value) ==
    {d.tables[tier][r][id] : id \in RowIds(d, tier, r, col, value) \cap DOMAIN d.tables[tier][r]}

\* A transaction that writes rows (ids to tuples) into a table and its indexes;
\* a row with the same id is overwritten, its entries in the index are not.
WriteRows(d, tier, r, rows) ==
    [d EXCEPT !.tables[tier][r] = rows @@ @,
              !.index = @ \cup UNION {{<<tier, r, col, rows[id][col], id>> : col \in DOMAIN rows[id]} :
                                        id \in DOMAIN rows}]

\* drop_tier_tables
DropTier(d, tier, r) ==
    [d EXCEPT !.tables[tier][r] = NoTable,
              !.index = {i \in @ : ~(i[1] = tier /\ i[2] = r)}]

\* save_meta
SaveRowIds(d, h) == [d EXCEPT !.meta = h.next_ids @@ @]

----------------------------------------------------------------------------
(* The operations of the trait Store *)

DiskAdds(d, r, t) == \A tier \in Tiers : RowsHolding(d, tier, r, t) = {}

\* insert, where the tuple is new
DiskInsert(d, h, r, t) == WriteRows(d, "next_delta", r, NextId(h, r) :> t)

\* The tier that retract takes a tuple from, "" when there is none
TierHolding(d, r, t) ==
    LET in(tier) == RowsHolding(d, tier, r, t) # {}
    IN  CASE in("stable") -> "stable"
          [] in("delta")  -> "delta"
          [] in("next_delta") -> "next_delta"
          [] OTHER -> ""

\* retract_from_tier, retract_from_tier_by_scan: the first row of the tuple
RetractFrom(d, tier, r, t) ==
    LET id == Min(RowsHolding(d, tier, r, t))
    IN  [d EXCEPT !.tables[tier][r] = [i \in (DOMAIN @) \ {id} |-> @[i]],
                  !.index = @ \ {<<tier, r, col, t[col], id>> : col \in DOMAIN t}]

DiskRetract(d, r, t) ==
    LET tier == TierHolding(d, r, t)
    IN  IF tier = "" THEN d ELSE RetractFrom(d, tier, r, t)

\* Mutant of Promotion: the destination is numbered from zero.
PromotionFromZero(d, h, src, r) ==
    LET table == d.tables[src][r]
        rank(id) == Cardinality({i \in DOMAIN table : i < id})
    IN  [new \in {rank(id) : id \in DOMAIN table} |->
            table[CHOOSE id \in DOMAIN table : rank(id) = new]]

\* promote_tier: the rows of a tier, in the order of their ids, under fresh ids
Promotion(d, h, src, r) ==
    LET table == d.tables[src][r]
        rank(id) == Cardinality({i \in DOMAIN table : i < id})
    IN  [new \in {NextId(h, r) + rank(id) : id \in DOMAIN table} |->
            table[CHOOSE id \in DOMAIN table : NextId(h, r) + rank(id) = new]]

\* scan, scan_delta, scan_next_delta
DiskTier(d, tier, r) == {d.tables[tier][r][id] : id \in DOMAIN d.tables[tier][r]}
DiskScan(d, r) == DiskTier(d, "stable", r) \cup DiskTier(d, "delta", r)

\* scan_index, scan_delta_index
DiskScanDeltaIndex(d, r, col, key) == FetchByIndex(d, "delta", r, col, key)
DiskScanIndex(d, r, col, key) ==
    FetchByIndex(d, "stable", r, col, key) \cup DiskScanDeltaIndex(d, r, col, key)
=============================================================================
