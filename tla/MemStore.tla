------------------------------ MODULE MemStore ------------------------------
(***************************************************************************)
(* The in-memory store of crates/mangle-interpreter/src/lib.rs: tuples     *)
(* flattened into cells, three tiers of rows, and indexes of row numbers.  *)
(*                                                                         *)
(* A value is [k, n, e]: a scalar of kind k that n tells from the others,  *)
(* or a compound of kind k with elements e.  A cell is [k, n]: a scalar,   *)
(* or the start of a compound with n elements.  A store m has, for every   *)
(* relation, the rows of its tiers as sequences; indexes are sets of       *)
(* <<relation, column, cell, row>>; keys are the relations that each map   *)
(* has an entry for.                                                       *)
(***************************************************************************)
EXTENDS Integers, Sequences, SequencesExt

CONSTANT Relations

Tiers == {"stable", "delta", "next_delta"}
Scalars == {"num", "time", "name", "string"}

Num(n)   == [k |-> "num", n |-> n, e |-> <<>>]
Time(n)  == [k |-> "time", n |-> n, e |-> <<>>]
List(es) == [k |-> "list", n |-> 0, e |-> es]

----------------------------------------------------------------------------
(* Cells *)

\* The first cell of a value, also its key in an index (value_to_index_key).
FirstCell(v) == [k |-> v.k, n |-> IF v.k \in Scalars THEN v.n ELSE Len(v.e)]

\* flatten_value, flatten_tuple
RECURSIVE Flatten(_)
Flatten(v) == <<FirstCell(v)>> \o FlattenSeq([i \in DOMAIN v.e |-> Flatten(v.e[i])])

FlattenTuple(t) == FlattenSeq([i \in DOMAIN t |-> Flatten(t[i])])

\* skip_one: the position behind the value that starts at pos
RECURSIVE SkipOne(_, _)
SkipOne(cells, pos) ==
    IF cells[pos].k \in Scalars THEN pos + 1
    ELSE FoldLeft(LAMBDA p, i : SkipOne(cells, p), pos + 1, [i \in 1..cells[pos].n |-> i])

\* Where the first n values of a row start; count_logical_values is how many fit.
Starts(cells, n) ==
    LET at[i \in 1..n] == IF i = 1 THEN 1 ELSE SkipOne(cells, at[i - 1]) IN at

\* unflatten_one, unflatten_tuple
RECURSIVE UnflattenOne(_, _)
UnflattenOne(cells, pos) ==
    LET c == cells[pos]
        at[i \in 1..c.n] == IF i = 1 THEN pos + 1 ELSE SkipOne(cells, at[i - 1])
    IN  IF c.k \in Scalars THEN [k |-> c.k, n |-> c.n, e |-> <<>>]
        ELSE [k |-> c.k, n |-> 0, e |-> [i \in 1..c.n |-> UnflattenOne(cells, at[i])]]

UnflattenTuple(cells, n) == [i \in 1..n |-> UnflattenOne(cells, Starts(cells, n)[i])]

----------------------------------------------------------------------------
(* Rows and indexes *)

EmptyTier == [r \in Relations |-> <<>>]

\* MemStore::new; an arity of -1 is one not registered yet
MemNew == [stable |-> EmptyTier, delta |-> EmptyTier, next_delta |-> EmptyTier,
           arity |-> [r \in Relations |-> -1], stable_indexes |-> {}, delta_indexes |-> {},
           keys |-> [tier \in Tiers |-> {}]]

Arity(m, r) == IF m.arity[r] = -1 THEN 0 ELSE m.arity[r]

\* index_cells
IndexCells(r, cells, n, row) ==
    {<<r, col, cells[Starts(cells, n)[col]], row>> : col \in 1..n}

IndexTable(r, table, n) == UNION {IndexCells(r, table[i], n, i) : i \in DOMAIN table}

Others(index, r) == {entry \in index : entry[1] # r}

\* rebuild_indexes_for
RebuildIndexes(m, r) ==
    [m EXCEPT !.stable_indexes = Others(@, r) \cup IndexTable(r, m.stable[r], Arity(m, r)),
              !.delta_indexes  = Others(@, r) \cup IndexTable(r, m.delta[r], Arity(m, r))]

\* swap_remove of the row with these cells, where there is one
SwapRemove(table, cells) ==
    LET last == Len(table)
        pos  == SelectInSeq(table, LAMBDA row : row = cells)
    IN  IF pos = 0 THEN table
        ELSE [i \in 1..(last - 1) |-> IF i = pos THEN table[last] ELSE table[i]]

----------------------------------------------------------------------------
(* The operations of the trait Store *)

MemCreate(m, r) == [m EXCEPT !.keys.stable = @ \cup {r}]

MemHas(m, r, cells) == \E tier \in Tiers : cells \in ToSet(m[tier][r])

\* insert: whether the tuple was new
MemAdds(m, r, t) == ~MemHas(m, r, FlattenTuple(t)) /\ m.arity[r] \in {-1, Len(t)}

MemInsert(m, r, t) ==
    IF MemAdds(m, r, t)
    THEN [m EXCEPT !.arity[r] = Len(t), !.next_delta[r] = Append(@, FlattenTuple(t)),
                   !.keys.next_delta = @ \cup {r}]
    ELSE m

Promoted(keys) == [stable |-> keys.stable \cup keys.delta, delta |-> keys.next_delta,
                   next_delta |-> {}]

\* Mutant of MemMerge: the indexes of the delta outlive it.
MemMergeKeep(m) ==
    LET shifted(r) == {<<r, i[2], i[3], i[4] + Len(m.stable[r])>> :
                         i \in {j \in m.delta_indexes : j[1] = r}}
    IN  [m EXCEPT !.stable = [r \in Relations |-> @[r] \o m.delta[r]],
                  !.stable_indexes = @ \cup UNION {shifted(r) : r \in Relations},
                  !.keys = Promoted(@),
                  !.delta = m.next_delta,
                  !.next_delta = EmptyTier,
                  !.delta_indexes = @ \cup UNION {IndexTable(r, m.next_delta[r], Arity(m, r)) :
                                                    r \in Relations}]

\* merge_deltas: the rows of the delta are pushed behind the stable ones
MemMerge(m) ==
    LET moved(r) == UNION {IndexCells(r, m.delta[r][i], Arity(m, r), Len(m.stable[r]) + i) :
                             i \in DOMAIN m.delta[r]}
    IN  [m EXCEPT !.stable = [r \in Relations |-> @[r] \o m.delta[r]],
                  !.stable_indexes = @ \cup UNION {moved(r) : r \in Relations},
                  !.keys = Promoted(@),
                  !.delta = m.next_delta,
                  !.next_delta = EmptyTier,
                  !.delta_indexes = UNION {IndexTable(r, m.next_delta[r], Arity(m, r)) :
                                             r \in Relations}]

\* retract: the tuple leaves every tier, but only a stable one is found, and
\* only then the indexes are rebuilt
MemFinds(m, r, t) == FlattenTuple(t) \in ToSet(m.stable[r])

MemRetract(m, r, t) ==
    LET cells == FlattenTuple(t)
        left  == [m EXCEPT !.stable[r]     = SwapRemove(@, cells),
                           !.delta[r]      = SwapRemove(@, cells),
                           !.next_delta[r] = SwapRemove(@, cells)]
    IN  IF MemFinds(m, r, t) THEN RebuildIndexes(left, r) ELSE left

MemClear(m, r) ==
    [m EXCEPT !.stable[r] = <<>>, !.delta[r] = <<>>, !.next_delta[r] = <<>>,
              !.stable_indexes = Others(@, r), !.delta_indexes = Others(@, r)]

\* relation_names
MemNames(m) == m.keys.stable \cup m.keys.delta

TierTuples(m, tier, r) ==
    [i \in DOMAIN m[tier][r] |-> UnflattenTuple(m[tier][r][i], Arity(m, r))]

\* scan
MemScan(m, r) == TierTuples(m, "stable", r) \o TierTuples(m, "delta", r)

\* The rows that an index names; a number behind the table would be a panic.
OutOfBounds == [k |-> "panic", n |-> 0, e |-> <<>>]

IndexedRows(m, tier, index, r, col, key) ==
    LET rows == {i[4] : i \in {j \in index : j[1] = r /\ j[2] = col /\ j[3] = FirstCell(key)}}
    IN  {IF i \in DOMAIN m[tier][r] THEN UnflattenTuple(m[tier][r][i], Arity(m, r))
         ELSE [c \in 1..Arity(m, r) |-> OutOfBounds] : i \in rows}

\* scan_index, scan_delta_index
MemScanDeltaIndex(m, r, col, key) == IndexedRows(m, "delta", m.delta_indexes, r, col, key)
MemScanIndex(m, r, col, key) ==
    IndexedRows(m, "stable", m.stable_indexes, r, col, key) \cup MemScanDeltaIndex(m, r, col, key)

----------------------------------------------------------------------------
(* Coalescing of intervals, the last two columns of a temporal relation *)

\* The intervals of one key, sorted by their start and merged where they
\* overlap or touch.
Coalesced(intervals) ==
    LET sorted == SetToSortSeq(intervals, LAMBDA a, b : a[1] < b[1] \/ (a[1] = b[1] /\ a[2] < b[2]))
        Add(merged, i) ==
          LET last == merged[Len(merged)]
          IN  IF i[1] <= last[2] + 1
              THEN [merged EXCEPT ![Len(merged)] = <<last[1], Max({last[2], i[2]})>>]
              ELSE Append(merged, i)
    IN  FoldLeft(Add, <<sorted[1]>>, Tail(sorted))

\* coalesce_temporal: rows whose bounds are not instants are dropped,
\* and so is what waits in next_delta
MemCoalesce(m, r) ==
    LET n       == Arity(m, r)
        facts   == ToSet(MemScan(m, r))
        timed   == {f \in facts : {f[n - 1].k, f[n].k} \subseteq {"num", "time"}}
        keys    == {SubSeq(f, 1, n - 2) : f \in timed}
        spans(key) == {<<f[n - 1].n, f[n].n>> : f \in {g \in timed : SubSeq(g, 1, n - 2) = key}}
        rows(key)  == {key \o <<Time(i[1]), Time(i[2])>> : i \in ToSet(Coalesced(spans(key)))}
        cells   == SetToSeq({FlattenTuple(f) : f \in UNION {rows(key) : key \in keys}})
    IN  IF n < 2 \/ facts = {} THEN m
        ELSE RebuildIndexes([m EXCEPT !.stable[r] = cells, !.delta[r] = <<>>,
                                      !.next_delta[r] = <<>>,
                                      !.keys = [stable |-> @.stable \cup {r},
                                                delta |-> @.delta \ {r},
                                                next_delta |-> @.next_delta \ {r}]], r)
=============================================================================
