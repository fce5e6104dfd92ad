----------------------------- MODULE FfiSession -----------------------------
(***************************************************************************)
(* A session of a host program with the C interface of crates/mangle-ffi:  *)
(* one engine over a MemStore, cursors over its relations, a blob of saved *)
(* facts, and derivation trees.                                            *)
(*                                                                         *)
(* A program is [edb, strata]: the relations it only reads, and strata of  *)
(* clauses [head, tuple, body], a fact where body is "" and otherwise the  *)
(* rule head(X..) :- body(X..).  last is the answer to the last call:      *)
(* its name, the status and what it wrote through its out pointer.         *)
(* snapshot, yielded and outdated of a cursor are history: what it was     *)
(* opened on, what it gave, and whether the engine was loaded or poisoned  *)
(* since.                                                                  *)
(***************************************************************************)
EXTENDS MemStore, FiniteSets

CONSTANTS Programs,      \* Programs[p]: the program with the source p
          Broken,        \* sources that do not compile
          Handles,       \* Handles[r]: sequences of handles the host inserts into r
          Queries,       \* [rel, args], an argument being a constant or Wildcard
          Cursors, MaxCalls

VARIABLES engine, cursors, blob, last, calls

hostVars == <<engine, cursors, blob, last, calls>>

\* The status codes, and end of stream
Ok == "ok"
End == "end"
InvalidArg == "invalid_arg"
NoRules == "no_rules"
Parse == "parse"
Panicked == "panic"
UnknownRelation == "unknown_relation"
Invalidated == "cursor_invalidated"
NoProvenance == "no_provenance"
FactNotFound == "fact_not_found"

NoSource   == "none"
NullHandle == [k |-> "null_handle", n |-> 0, e |-> <<>>]
Wildcard   == [k |-> "wildcard", n |-> 0, e |-> <<>>]

----------------------------------------------------------------------------
(* Values of the host *)

\* mangle_val_build_compound: a map or struct needs keys and values, and an
\* element that could not be built makes none
BuildCompound(kind, elems) ==
    IF kind \notin {"list", "pair", "map", "struct"} THEN NullHandle
    ELSE IF kind \in {"map", "struct"} /\ Len(elems) % 2 = 1 THEN NullHandle
    ELSE IF NullHandle \in ToSet(elems) THEN NullHandle
    ELSE [k |-> kind, n |-> 0, e |-> elems]

\* collect_tuple
Collected(handles) == NullHandle \notin ToSet(handles)

----------------------------------------------------------------------------
(* Programs *)

Clauses(p) == UNION {ToSet(p.strata[i]) : i \in DOMAIN p.strata}
Heads(p)   == {c.head : c \in Clauses(p)}
\* The relations a clause names, with their arity
Named(c)   == {<<c.head, Len(c.tuple)>>}
              \cup (IF c.body = "" THEN {} ELSE {<<c.body, Len(c.tuple)>>})

\* Schema::build: a head is derived only when one of its clauses has premises;
\* a relation that only a declaration names has arity 0
SchemaOf(p) ==
    LET names == UNION {Named(c) : c \in Clauses(p)}
        known == Heads(p) \cup p.edb
    IN  [predicates |->
           [r \in known |->
              [arity |-> IF \E a \in names : a[1] = r
                         THEN (CHOOSE a \in names : a[1] = r)[2] ELSE 0,
               kind  |-> IF \E c \in Clauses(p) : c.head = r /\ c.body # "" THEN "idb" ELSE "edb"]],
         rules |-> {[head |-> c.head, body |-> c.body] : c \in {d \in Clauses(p) : d.body # ""}}]

\* The facts that one clause inserts, with the premises it was scanning.
DerivedBy(m, c) ==
    IF c.body = "" THEN <<[fact |-> <<c.head, c.tuple>>, premises |-> <<>>]>>
    ELSE [i \in DOMAIN MemScan(m, c.body) |->
            [fact     |-> <<c.head, MemScan(m, c.body)[i]>>,
             premises |-> <<<<c.body, MemScan(m, c.body)[i]>>>>]]

\* Op::Insert with the recorder of provenance: only what is new is recorded
RunClause(st, c) ==
    LET Add(s, d) == IF MemAdds(s.store, d.fact[1], d.fact[2])
                     THEN [store |-> MemInsert(s.store, d.fact[1], d.fact[2]),
                           prov  |-> Append(s.prov, d)]
                     ELSE s
    IN  FoldLeft(Add, st, DerivedBy(st.store, c))

\* execute: the relations of the EDB, then stratum by stratum with a merge
\* after each
Executed(p) ==
    LET created == FoldLeft(MemCreate, MemNew, SetToSeq(p.edb))
        Run(st, stratum) == LET done == FoldLeft(RunClause, st, stratum)
                            IN  [done EXCEPT !.store = MemMerge(@)]
    IN  FoldLeft(Run, [store |-> created, prov |-> <<>>], p.strata)

----------------------------------------------------------------------------
(* The engine *)

\* MangleEngine::new
EngineNew(provenance) ==
    [live |-> TRUE, enable_provenance |-> provenance, poisoned |-> FALSE, generation |-> 0,
     source |-> NoSource, store |-> MemNew, prov |-> <<>>]

Freed == [EngineNew(FALSE) EXCEPT !.live = FALSE]

Loaded(e) == e.source # NoSource
Knows(e, r) == r \in DOMAIN SchemaOf(Programs[e.source]).predicates

\* Mutant of LoadedWith: reloading does not invalidate the cursors.
LoadedWithSameGeneration(e, source) ==
    LET run == Executed(Programs[source])
    IN  [e EXCEPT !.source = source, !.store = run.store,
                  !.prov = IF e.enable_provenance THEN run.prov ELSE <<>>]

\* MangleEngine::load_rules, where the sources compile
LoadedWith(e, source) ==
    LET run == Executed(Programs[source])
    IN  [e EXCEPT !.source = source, !.store = run.store,
                  !.prov = IF e.enable_provenance THEN run.prov ELSE <<>>,
                  !.generation = @ + 1]

\* Mutant of Inserted: the tuple waits in next_delta.
InsertedUnmerged(e, r, t) == [e EXCEPT !.store = MemInsert(@, r, t)]

\* insert_fact: the two merges take the tuple to the stable tier
Inserted(e, r, t) == [e EXCEPT !.store = MemMerge(MemMerge(MemInsert(@, r, t)))]

\* retract_fact
Retracted(e, r, t) == [e EXCEPT !.store = MemRetract(@, r, t)]

\* bulk_insert_tables
BulkInserted(e, tables) ==
    LET Fill(m, r) == FoldLeft(LAMBDA n, t : MemInsert(n, r, t), m, tables[r])
    IN  [e EXCEPT !.store = MemMerge(MemMerge(FoldLeft(Fill, @, SetToSeq(DOMAIN tables))))]

Visible(e) == UNION {{<<r, t>> : t \in ToSet(MemScan(e.store, r))} : r \in Relations}

\* What a call on a relation answers before it touches the store.
Refusal(e, r) ==
    IF e.poisoned THEN Panicked
    ELSE IF ~Loaded(e) THEN NoRules
    ELSE IF ~Knows(e, r) THEN UnknownRelation
    ELSE Ok

\* filter_tuples: constants at their positions, and no more arguments than columns
Matches(t, args) ==
    \A i \in DOMAIN args : i \in DOMAIN t /\ (args[i] # Wildcard => t[i] = args[i])

Filtered(e, q) == SelectSeq(MemScan(e.store, q.rel), LAMBDA t : Matches(t, q.args))

----------------------------------------------------------------------------
(* Facts as a file (SimpleRow) *)

\* term_to_value: a number or a text is read as written, a name as the number
\* it is interned under, anything else as a text
RoundTrip(v) ==
    CASE v.k \in {"num", "string"} -> v
      [] v.k = "name" -> [v EXCEPT !.n = 100 + @]
      [] OTHER -> [k |-> "string", n |-> 100, e |-> <<>>]

\* read_simple_row of what write_simple_row wrote
ReadTables(tables) ==
    [r \in DOMAIN tables |->
        [i \in DOMAIN tables[r] |-> [c \in DOMAIN tables[r][i] |-> RoundTrip(tables[r][i][c])]]]

\* all_relations_materialized
SavedTables(e) == [r \in MemNames(e.store) |-> MemScan(e.store, r)]

FactsOf(tables) == UNION {{<<r, t>> : t \in ToSet(tables[r])} : r \in DOMAIN tables}

----------------------------------------------------------------------------
(* Derivations *)

\* DerivationIndex::build
DerivationsOf(prov, fact) == SelectSeq(prov, LAMBDA d : d.fact = fact)

Recorded(prov, fact) == \E i \in DOMAIN prov : fact = prov[i].fact \/ fact \in ToSet(prov[i].premises)

Cut(fact) == [fact |-> fact, cut |-> TRUE, derivations |-> <<>>]

\* walk_inner: a fact on the way from the root, or at the greatest depth, is cut
RECURSIVE Walk(_, _, _, _)
Walk(prov, fact, depth, visited) ==
    LET ds == DerivationsOf(prov, fact)
        below(d) == [j \in DOMAIN d.premises |->
                       Walk(prov, d.premises[j], depth - 1, visited \cup {fact})]
    IN  IF depth = 0 \/ fact \in visited THEN Cut(fact)
        ELSE [fact |-> fact, cut |-> FALSE, derivations |-> [i \in DOMAIN ds |-> below(ds[i])]]

\* A tree that explains its root down to clauses without premises, cut nowhere.
RECURSIVE Explains(_)
Explains(tree) ==
    /\ ~tree.cut
    /\ tree.derivations # <<>>
    /\ \A i \in DOMAIN tree.derivations : \A j \in DOMAIN tree.derivations[i] :
          Explains(tree.derivations[i][j])

Unlimited == Cardinality(Relations) + 1

----------------------------------------------------------------------------
(* The calls *)

Answer(call, rc, out) == [call |-> call, rc |-> rc, out |-> out]
NoAnswer == Answer("new", Ok, <<>>)

NoCursor == [open |-> FALSE, generation |-> 0, rows |-> <<>>, index |-> 0,
             snapshot |-> <<>>, yielded |-> <<>>, outdated |-> FALSE]

HostInit ==
    /\ \E provenance \in BOOLEAN : engine = EngineNew(provenance)
    /\ cursors = [c \in Cursors |-> NoCursor]
    /\ blob = <<>>
    /\ last = NoAnswer
    /\ calls = 0

Called(call, rc, out) == /\ calls < MaxCalls /\ calls' = calls + 1
                         /\ last' = Answer(call, rc, out)

\* Every cursor that was open when the engine was loaded or poisoned.
Outdate == cursors' = [c \in Cursors |-> [cursors[c] EXCEPT !.outdated = @ \/ cursors[c].open]]

\* mangle_load_rules
LoadRules(source) ==
    /\ engine.live
    /\ UNCHANGED blob
    /\ \/ /\ engine.poisoned /\ Called("load", Panicked, <<>>) /\ UNCHANGED <<engine, cursors>>
       \/ /\ ~engine.poisoned /\ source \in Broken
          /\ Called("load", Parse, <<>>) /\ UNCHANGED <<engine, cursors>>
       \/ /\ ~engine.poisoned /\ source \notin Broken
          /\ Called("load", Ok, <<>>) /\ engine' = LoadedWith(engine, source) /\ Outdate

\* panic_boundary: a call that panics poisons the engine; load_rules replaces
\* the program only after it ran, and the reads leave the store alone
Panic ==
    /\ engine.live /\ ~engine.poisoned
    /\ Called("panic", Panicked, <<>>)
    /\ engine' = [engine EXCEPT !.poisoned = TRUE, !.generation = @ + 1]
    /\ Outdate
    /\ UNCHANGED blob

\* mangle_insert_fact
InsertFact(r, handles) ==
    LET rc == IF engine.poisoned THEN Panicked
              ELSE IF ~Collected(handles) THEN InvalidArg ELSE Refusal(engine, r)
    IN  /\ engine.live
        /\ Called("insert", rc, <<r, handles, rc = Ok /\ MemAdds(engine.store, r, handles)>>)
        /\ engine' = IF rc = Ok THEN Inserted(engine, r, handles) ELSE engine
        /\ UNCHANGED <<cursors, blob>>

\* mangle_retract_fact
RetractFact(r, handles) ==
    LET rc == IF engine.poisoned THEN Panicked
              ELSE IF ~Collected(handles) THEN InvalidArg ELSE Refusal(engine, r)
    IN  /\ engine.live
        /\ Called("retract", rc, <<r, handles, rc = Ok /\ MemFinds(engine.store, r, handles)>>)
        /\ engine' = IF rc = Ok THEN Retracted(engine, r, handles) ELSE engine
        /\ UNCHANGED <<cursors, blob>>

\* mangle_query
Query(c, q) ==
    LET rc   == Refusal(engine, q.rel)
        rows == Filtered(engine, q)
    IN  /\ engine.live /\ ~cursors[c].open
        /\ Called("query", rc, <<>>)
        /\ cursors' = IF rc # Ok THEN cursors
                      ELSE [cursors EXCEPT ![c] = [NoCursor EXCEPT !.open = TRUE,
                               !.generation = engine.generation, !.rows = rows, !.snapshot = rows]]
        /\ UNCHANGED <<engine, blob>>

\* mangle_cursor_next; it needs the engine alive, poisoned or not
CursorNext(c) ==
    LET k == cursors[c]
    IN  /\ engine.live /\ k.open
        /\ \/ /\ k.generation # engine.generation
              /\ Called("next", Invalidated, <<>>) /\ UNCHANGED cursors
           \/ /\ k.generation = engine.generation /\ k.index >= Len(k.rows)
              /\ Called("next", End, <<>>) /\ UNCHANGED cursors
           \/ /\ k.generation = engine.generation /\ k.index < Len(k.rows)
              /\ Called("next", Ok, <<>>)
              /\ cursors' = [cursors EXCEPT ![c].index = @ + 1,
                                            ![c].yielded = Append(@, k.rows[k.index + 1])]
        /\ UNCHANGED <<engine, blob>>

\* mangle_cursor_free, in any state of the engine
CursorFree(c) ==
    /\ cursors[c].open
    /\ Called("cursor_free", Ok, <<>>)
    /\ cursors' = [cursors EXCEPT ![c] = NoCursor]
    /\ UNCHANGED <<engine, blob>>

\* mangle_save_facts_mgr; the compressions that can be written are none and gzip
SaveFacts(compression) ==
    LET rc == IF engine.poisoned THEN Panicked
              ELSE IF ~Loaded(engine) THEN NoRules
              ELSE IF compression \notin {"none", "gzip"} THEN InvalidArg ELSE Ok
    IN  /\ engine.live
        /\ Called("save", rc, <<>>)
        /\ blob' = IF rc = Ok THEN SavedTables(engine) ELSE blob
        /\ UNCHANGED <<engine, cursors>>

\* mangle_query_dump_mgr, and mangle_save_relation_mgr where q is a whole relation
\* and the name its own
DumpQuery(q, name) ==
    LET rc == Refusal(engine, q.rel)
    IN  /\ engine.live
        /\ Called("dump", rc, <<>>)
        /\ blob' = IF rc = Ok THEN name :> Filtered(engine, q) ELSE blob
        /\ UNCHANGED <<engine, cursors>>

\* mangle_load_facts_mgr: all relations of the file must be known
LoadFacts ==
    LET tables == ReadTables(blob)
        rc == IF engine.poisoned THEN Panicked
              ELSE IF ~Loaded(engine) THEN NoRules
              ELSE IF \E r \in DOMAIN tables : ~Knows(engine, r) THEN UnknownRelation ELSE Ok
    IN  /\ engine.live /\ blob # <<>>
        /\ Called("load_facts", rc, <<>>)
        /\ engine' = IF rc = Ok THEN BulkInserted(engine, tables) ELSE engine
        /\ UNCHANGED <<cursors, blob>>

\* mangle_derivation_tree; no index is kept without provenance
DerivationTree(fact, depth) ==
    LET rc == IF engine.poisoned THEN Panicked
              ELSE IF ~Loaded(engine) THEN NoRules
              ELSE IF ~engine.enable_provenance THEN NoProvenance
              ELSE IF ~Recorded(engine.prov, fact) THEN FactNotFound ELSE Ok
    IN  /\ engine.live
        /\ Called("derivation", rc,
                  IF rc = Ok THEN <<Walk(engine.prov, fact, depth, {}), depth>> ELSE <<fact>>)
        /\ UNCHANGED <<engine, cursors, blob>>

\* mangle_schema_snapshot, mangle_relation_names and mangle_facts_snapshot: the
\* relations of the schema with their counts
Snapshot ==
    LET rc == IF engine.poisoned THEN Panicked ELSE IF ~Loaded(engine) THEN NoRules ELSE Ok
        predicates == SchemaOf(Programs[engine.source]).predicates
    IN  /\ engine.live
        /\ Called("snapshot", rc,
                  IF rc # Ok THEN <<>>
                  ELSE <<{[name |-> r, kind |-> predicates[r].kind,
                           count |-> Len(MemScan(engine.store, r))] : r \in DOMAIN predicates}>>)
        /\ UNCHANGED <<engine, cursors, blob>>

\* mangle_engine_free, and mangle_engine_new of the next one
EngineFree ==
    /\ engine.live
    /\ Called("free", Ok, <<>>)
    /\ engine' = Freed
    /\ UNCHANGED <<cursors, blob>>

NewEngine(provenance) ==
    /\ ~engine.live /\ \A c \in Cursors : ~cursors[c].open
    /\ Called("new", Ok, <<>>)
    /\ engine' = EngineNew(provenance)
    /\ UNCHANGED <<cursors, blob>>

HostNext ==
    \/ \E source \in DOMAIN Programs \cup Broken : LoadRules(source)
    \/ \E r \in Relations : \E h \in Handles[r] : InsertFact(r, h) \/ RetractFact(r, h)
    \/ \E c \in Cursors : (\E q \in Queries : Query(c, q)) \/ CursorNext(c) \/ CursorFree(c)
    \/ \E compression \in {"gzip", "zstd"} : SaveFacts(compression)
    \/ \E q \in Queries, name \in Relations : DumpQuery(q, name)
    \/ LoadFacts \/ Snapshot \/ EngineFree \/ Panic
    \/ \E f \in Visible(engine), depth \in {1, Unlimited} : DerivationTree(f, depth)
    \/ \E provenance \in BOOLEAN : NewEngine(provenance)

----------------------------------------------------------------------------
(* Properties *)

\* A cursor gives the rows its query matched when it was opened, in order, each
\* once, whatever the host inserts, retracts or loads in between; and once the
\* engine was loaded again or poisoned it gives none.
CursorIsSnapshot ==
    [][\A c \in Cursors :
          cursors'[c].yielded \notin {cursors[c].yielded, <<>>}
          => /\ ~cursors[c].outdated
             /\ cursors'[c].yielded = SubSeq(cursors[c].snapshot, 1, Len(cursors[c].yielded) + 1)]_hostVars

\* The status and the answer of a call say what it did.  A call that fails
\* leaves program, facts and derivations as they were; an insert or a load of
\* facts that succeeds is seen by the next query, and only an insert that
\* changed something says so; after a retraction the fact is gone, and it was
\* there when the answer says so (the converse fails: MemStore::retract does
\* not report a fact of the delta, where execution leaves the last stratum);
\* facts of numbers and texts come back from a file; a derivation tree without
\* a limit explains a fact down to clauses without premises, unless the fact is of no clause.
AnswersAreTrue ==
    [][LET fact == <<last'.out[1], last'.out[2]>>
           ok(call) == last'.call = call /\ last'.rc = Ok
           fits(f) == engine.store.arity[f[1]] \in {-1, Len(f[2])}
       IN  /\ last'.rc \notin {Ok, End} =>
                [engine' EXCEPT !.poisoned = engine.poisoned, !.generation = engine.generation] = engine
           /\ ok("insert") =>
                /\ last'.out[3] = (fits(fact) /\ fact \notin Visible(engine))
                /\ fits(fact) => Visible(engine') = Visible(engine) \cup {fact}
           /\ ok("retract") =>
                /\ Visible(engine') = Visible(engine) \ {fact}
                /\ last'.out[3] => fact \in Visible(engine)
           /\ ok("load_facts") =>
                {f \in FactsOf(blob) : fits(f) /\ \A i \in DOMAIN f[2] : f[2][i].k \in {"num", "string"}}
                \subseteq Visible(engine')
           /\ ok("derivation") /\ last'.out[2] = Unlimited =>
                \/ Explains(last'.out[1])
                \/ last'.out[1].fact[1] \notin Heads(Programs[engine.source])]_hostVars
=============================================================================
