------------------------------ MODULE FrontEnd ------------------------------
(***************************************************************************)
(* compile_units of crates/mangle-driver/src/lib.rs up to the bounds       *)
(* check: every source is parsed (Syntax) and its predicates get their     *)
(* package (rename.rs), then the program is stratified                     *)
(* (stratification.rs) and lowered to instructions (lowering.rs).          *)
(*                                                                         *)
(* The iteration order of the hash maps is arbitrary: an order of the      *)
(* predicates for the keys of maps and sets, and one for edges.            *)
(***************************************************************************)
EXTENDS Texts, Relation

CONSTANTS Written,      \* [program, style]: names of programs and styles of their texts
          UnitsOf(_)    \* the author's units of a program

VARIABLES text,         \* one of Written
          phase,        \* reading, refused, read, unstratified, stratified, lowered or idle
          merged,       \* [decls, clauses] of the units read, with their packages
          unread,       \* number of units still to read
          strata,       \* sequence of sets of predicates
          ir            \* instructions

frontVars == <<text, phase, merged, unread, strata, ir>>

\* The styles: plain, sugar, tight (plain without spaces) and pretty
Lexemes(unit, style) ==
    IF style = "pretty" THEN PrettyUnit(unit) ELSE UnitText(unit, style = "sugar")

SourceText(unit, style) == Laid(Lexemes(unit, style), style \in {"plain", "sugar"})

----------------------------------------------------------------------------
(* rename.rs *)

\* find_name_desc
NameDesc(descr) ==
    LET names == SelectSeq(descr, LAMBDA a : /\ a.pred = "name" /\ a.args # <<>>
                                             /\ a.args[1].kind = "String")
    IN  IF names = <<>> THEN <<>> ELSE <<names[1].args[1].name[2]>>

\* find_package_info; the packages used make no difference
PackageName(unit) ==
    LET packages == SelectSeq(unit.decls, LAMBDA d : d.atom.pred = "Package" /\ NameDesc(d.descr) # <<>>)
    IN  IF packages = <<>> THEN "" ELSE NameDesc(Last(packages).descr)[1]

\* Mutant of DefinedPreds: only what is declared belongs to the package.
DefinedPredsDeclared(unit) == {d.atom.pred : d \in ToSet(unit.decls)}

\* find_defined_preds
DefinedPreds(unit) ==
    {d.atom.pred : d \in ToSet(unit.decls)} \cup {c.head.pred : c \in ToSet(unit.clauses)}

\* rename_pred
RenamePred(pkg, defined, pred) ==
    IF pred \notin {"Package", "Use"} /\ pred \in defined THEN pkg \o "." \o pred ELSE pred

\* rewrite_clause; comparisons have no predicate
RewriteClause(pkg, defined, c) ==
    [c EXCEPT !.head.pred = RenamePred(pkg, defined, @),
              !.premises = [i \in DOMAIN @ |->
                              IF @[i].kind \in {"Eq", "Ineq"} THEN @[i]
                              ELSE [@[i] EXCEPT !.pred = RenamePred(pkg, defined, @)]]]

\* rewrite_unit and rewrite_decl: without a package nothing changes, with one the
\* Package and Use declarations go.
RewriteUnit(unit) ==
    LET pkg     == PackageName(unit)
        defined == DefinedPreds(unit)
        decls   == SelectSeq(unit.decls, LAMBDA d : d.atom.pred \notin {"Package", "Use"})
    IN  IF pkg = "" THEN unit
        ELSE [decls   |-> [i \in DOMAIN decls |->
                             [decls[i] EXCEPT !.atom.pred = RenamePred(pkg, defined, @)]],
              clauses |-> [i \in DOMAIN unit.clauses |->
                             RewriteClause(pkg, defined, unit.clauses[i])]]

----------------------------------------------------------------------------
(* stratification.rs *)

IsAtomic(p) == p.kind \in {"Atom", "NegAtom", "TemporalAtom"}

\* Program: the predicates that have clauses
Intensional(clauses) == {c.head.pred : c \in ToSet(clauses)}

\* Mutant of Negated: an aggregation reads like any other rule.
NegatedOnly(c, p) == p.kind = "NegAtom"

\* A premise that has to be complete: negated, or of a rule that starts with a do
Negated(c, p) == p.kind = "NegAtom" \/ (c.transforms # <<>> /\ c.transforms[1].var = <<>>)

\* make_dep_graph and add_edge: per predicate the predicates it reads, and whether
\* some premise is negated
DepGraph(clauses) ==
    LET idb == Intensional(clauses)
        premises(p) == {<<c, t>> \in UNION {{c} \X ToSet(c.premises) : c \in ToSet(clauses)} :
                          c.head.pred = p /\ IsAtomic(t) /\ t.pred \in idb}
    IN  [p \in idb |->
           [q \in {ct[2].pred : ct \in premises(p)} |->
              \E ct \in premises(p) : ct[2].pred = q /\ Negated(ct[1], ct[2])]]

\* visit, in the order of edges: nodes in the order in which they are left
RECURSIVE Visit(_, _, _, _)
Visit(dep, edges, st, node) ==
    IF node \in st.seen THEN st
    ELSE LET into == SelectSeq(edges, LAMBDA q : q \in DOMAIN dep[node])
             st1  == FoldLeft(LAMBDA acc, q : Visit(dep, edges, acc, q),
                              [st EXCEPT !.seen = @ \cup {node}], into)
         IN  [st1 EXCEPT !.left = Append(@, node)]

\* rvisit: the nodes not seen that reach a node
RECURSIVE ReverseVisit(_, _, _)
ReverseVisit(dep, seen, node) ==
    IF node \in seen THEN seen
    ELSE FoldFunction(LAMBDA q, acc : ReverseVisit(dep, acc, q), seen \cup {node},
                      [q \in {q \in DOMAIN dep : node \in DOMAIN dep[q]} |-> q])

\* sccs: Kosaraju's algorithm
Sccs(dep, keys, edges) ==
    LET left == FoldLeft(LAMBDA st, node : Visit(dep, edges, st, node),
                         [seen |-> {}, left |-> <<>>], keys).left
        Next1(acc, node) ==
            LET seen == ReverseVisit(dep, acc.seen, node)
            IN  IF node \in acc.seen THEN acc
                ELSE [seen |-> seen, sccs |-> Append(acc.sccs, seen \ acc.seen)]
    IN  FoldLeft(Next1, [seen |-> {}, sccs |-> <<>>], Reverse(left)).sccs

\* Program::stratify: no negated edge within a component
Stratifiable(dep, sccs) ==
    \A c \in ToSet(sccs) : \A p, q \in c : q \in DOMAIN dep[p] => ~dep[p][q]

\* visit_stratum: a stratum after those it reads
RECURSIVE VisitStratum(_, _, _, _, _, _)
VisitStratum(dep, sccs, keys, edges, sorted, i) ==
    LET \* the strata on the way down are seen, and not yet sorted
        reads(p) == SelectSeq(edges, LAMBDA q : q \in DOMAIN dep[p])
        below == FlattenSeq([k \in 1..Len(keys) |->
                               IF keys[k] \in sccs[i] THEN reads(keys[k]) ELSE <<>>])
        index(q) == CHOOSE j \in DOMAIN sccs : q \in sccs[j]
        Down(st, q) == VisitStratum(dep, sccs, keys, edges, st, index(q))
        st1 == FoldLeft(Down, [sorted EXCEPT !.seen = @ \cup {i}], below)
    IN  IF i \in sorted.seen THEN sorted ELSE [st1 EXCEPT !.left = Append(@, i)]

\* sort_result
SortResult(dep, sccs, keys, edges) ==
    LET order == FoldLeft(LAMBDA st, i : VisitStratum(dep, sccs, keys, edges, st, i),
                          [seen |-> {}, left |-> <<>>], [i \in DOMAIN sccs |-> i]).left
    IN  [n \in DOMAIN order |-> sccs[order[n]]]

----------------------------------------------------------------------------
(* lowering.rs *)

Inst(kind, name, args) == [kind |-> kind, name |-> name, args |-> args]

\* The context: instructions, the variables of the clause, and the last id
NewContext == [insts |-> <<>>, vars |-> <<>>, id |-> 0, temporal |-> {}]

AddInst(ctx, inst) == [ctx EXCEPT !.insts = Append(@, inst), !.id = Len(ctx.insts) + 1]

Cleared(ctx) == [ctx EXCEPT !.vars = <<>>]

\* Mutant of LowerVar: the variables of the clause are not remembered.
LowerVarAnew(ctx, name) == AddInst(ctx, Inst("Var", name, <<>>))

\* A variable of the clause has one instruction
LowerVar(ctx, name) ==
    IF name \in DOMAIN ctx.vars THEN [ctx EXCEPT !.id = ctx.vars[name]]
    ELSE LET new == AddInst(ctx, Inst("Var", name, <<>>))
         IN  [new EXCEPT !.vars = (name :> new.id) @@ @]

\* lower_base_term and lower_const
RECURSIVE LowerTerm(_, _)
LowerTerm(ctx, t) ==
    LET Arg(acc, a) == LET c == LowerTerm(acc.ctx, a) IN [ctx |-> c, ids |-> Append(acc.ids, c.id)]
        args == FoldLeft(Arg, [ctx |-> ctx, ids |-> <<>>], t.args)
    IN  IF t.kind = "Var" THEN LowerVar(ctx, t.name)
        ELSE AddInst(args.ctx, Inst(t.kind, t.name, args.ids))

\* The ends of time as i64::MIN and i64::MAX
EndOfTime == [NegInf |-> Tim(-1000000), PosInf |-> Tim(1000000)]

\* lower_temporal_bound, as the term that has the same instruction
BoundTerm(b) == IF b.k \in DOMAIN EndOfTime THEN EndOfTime[b.k] ELSE b.v

\* lower_atom, and lower_temporal_atom with two columns more
LowerAtom(ctx, atom, time) ==
    LET columns == atom.args \o [i \in DOMAIN time |-> BoundTerm(time[i])]
        lowered == LowerTerm(ctx, Term("Atom", <<atom.pred>>, columns))
    IN  [lowered EXCEPT !.temporal = IF time = <<>> THEN @ ELSE @ \cup {atom.pred}]

\* lower_term
LowerPremise(ctx, p) ==
    LET atom == LowerAtom(ctx, p, p.time)
    IN  CASE p.kind = "NegAtom" -> AddInst(atom, Inst("NegAtom", <<>>, <<atom.id>>))
          [] p.kind \in {"Eq", "Ineq"} -> LowerTerm(ctx, Term(p.kind, <<>>, p.args))
          [] OTHER -> atom

\* lower_transform
LowerTransform(ctx, t) ==
    LET app == LowerTerm(ctx, t.app) IN AddInst(app, Inst("Transform", t.var, <<app.id>>))

Keep(acc, ctx) == [ctx |-> ctx, ids |-> Append(acc.ids, ctx.id)]

\* lower_clause
LowerClause(ctx, c) ==
    LET head  == LowerAtom(Cleared(ctx), c.head, c.time)
        body  == FoldLeft(LAMBDA acc, p : Keep(acc, LowerPremise(acc.ctx, p)),
                          [ctx |-> head, ids |-> <<>>], c.premises)
        trans == FoldLeft(LAMBDA acc, t : Keep(acc, LowerTransform(acc.ctx, t)),
                          [ctx |-> body.ctx, ids |-> <<>>], c.transforms)
    IN  AddInst(trans.ctx, Inst("Rule", <<>>, <<<<head.id>>, body.ids, trans.ids>>))

\* lower_decl
LowerDecl(ctx, d) ==
    LET Atoms(acc, as) == FoldLeft(LAMBDA a, x : Keep(a, LowerAtom(a.ctx, x, <<>>)),
                                   [ctx |-> acc, ids |-> <<>>], as)
        Bounds1(acc, b) == Keep(acc, LowerTerm(acc.ctx, Term("BoundDecl", <<>>, b)))
        start  == [Cleared(ctx) EXCEPT !.temporal = IF d.temporal THEN @ \cup {d.atom.pred} ELSE @]
        atom   == LowerAtom(start, d.atom, <<>>)
        descr  == Atoms(atom, d.descr)
        bounds == FoldLeft(Bounds1, [ctx |-> descr.ctx, ids |-> <<>>], d.bounds)
        incl   == Atoms(bounds.ctx, d.inclusion)
    IN  AddInst(incl.ctx, Inst("Decl", <<>>, <<<<atom.id>>, descr.ids, bounds.ids, incl.ids>>))

\* lower_unit
LowerUnit(unit) ==
    FoldLeft(LowerClause, FoldLeft(LowerDecl, NewContext, unit.decls), unit.clauses)

----------------------------------------------------------------------------
(* compile_units *)

Units == UnitsOf(text.program)

FrontInit ==
    /\ text \in Written
    /\ phase = "reading"
    /\ merged = [decls |-> <<>>, clauses |-> <<>>]
    /\ unread = Len(Units)
    /\ strata = <<>> /\ ir = NewContext

\* One source: parse_unit and rewrite_unit
ReadUnit ==
    /\ phase = "reading" /\ unread > 0
    /\ \E parsed \in {ParseText(SourceText(Units[Len(Units) - unread + 1], text.style))} :
       LET unit == RewriteUnit(parsed.node)
       IN  IF parsed.ok
           THEN /\ merged' = [decls   |-> merged.decls \o unit.decls,
                              clauses |-> merged.clauses \o unit.clauses]
                /\ unread' = unread - 1
                /\ phase' = IF unread = 1 THEN "read" ELSE phase
           ELSE phase' = "refused" /\ UNCHANGED <<merged, unread>>
    /\ UNCHANGED <<text, strata, ir>>

Orders(S) == {s \in [1..Cardinality(S) -> S] : ToSet(s) = S}

\* Program::stratify
Stratify ==
    /\ phase = "read"
    /\ LET dep == DepGraph(merged.clauses)
       IN  \E keys, edges \in Orders(DOMAIN dep) :
             LET sccs == Sccs(dep, keys, edges)
             IN  IF Stratifiable(dep, sccs)
                 THEN phase' = "stratified" /\ strata' = SortResult(dep, sccs, keys, edges)
                 ELSE phase' = "unstratified" /\ UNCHANGED strata
    /\ UNCHANGED <<text, merged, unread, ir>>

\* LoweringContext::lower_unit
Lower ==
    /\ phase = "stratified"
    /\ phase' = "lowered"
    /\ ir' = LowerUnit(merged)
    /\ UNCHANGED <<text, merged, unread, strata>>

FrontNext == ReadUnit \/ Stratify \/ Lower

----------------------------------------------------------------------------
(* What the author means: predicates are the paths that their package gives *)
(* them, intervals are two more columns.                                    *)

Defines(unit, path) == \E x \in ToSet(unit.clauses) : x.head.pred = path
Declares(unit, path) == \E x \in ToSet(unit.decls) : x.atom.pred = path

\* The path of a predicate in a unit: the unit's own, or the one written
Resolved1(unit, path) ==
    IF unit.package # "" /\ (Defines(unit, path) \/ Declares(unit, path))
    THEN <<unit.package>> \o path ELSE path

AtomMeant(unit, a, time) ==
    Term("Atom", <<Dotted(Resolved1(unit, a.pred))>>,
         a.args \o [i \in DOMAIN time |-> BoundTerm(time[i])])

PremiseMeant(unit, p) ==
    CASE p.kind = "NegAtom" -> Term("NegAtom", <<>>, <<AtomMeant(unit, p, <<>>)>>)
      [] p.kind \in {"Eq", "Ineq"} -> Term(p.kind, <<>>, p.args)
      [] OTHER -> AtomMeant(unit, p, p.time)

\* A clause as one term: its head, its premises, its transforms
ClauseMeant(unit, c) ==
    Term("Rule", <<>>,
         <<Term("Part", <<>>, <<AtomMeant(unit, c.head, c.time)>>),
           Term("Part", <<>>, [i \in DOMAIN c.premises |-> PremiseMeant(unit, c.premises[i])]),
           Term("Part", <<>>, [i \in DOMAIN c.transforms |->
                                 Term("Transform", c.transforms[i].var, <<c.transforms[i].app>>)])>>)

DeclMeant(unit, d) ==
    LET atoms(as) == Term("Part", <<>>, [i \in DOMAIN as |-> Term("Atom", <<Dotted(as[i].pred)>>, as[i].args)])
    IN  Term("Decl", <<>>,
             <<Term("Part", <<>>, <<AtomMeant(unit, d.atom, <<>>)>>), atoms(d.descr),
               Term("Part", <<>>, [i \in DOMAIN d.bounds |-> Term("BoundDecl", <<>>, d.bounds[i])]),
               atoms(d.inclusion)>>)

\* What an instruction says
RECURSIVE Raised(_, _)
Raised(insts, id) ==
    LET inst == insts[id]
        part(ids) == Term("Part", <<>>, [i \in DOMAIN ids |-> Raised(insts, ids[i])])
    IN  Term(inst.kind, inst.name,
             IF inst.kind \in {"Rule", "Decl"} THEN [i \in DOMAIN inst.args |-> part(inst.args[i])]
             ELSE [i \in DOMAIN inst.args |-> Raised(insts, inst.args[i])])

\* The instructions of variables that an instruction reaches
RECURSIVE VarIds(_, _)
VarIds(insts, id) ==
    LET inst == insts[id]
        next == IF inst.kind \in {"Rule", "Decl"} THEN UNION {ToSet(ids) : ids \in ToSet(inst.args)}
                ELSE ToSet(inst.args)
    IN  IF inst.kind = "Var" THEN {id} ELSE UNION {VarIds(insts, i) : i \in next}

IsWild(t) == t.kind = "Var" /\ t.name = <<"_">>

RECURSIVE Wilds(_)
Wilds(t) == IF IsWild(t) THEN 1 ELSE FoldLeft(LAMBDA n, a : n + Wilds(a), 0, t.args)

RECURSIVE VarNames(_)
VarNames(t) == IF t.kind = "Var" THEN {t.name} ELSE UNION {VarNames(a) : a \in ToSet(t.args)}

\* The same but for wildcards, which are variables
RECURSIVE SameTerm(_, _)
SameTerm(meant, t) ==
    IF IsWild(meant) THEN t.kind = "Var"
    ELSE /\ meant.kind = t.kind /\ meant.name = t.name /\ Len(meant.args) = Len(t.args)
         /\ \A i \in DOMAIN meant.args : SameTerm(meant.args[i], t.args[i])

\* ... variables of their own
SameClause(meant, t) ==
    /\ SameTerm(meant, t)
    /\ LET named == VarNames(meant) \ {<<"_">>}
       IN  Cardinality(VarNames(t) \ named) = Wilds(meant)

----------------------------------------------------------------------------
(* Properties *)

\* The clauses that are printed as they are parsed: without transforms, intervals,
\* instants and wildcards
RECURSIVE PlainTerm(_)
PlainTerm(t) == t.kind # "Time" /\ ~IsWild(t) /\ \A a \in ToSet(t.args) : PlainTerm(a)

PlainClause(c) ==
    /\ c.time = <<>> /\ c.transforms = <<>> /\ \A a \in ToSet(c.head.args) : PlainTerm(a)
    /\ \A p \in ToSet(c.premises) : p.time = <<>> /\ \A a \in ToSet(p.args) : PlainTerm(a)

Legible(unit) ==
    /\ text.style \in {"tight", "pretty"} => ~HasCrowded(Lexemes(unit, text.style))
    /\ text.style = "pretty" =>
         /\ unit.package = "" /\ unit.uses = <<>> /\ unit.decls = <<>>
         /\ \A c \in ToSet(unit.clauses) : PlainClause(c)

AllLegible == \A u \in ToSet(Units) : Legible(u)

\* The author's units and clauses in the order of compile_units
ClausesMeant == FlattenSeq([i \in DOMAIN Units |->
    [j \in DOMAIN Units[i].clauses |-> ClauseMeant(Units[i], Units[i].clauses[j])]])
DeclsMeant == FlattenSeq([i \in DOMAIN Units |->
    [j \in DOMAIN Units[i].decls |-> DeclMeant(Units[i], Units[i].decls[j])]])

IdsOf(kind) == SelectSeq([i \in DOMAIN ir.insts |-> i], LAMBDA i : ir.insts[i].kind = kind)
IsHeader(id) == Raised(ir.insts, id).args[1].args[1].name[1] \in {"Package", "Use"}

\* A text that leaves its tokens apart is compiled to the instructions of what its
\* author wrote, in plain syntax, with sugar or pretty-printed: no clause or
\* declaration is lost or read as another, every variable of a clause has one
\* instruction of its own, and every wildcard is a variable of its own.
CompilesWhatIsWritten ==
    phase \in {"refused", "lowered"} /\ AllLegible =>
        /\ phase = "lowered"
        /\ LET rules == IdsOf("Rule")
               decls == SelectSeq(IdsOf("Decl"), LAMBDA id : ~IsHeader(id))
           IN  /\ Len(rules) = Len(ClausesMeant) /\ Len(decls) = Len(DeclsMeant)
               /\ \A i \in DOMAIN rules : SameClause(ClausesMeant[i], Raised(ir.insts, rules[i]))
               /\ \A i \in DOMAIN decls : SameTerm(DeclsMeant[i], Raised(ir.insts, decls[i]))
               /\ \A i, j \in DOMAIN rules :
                    \A v \in VarIds(ir.insts, rules[i]), w \in VarIds(ir.insts, rules[j]) :
                        (v = w) = (i = j /\ ir.insts[v].name = ir.insts[w].name)

\* The author's clauses in the order of merged.clauses
Authored == FlattenSeq([i \in DOMAIN Units |->
    [j \in DOMAIN Units[i].clauses |-> [unit |-> Units[i], clause |-> Units[i].clauses[j]]]])

\* A premise reads the clauses of the predicate that its unit gives the name to: its
\* own when it has one, of whatever other package only with the package's name; no
\* package captures a name of another.
PackagesStayApart ==
    phase \notin {"reading", "refused", "idle"} /\ AllLegible =>
        \A i, j \in DOMAIN merged.clauses :
            LET from == Authored[i]
                to   == Authored[j]
                ps   == merged.clauses[i].premises
            IN  \A k \in DOMAIN ps : IsAtomic(ps[k]) =>
                    (ps[k].pred = merged.clauses[j].head.pred)
                    = (Resolved1(from.unit, from.clause.premises[k].pred)
                       = Resolved1(to.unit, to.clause.head.pred))

\* The predicates that one reads, directly or through others
ReadsOf(clauses) ==
    LET idb == Intensional(clauses)
    IN  [p, q \in idb |-> \E c \in ToSet(clauses) : c.head.pred = p
                             /\ \E t \in ToSet(c.premises) : IsAtomic(t) /\ t.pred = q]

\* The pairs of which the first has to see all of the second
NeedsAllOf(clauses) ==
    {<<c.head.pred, t.pred>> : <<c, t>> \in
       {ct \in UNION {{c} \X ToSet(c.premises) : c \in ToSet(clauses)} :
          /\ IsAtomic(ct[2]) /\ ct[2].pred \in Intensional(clauses)
          /\ \/ ct[2].kind = "NegAtom"
             \/ \E s \in ToSet(ct[1].transforms) : s.var = <<>>}}

\* The strata are the groups of predicates that read each other, each after all that
\* it reads, and a negated or aggregated predicate is complete before it is read; a
\* program is refused exactly when a predicate would have to be complete before
\* itself.  Whatever order the hash maps are read in.
StrataRespectDependencies ==
    phase \in {"stratified", "unstratified"} =>
        LET idb   == Intensional(merged.clauses)
            reads == ReflexiveTransitiveClosure(ReadsOf(merged.clauses), idb)
            needs == NeedsAllOf(merged.clauses)
            of(p) == CHOOSE i \in DOMAIN strata : p \in strata[i]
        IN  /\ (phase = "unstratified") = \E pq \in needs : reads[pq[2], pq[1]]
            /\ phase = "stratified" =>
                 /\ UNION ToSet(strata) = idb
                 /\ \A i, j \in DOMAIN strata : i # j => strata[i] \cap strata[j] = {}
                 /\ \A p, q \in idb :
                      /\ reads[p, q] => of(q) <= of(p)
                      /\ (of(p) = of(q)) = (reads[p, q] /\ reads[q, p])
                 /\ \A pq \in needs : of(pq[2]) < of(pq[1])
=============================================================================
