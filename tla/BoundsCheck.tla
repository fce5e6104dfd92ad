----------------------------- MODULE BoundsCheck -----------------------------
(***************************************************************************)
(* Type inference for rules and the check against declared bounds:         *)
(* `BoundsChecker` of crates/mangle-analysis/src/bounds_check.rs.          *)
(*                                                                         *)
(* Inference carries a state: the types of the variables so far (ranges),  *)
(* whether the rule failed (ok), whether a function was applied to what it *)
(* does not take (args, reported when all clauses are done), the types     *)
(* inferred for predicates without a declaration (cache), and the number of*)
(* type variables made up.                                                 *)
(***************************************************************************)
EXTENDS RuleSafety

Base(b) == Name(<<b>>)
NumOrFloat == Fn("Union", <<Base("number"), Base("float64")>>)
Either(a, b) == Fn("Union", <<Base(a), Base(b)>>)

Meet(a, b) == LowerBound(<<>>, <<a, b>>)

----------------------------------------------------------------------------
(* bound_of_arg, bound_of_apply_fn *)

\* The result types that do not depend on the arguments
FixedResult ==
    LET to(fs, b) == [f \in fs |-> Base(b)]
    IN  to({"plus", "minus", "mult", "div", "count", "sum", "max", "min", "list:len", "len",
            "map:len", "struct:len", "time:year", "time:month", "time:day", "time:hour",
            "time:minute", "time:second", "time:to_unix_nanos", "duration:nanos"}, "number")
        @@ to({"float:plus", "float:minus", "float:mult", "float:div", "float:sum",
               "float:max", "float:min", "sqrt", "duration:hours", "duration:minutes",
               "duration:seconds"}, "float64")
        @@ to({"string:concat", "string:replace", "number:to_string", "float64:to_string",
               "name:to_string", "time:format", "time:format_civil"}, "string")
        @@ to({"time:now", "time:add", "time:from_unix_nanos", "time:parse_rfc3339",
               "time:parse_civil", "time:trunc"}, "time")
        @@ to({"duration:add", "duration:mult", "duration:from_nanos", "duration:from_hours",
               "duration:from_minutes", "duration:from_seconds", "duration:parse"}, "duration")

\* The i-th argument of a type constructor, /any of anything else
PartOf(type, f, n, i) == IF IsFn(type, f) /\ Len(type.args) = n THEN type.args[i] ELSE AnyType

\* Mutant of ListOf: the type of the first element.
ListOfFirst(types) == Fn("List", <<IF types = <<>> THEN Base("bot") ELSE types[1]>>)

ListOf(types) ==
    Fn("List", <<IF types = <<>> THEN Base("bot") ELSE UpperBound(<<>>, types)>>)

FirstOr(found, type) == IF found # <<>> THEN found[1] ELSE type

FieldOr(type, field) ==
    IF IsName(field) THEN FirstOr(FieldDeep(type, field.name), AnyType) ELSE AnyType

RECURSIVE BoundOf(_, _, _)

\* The result types that do; trie is the set of names the declarations mention.
ApplyBound(trie, ranges, f, args) ==
    LET n == Len(args)
        of(i) == BoundOf(trie, ranges, args[i])
        all == [i \in DOMAIN args |-> of(i)]
        fields == StructTypeFields(of(1))
        elements == CASE f = "list" -> all
                      [] f = "list:append" -> <<PartOf(of(1), "List", 1, 1), of(2)>>
                      [] fields = <<>> -> <<AnyType>>
                      [] OTHER -> [i \in DOMAIN fields |-> fields[i].type]
    IN  CASE <<f, n>> \in {<<"list", n>>, <<"list:append", 2>>, <<"struct:values", 1>>} ->
               ListOf(elements)
          [] f = "map"    -> Fn("Map", [i \in 1..2 |->
                                          UpperBound(<<>>, IF i = 1 THEN Odds(all) ELSE Evens(all))])
          [] f = "struct" -> Fn("Struct", [i \in 1..2 * (n \div 2) |->
                                             IF i % 2 = 1 THEN args[i] ELSE all[i]])
          [] f = "tuple"  -> Fn("Tuple", all)
          [] f = "pair" /\ n = 2        -> Fn("Pair", all)
          [] f = "pair:first" /\ n = 1  -> PartOf(of(1), "Pair", 2, 1)
          [] f = "pair:second" /\ n = 1 -> PartOf(of(1), "Pair", 2, 2)
          [] f = "struct:get" /\ n = 2  -> FieldOr(of(1), args[2])
          [] f = "list:get" /\ n = 2    -> PartOf(of(1), "List", 1, 1)
          [] f = "map:get" /\ n = 2     -> PartOf(of(1), "Map", 2, 2)
          [] f = "map:keys" /\ n = 1    -> Fn("List", <<PartOf(of(1), "Map", 2, 1)>>)
          [] f = "map:values" /\ n = 1  -> Fn("List", <<PartOf(of(1), "Map", 2, 2)>>)
          [] f \in {"collect", "collect_distinct"} ->
               Fn("List", IF n = 1 THEN <<of(1)>> ELSE <<AnyType>>)
          [] f = "time:sub" /\ n >= 2 ->
               IF SetConforms(<<>>, of(2), Base("duration")) THEN Base("time")
               ELSE IF IsBase(of(2), "any") THEN AnyType ELSE Base("duration")
          [] OTHER -> AnyType

KindType ==
    [Number |-> "number", Float |-> "float64", String |-> "string", Bool |-> "bool",
     Time |-> "time", Duration |-> "duration", Bytes |-> "bytes"]

\* A name has the longest declared prefix as its type.
BoundOf(trie, ranges, t) ==
    CASE IsVar(t)  -> IF t.name \in DOMAIN ranges THEN ranges[t.name] ELSE AnyType
      [] IsName(t) -> Name(PrefixName(trie, t.name))
      [] t.kind \in DOMAIN KindType -> Base(KindType[t.kind])
      [] t.kind = "ApplyFn" /\ t.name[1] \in DOMAIN FixedResult -> FixedResult[t.name[1]]
      [] t.kind \in {"ApplyFn", "List", "Map", "Struct"} ->
           ApplyBound(trie, ranges, ConstructorOf(t), t.args)
      [] OTHER -> AnyType

----------------------------------------------------------------------------
(* check_fn_arg_types *)

Times(n, type) == [i \in 1..n |-> type]

\* Mutant of Expected: fn:duration:mult takes two durations.
ExpectedDurations(f, n) == IF f = "duration:mult" THEN Times(n, Base("duration")) ELSE <<>>

\* What each of n arguments must be able to be; there may be more arguments.
Expected(f, n) ==
    LET bases(bs) == [i \in DOMAIN bs |-> Base(bs[i])]
    IN  CASE f \in IntFns \cup {"sum", "max", "min"} -> Times(n, Base("number"))
          [] f \in FloatFns \cup {"float:sum", "float:max", "float:min"} -> Times(n, NumOrFloat)
          [] f = "string:replace" -> bases(<<"string", "string", "string", "number">>)
          [] f \in {"time:year", "time:month", "time:day", "time:hour", "time:minute",
                    "time:second", "time:to_unix_nanos", "time:trunc", "time:format"} ->
               bases(<<"time">>)
          [] f \in {"time:from_unix_nanos", "duration:from_nanos", "duration:from_hours",
                    "duration:from_minutes", "duration:from_seconds"} -> bases(<<"number">>)
          [] f \in {"time:parse_rfc3339", "duration:parse"} -> bases(<<"string">>)
          [] f = "time:parse_civil"  -> bases(<<"string", "string">>)
          [] f = "time:format_civil" -> bases(<<"time", "string", "name">>)
          [] f = "time:add" -> bases(<<"time", "duration">>)
          [] f = "time:sub" -> <<Base("time"), Either("time", "duration")>>
          [] f = "duration:add" -> bases(<<"duration", "duration">>)
          [] f = "duration:mult" -> IF n < 2 THEN <<>> ELSE Times(2, Either("duration", "number"))
          [] f \in {"duration:hours", "duration:minutes", "duration:seconds", "duration:nanos"} ->
               bases(<<"duration">>)
          [] OTHER -> <<>>

\* The arguments whose bound is computed: of a function that neither expects
\* anything nor has a result that depends on its arguments none is.
Inspected(f, n) ==
    CASE f \in {"list", "tuple"} -> 1..n
      [] f = "map" -> 1..2 * (n \div 2)
      [] f = "struct" -> {i \in 1..n : i % 2 = 0}
      [] f \in {"pair", "list:append"} /\ n = 2 -> 1..2
      [] f \in {"struct:get", "list:get", "map:get"} /\ n = 2 -> {1}
      [] f \in {"pair:first", "pair:second", "map:keys", "map:values", "struct:values", "collect",
                "collect_distinct"} /\ n = 1 -> {1}
      [] OTHER -> 1..Min({n, Len(Expected(f, n))})

\* No function in t, as far as its bound is computed, is applied to what it
\* cannot take.
RECURSIVE ArgsFit(_, _, _)
ArgsFit(trie, ranges, t) ==
    LET want == Expected(t.name[1], Len(t.args))
    IN  CASE t.kind = "ApplyFn" ->
               /\ \A i \in DOMAIN want \cap DOMAIN t.args :
                    ~IsEmpty(Meet(BoundOf(trie, ranges, t.args[i]), want[i]))
               /\ \A i \in Inspected(t.name[1], Len(t.args)) : ArgsFit(trie, ranges, t.args[i])
          [] t.kind \in {"List", "Map", "Struct"} ->
               \A a \in ToSet(t.args) : ArgsFit(trie, ranges, a)
          [] OTHER -> TRUE

----------------------------------------------------------------------------
(* InferState.  g is the program with the names its declarations mention.  *)

Fresh(cache, args, fresh) ==
    [ok |-> TRUE, args |-> args, ranges |-> <<>>, cache |-> cache, fresh |-> fresh]

Failed(st) == [st EXCEPT !.ok = FALSE]

TypeIn(g, st, t) == BoundOf(g.trie, st.ranges, t)

\* Computing the bounds of terms reports the functions in them.
Inspect(g, st, ts) == [st EXCEPT !.args = @ /\ \A t \in ToSet(ts) : ArgsFit(g.trie, st.ranges, t)]

Narrow(st, name, met, otherwise) ==
    IF IsEmpty(met) THEN otherwise ELSE [st EXCEPT !.ranges[name] = met]

\* A variable without a type takes the type, one that has a type the meet.
Narrowed(st, t, type, otherwise) ==
    IF ~IsVar(t) THEN st
    ELSE IF t.name \notin DOMAIN st.ranges THEN [st EXCEPT !.ranges = (t.name :> type) @@ @]
    ELSE Narrow(st, t.name, Meet(st.ranges[t.name], type), otherwise)

\* add_or_refine_with_ir: an empty meet leaves the type as it is.
AddOrRefine(st, t, type) == Narrowed(st, t, type, st)

\* refine_var: an empty meet is an error.
Refine(st, t, type) == Narrowed(st, t, type, Failed(st))

IfOk(st, next) == IF st.ok THEN next ELSE st

RefineIfOk(st, t, type) == IfOk(st, Refine(st, t, type))

----------------------------------------------------------------------------
(* feasible_alternatives *)

\* The alternative with its type variables renamed, n-th of its call
Skolem(alt, fresh, n) ==
    LET vars == UNION {TypeVars(t) : t \in ToSet(alt)}
        new(v) == <<"?X", fresh, n>> \o v
    IN  [subst |-> [v \in vars |-> Term("Var", new(v), <<>>)],
         ctx   |-> [w \in {new(v) : v \in vars} |-> AnyType]]

\* The meet of an alternative with the bounds of the arguments; an unbound
\* variable takes the declared type.
MeetAlternative(g, st, alt, args, n) ==
    LET sk == Skolem(alt, st.fresh, n)
    IN  [i \in DOMAIN alt |->
           LowerBound(sk.ctx,
                      <<ApplySubst(IF IsVar(args[i]) /\ args[i].name \notin DOMAIN st.ranges
                                   THEN alt[i] ELSE TypeIn(g, st, args[i]), sk.subst),
                        ApplySubst(alt[i], sk.subst)>>)]

NoneEmpty(alts) == SelectSeq(alts, LAMBDA m : \A t \in ToSet(m) : ~IsEmpty(t))

Feasible(g, st, alts, args) ==
    LET fit == SelectSeq([n \in DOMAIN alts |-> n], LAMBDA n : Len(alts[n]) = Len(args))
    IN  [st   |-> [Inspect(g, st, IF fit = <<>> THEN <<>> ELSE args) EXCEPT !.fresh = @ + 1],
         alts |-> NoneEmpty([i \in DOMAIN fit |->
                               MeetAlternative(g, st, alts[fit[i]], args, fit[i])])]

----------------------------------------------------------------------------
(* infer_from_premise *)

RECURSIVE InferPremise(_, _, _, _)

InferBody(g, visiting, st, premises) ==
    FoldLeft(LAMBDA s, p : IF s.ok THEN InferPremise(g, visiting, s, p) ELSE s, st, premises)

\* A let whose types conflict is an error in a rule that is checked only.
AddLet(seen, strict, var, type) ==
    Narrowed(seen, var, type, IF strict THEN Failed(seen) ELSE seen)

InferLet(g, strict, st, t) ==
    IF ~st.ok \/ t.var = <<>> THEN st
    ELSE AddLet(Inspect(g, st, <<t.app>>), strict, VarOf(t.var), TypeIn(g, st, t.app))

HeadTypes(g, st, rule) ==
    IF ~st.ok THEN [st |-> st, types |-> <<>>]
    ELSE [st    |-> Inspect(g, st, rule.head.args),
          types |-> <<[i \in DOMAIN rule.head.args |-> TypeIn(g, st, rule.head.args[i])]>>]

\* infer_rule_types and infer_clause: the premises, the lets and the head
InferClause(g, visiting, strict, outer, rule) ==
    HeadTypes(g,
        FoldLeft(LAMBDA s, t : InferLet(g, strict, s, t),
                 InferBody(g, visiting, Fresh(outer.cache, outer.args, outer.fresh), rule.premises),
                 rule.transforms), rule)

AddTypes(alts, clause) == [st |-> clause.st, alts |-> alts \o clause.types]

\* The alternatives of pred, and the state of whoever asked for them
Inferred(st, pred, all) ==
    [alts |-> all.alts,
     st   |-> [st EXCEPT !.args = all.st.args, !.fresh = all.st.fresh,
                         !.cache = IF all.alts = <<>> THEN all.st.cache
                                   ELSE (pred :> all.alts) @@ all.st.cache]]

\* infer_rel_types: one alternative per rule that can be inferred; facts do not
\* count.
InferRelation(g, visiting, st, pred) ==
    Inferred(st, pred,
        FoldLeft(LAMBDA acc, r :
                   AddTypes(acc.alts, InferClause(g, visiting \cup {pred}, FALSE, acc.st, r)),
                 [st |-> st, alts |-> <<>>],
                 SelectSeq(g.rules, LAMBDA r : ~IsFact(r) /\ r.head.pred = pred)))

FeasibleOf(g, found, args) ==
    IF found.alts = <<>> THEN found ELSE Feasible(g, found.st, found.alts, args)

\* get_or_infer_alternatives: declared, inferred before, being inferred, or
\* inferred now
Alternatives(g, visiting, st, pred, args) ==
    LET known == pred \in DOMAIN g.decls \cup DOMAIN st.cache
    IN  IF ~known /\ pred \in visiting THEN [st |-> st, alts |-> <<Times(Len(args), AnyType)>>]
        ELSE FeasibleOf(g, CASE pred \in DOMAIN g.decls -> [st |-> st, alts |-> g.decls[pred]]
                             [] pred \in DOMAIN st.cache -> [st |-> st, alts |-> st.cache[pred]]
                             [] OTHER -> InferRelation(g, visiting, st, pred), args)

\* A regular atom refines its variables by the first alternative that is
\* feasible.  The columns of the interval are times.
RefineColumns(g, p, a) ==
    LET n == DeclaredColumns(g, p)
    IN  IF a.alts = <<>> /\ p.pred \in DOMAIN g.decls THEN Failed(a.st)
        ELSE FoldLeft(LAMBDA s, t : AddOrRefine(s, t, Base("time")),
                      FoldLeft(LAMBDA s, i : RefineIfOk(s, p.args[i], a.alts[1][i]), a.st,
                               IF a.alts = <<>> THEN <<>> ELSE [i \in 1..n |-> i]),
                      SubSeq(p.args, n + 1, Len(p.args)))

InferAtom(g, visiting, st, p) ==
    RefineColumns(g, p,
        Alternatives(g, visiting, st, p.pred, SubSeq(p.args, 1, DeclaredColumns(g, p))))

\* An argument that must be able to be of a type.  An argument of a filter keeps
\* the type it has, and is of type first when it has none; any other is bound to
\* the meet.
MeetArg(st, seen, arg, met) ==
    CASE IsEmpty(met) -> Failed(seen)
      [] arg.first = <<>> -> AddOrRefine(seen, arg.t, met)
      [] IsVar(arg.t) /\ arg.t.name \notin DOMAIN st.ranges -> AddOrRefine(st, arg.t, Base(arg.first[1]))
      [] OTHER -> seen

MeetArgs(g, st, args) ==
    FoldLeft(LAMBDA s, arg :
               IF ~s.ok THEN s
               ELSE MeetArg(s, Inspect(g, s, <<arg.t>>), arg, Meet(TypeIn(g, s, arg.t), arg.type)),
             st, args)

\* infer_filter_pred
FilterArgs(p) ==
    LET want == CASE p.pred \in {":lt", ":le", ":gt", ":ge"} -> <<"number", NumOrFloat>>
                  [] p.pred \in {":time:lt", ":time:le", ":time:gt", ":time:ge"} ->
                       <<"time", Either("time", "number")>>
                  [] p.pred \in ComparisonPreds -> <<"duration", Either("duration", "number")>>
                  [] OTHER -> <<"string", Base("string")>>
    IN  [i \in DOMAIN p.args |-> [t |-> p.args[i], first |-> <<want[1]>>, type |-> want[2]]]

\* The arguments of a type of the right form
TypeArgs(type, f, n) == IF IsFn(type, f) /\ Len(type.args) = n THEN type.args ELSE <<>>

Parts(terms, types) == [i \in DOMAIN types |-> [t |-> terms[i], first |-> <<>>, type |-> types[i]]]

\* infer_match_field, infer_match_entry, infer_list_member: what must meet the
\* type of a part; types are the types of the arguments.
FieldArgs(p, types) ==
    Parts(<<p.args[3]>>, IF IsName(p.args[2]) THEN FieldDeep(types[1], p.args[2].name) ELSE <<>>)

EntryArgs(p, types)  == Parts(Tail(p.args), TypeArgs(types[1], "Map", 2))
MemberArgs(p, types) == Parts(<<p.args[1]>>, TypeArgs(types[2], "List", 1))

\* What :match_field takes apart has some type, its field is a name.
NameField(p, st) ==
    IF p.pred # ":match_field" \/ ~st.ok THEN st
    ELSE FoldLeft(LAMBDA s, i : AddOrRefine(s, p.args[i], IF i = 1 THEN AnyType ELSE Base("name")),
                  st, <<1, 2>>)

\* infer_match_prefix: the prefix is the type, not what the trie makes of it.
PrefixMeet(p, types) == Meet(types[1], IF IsName(p.args[2]) THEN p.args[2] ELSE types[2])

InferPrefix(seen, p, met) ==
    IF IsEmpty(met) THEN Failed(seen)
    ELSE Refine(AddOrRefine(seen, p.args[1], met), p.args[2], Base("name"))

\* A negated :match_prefix takes the type of its prefix out of a union; no other
\* negation refines.
InferNegation(seen, p, types) ==
    LET x == p.args[1]
    IN  IF x.name \notin DOMAIN seen.ranges \/ ~IsFn(seen.ranges[x.name], "Union") THEN seen
        ELSE Narrow(seen, x.name, RemoveFromUnion(types[2], seen.ranges[x.name]), seen)

\* A variable takes the type of the other side, first the left one.
RefineRight(st, l, r, type) ==
    IF st.ok /\ IsVar(r) THEN Refine(st, r, IF IsVar(l) THEN st.ranges[l.name] ELSE type) ELSE st

InferEq(seen, l, r, types) ==
    RefineRight(IF IsVar(l) THEN Refine(seen, l, types[2]) ELSE seen, l, r, types[1])

\* An inequality gives both sides the meet of their types, unless it is empty.
InferIneq(seen, sides, met) ==
    FoldLeft(LAMBDA s, t : IF IsEmpty(met) THEN s ELSE AddOrRefine(s, t, met), seen, sides)

Filters(p) == p.kind = "Atom" /\ p.pred \in FilterPreds \ {":match_prefix"}

\* The arguments whose bounds a premise that is no relation looks at first
Looked(p) ==
    LET n == Len(p.args)
        at == CASE p.kind = "NegAtom" ->
                     IF p.pred = ":match_prefix" /\ n >= 2 /\ IsVar(p.args[1]) THEN <<2>> ELSE <<>>
                [] p.kind = "Eq"   -> SelectSeq(<<2, 1>>, LAMBDA i : IsVar(p.args[3 - i]))
                [] p.kind = "Ineq" -> <<1, 2>>
                [] p.pred = ":match_prefix" -> IF n = 2 THEN <<1, 2>> ELSE <<>>
                [] p.pred \in {":match_field", ":match_entry"} -> IF n = 3 THEN <<1>> ELSE <<>>
                [] p.pred = ":list:member" -> IF n = 2 THEN <<2>> ELSE <<>>
                [] OTHER -> <<>>
    IN  [i \in DOMAIN at |-> p.args[at[i]]]

\* A premise that is no relation: seen is the state after it looked at its
\* arguments, types are their types before.
InferTest(g, seen, p, types) ==
    CASE p.kind = "Eq"      -> InferEq(seen, p.args[1], p.args[2], types)
      [] Looked(p) = <<>> /\ ~Filters(p) -> seen
      [] p.kind = "NegAtom" -> InferNegation(seen, p, types)
      [] p.kind = "Ineq"    -> InferIneq(seen, p.args, Meet(types[1], types[2]))
      [] p.pred = ":match_prefix" -> InferPrefix(seen, p, PrefixMeet(p, types))
      [] OTHER -> NameField(p, MeetArgs(g, seen,
                    CASE p.pred = ":match_field" -> FieldArgs(p, types)
                      [] p.pred = ":match_entry" -> EntryArgs(p, types)
                      [] p.pred = ":list:member" -> MemberArgs(p, types)
                      [] OTHER -> FilterArgs(p)))

InferPremise(g, visiting, st, p) ==
    IF p.kind = "Atom" /\ p.pred \notin BuiltinPreds THEN InferAtom(g, visiting, st, p)
    ELSE InferTest(g, Inspect(g, st, Looked(p)), p, [i \in DOMAIN p.args |-> TypeIn(g, st, p.args[i])])

----------------------------------------------------------------------------
(* check *)

\* check_fact: the values of some alternative, the interval not counted
FactFits(g, fact, alts) ==
    \E alt \in ToSet(alts) :
        /\ Len(alt) = Len(fact.args) - (IF fact.pred \in g.temporal THEN 2 ELSE 0)
        /\ \A i \in DOMAIN alt : HasType(alt[i], fact.args[i])

\* Mutant of TypesFit: the declared type conforms to the inferred one.
TypesFitReversed(types, alts) ==
    \E alt \in ToSet(alts) :
        Len(alt) = Len(types) /\ \A i \in DOMAIN alt : SetConforms(<<>>, alt[i], types[i])

\* check_rule: the inferred types conform to some alternative, whose type
\* variables are /any.
TypesFit(types, alts) ==
    \E alt \in ToSet(alts) :
        LET ctx == [v \in UNION {TypeVars(t) : t \in ToSet(alt)} |-> AnyType]
        IN  Len(alt) = Len(types) /\ \A i \in DOMAIN alt : SetConforms(ctx, types[i], alt[i])

\* check_rule: the interval of the head is not declared.
CheckHead(g, head, inferred) ==
    IF /\ inferred.st.ok /\ head.pred \in DOMAIN g.decls
       /\ ~TypesFit(SubSeq(inferred.types[1], 1, DeclaredColumns(g, head)), g.decls[head.pred])
    THEN Failed(inferred.st) ELSE inferred.st

\* One clause of check_all_clauses
CheckClause(g, st, rule) ==
    IF ~st.ok THEN st
    ELSE IF IsFact(rule)
    THEN IF rule.head.pred \in DOMAIN g.decls /\ ~FactFits(g, rule.head, g.decls[rule.head.pred])
         THEN Failed(st) ELSE st
    ELSE CheckHead(g, rule.head, InferClause(g, {}, TRUE, st, rule))

\* collect_declarations: what is declared is well formed, its type variables
\* known.
DeclsWellformed(decls) ==
    \A pred \in DOMAIN decls : \A alt \in ToSet(decls[pred]) :
        \A t \in ToSet(alt) : Wellformed(UNION {TypeVars(u) : u \in ToSet(alt)}, t)

WithTrie(program) ==
    [decls |-> program.decls, rules |-> program.rules, temporal |-> program.temporal,
     trie  |-> UNION {TrieNames(t) : t \in UNION {ToSet(alt) :
                 alt \in UNION {ToSet(program.decls[p]) : p \in DOMAIN program.decls}}}]

Passed(st) == st.ok /\ st.args

\* BoundsChecker::check
Accepted(program) ==
    /\ DeclsWellformed(program.decls)
    /\ ArityConsistent(program)
    /\ \A r \in ToSet(program.rules) : BindingsOk(r) /\ FunctionAritiesOk(r)
    /\ LET g == WithTrie(program)
       IN  Passed(FoldLeft(LAMBDA st, r : CheckClause(g, st, r), Fresh(<<>>, TRUE, 0), program.rules))
=============================================================================
