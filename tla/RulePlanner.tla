----------------------------- MODULE RulePlanner -----------------------------
(***************************************************************************)
(* The plan of a rule: `Planner` of crates/mangle-analysis/src/planner.rs, *)
(* with function terms, built-in predicates and the transforms after |>.   *)
(* (Module JoinPlan keeps the part that evaluation by strata needs.)       *)
(*                                                                         *)
(* A premise is [kind, pred, args] with kind Atom, NegAtom, Eq or Ineq; a  *)
(* transform is [var, app], with var = <<>> for `do`; a rule is            *)
(* [id, head, premises, transforms].  A variable is the tuple of its name. *)
(* A plan is an Op of mangle-ir/src/physical.rs; an operand is a term that *)
(* is a variable or a constant.  The code numbers the variables it makes   *)
(* up; here each is named after the place it is made up for.               *)
(***************************************************************************)
EXTENDS Builtins

Comparisons ==
    [lt |-> {":lt", ":time:lt", ":duration:lt"}, le |-> {":le", ":time:le", ":duration:le"},
     gt |-> {":gt", ":time:gt", ":duration:gt"}, ge |-> {":ge", ":time:ge", ":duration:ge"}]

ComparisonPreds == UNION {Comparisons[c] : c \in DOMAIN Comparisons}
CmpOf(pred)     == CHOOSE c \in DOMAIN Comparisons : pred \in Comparisons[c]
TextPreds       == {":string:starts_with", ":string:ends_with", ":string:contains", ":match_prefix"}
BuiltinPreds    == ComparisonPreds \cup TextPreds \cup {":match_field", ":list:member", ":match_entry"}

\* The elements of a set in an arbitrary fixed order
Listed(S) == FoldSet(LAMBDA x, s : Append(s, x), <<>>, S)

\* collect_vars
RECURSIVE VarsIn(_)
VarsIn(t) ==
    IF IsVar(t) THEN (IF t.name = <<"_">> THEN {} ELSE {t.name})
    ELSE IF t.kind = "Struct" THEN UNION {VarsIn(a) : a \in ToSet(Evens(t.args))}
    ELSE UNION {VarsIn(a) : a \in ToSet(t.args)}

VarsInAll(ts) == UNION {VarsIn(t) : t \in ToSet(ts)}

FreshVar(t, bound) == IsVar(t) /\ t.name \notin bound

----------------------------------------------------------------------------
(* delay_unbound_premises *)

PremiseReady(p, bound) ==
    LET ok(t) == VarsIn(t) \subseteq bound
        binding(l, r) == FreshVar(l, bound) /\ ok(r)
    IN  CASE p.kind \in {"NegAtom", "Ineq"} -> \A t \in ToSet(p.args) : ok(t)
          [] p.kind = "Eq" -> \/ ok(p.args[1]) /\ ok(p.args[2])
                              \/ binding(p.args[1], p.args[2])
                              \/ binding(p.args[2], p.args[1])
          [] OTHER -> TRUE

PremiseBindings(p) ==
    LET plain(i) == IF i \in DOMAIN p.args /\ IsVar(p.args[i]) THEN {p.args[i].name} ELSE {}
    IN  CASE p.kind \in {"NegAtom", "Ineq"} -> {}
          [] p.kind = "Eq" -> VarsInAll(p.args)
          [] p.pred \in ComparisonPreds \cup TextPreds -> {}
          [] p.pred = ":match_field" -> plain(3)
          [] p.pred = ":list:member" -> plain(1)
          [] OTHER -> VarsInAll(p.args)

Place(acc, p) ==
    [acc EXCEPT !.ordered = Append(@, p), !.bound = @ \cup PremiseBindings(p)]

\* One pass over what waits; place_premise makes passes until one places nothing.
PlaceWaiting(acc) ==
    FoldLeft(LAMBDA a, w : IF PremiseReady(w, a.bound) THEN Place(a, w)
                           ELSE [a EXCEPT !.waiting = Append(@, w)],
             [acc EXCEPT !.waiting = <<>>], acc.waiting)

PlaceThenWaiting(acc, p) ==
    FoldLeft(LAMBDA a, w : PlaceWaiting(a), Place(acc, p), acc.waiting)

DelayUnbound(premises) ==
    LET all == FoldLeft(
          LAMBDA acc, p : IF p.kind # "Atom" /\ ~PremiseReady(p, acc.bound)
                          THEN [acc EXCEPT !.waiting = Append(@, p)]
                          ELSE PlaceThenWaiting(acc, p),
          [ordered |-> <<>>, bound |-> {}, waiting |-> <<>>], premises)
    IN  all.ordered \o all.waiting

----------------------------------------------------------------------------
(* Ops and terms *)

\* Err of a planning step; every op over it is Err.
NoPlan == [op |-> "NoPlan"]

Over(body, op) == IF body = NoPlan THEN NoPlan ELSE [op EXCEPT !.body = body]

Filter(cond, body)     == Over(body, [op |-> "Filter", cond |-> cond, body |-> NoPlan])
Let1(var, f, args, body) ==
    Over(body, [op |-> "Let", var |-> var, f |-> f, args |-> args, body |-> NoPlan])
Insert(rel, args)      == [op |-> "Insert", rel |-> rel, args |-> args]
Cmp(c, l, r)           == [c |-> c, args |-> <<l, r>>]
Call(pred, args)       == [c |-> "call", pred |-> pred, args |-> args]
Not(cond)              == [c |-> "not", inner |-> cond]
Negation(rel, args)    == [c |-> "negation", rel |-> rel, args |-> args]
VarOf(name)            == Term("Var", name, <<>>)

\* What physical::Constant has
Scalars == {"Number", "Float", "String", "Name", "Time", "Duration"}

\* with_eval and with_eval_args: the lets that compute a term, outermost first,
\* and the operand that holds it.  Lists, maps and structs are calls of their
\* constructor.
RECURSIVE Evaluated(_, _)

EvaluatedAll(args, at) ==
    LET each == [i \in DOMAIN args |-> Evaluated(args[i], Append(at, i))]
    IN  [ok   |-> \A i \in DOMAIN each : each[i].ok,
         lets |-> FlattenSeq([i \in DOMAIN each |-> each[i].lets]),
         ops  |-> [i \in DOMAIN each |-> each[i].operand]]

ConstructorOf(t) ==
    CASE t.kind = "ApplyFn" -> t.name[1]
      [] t.kind = "List"    -> "list"
      [] t.kind = "Map"     -> "map"
      [] t.kind = "Struct"  -> "struct"

Evaluated(t, at) ==
    IF IsVar(t) \/ t.kind \in Scalars THEN [ok |-> TRUE, lets |-> <<>>, operand |-> t]
    ELSE IF t.kind \notin {"ApplyFn", "List", "Map", "Struct"}
    THEN [ok |-> FALSE, lets |-> <<>>, operand |-> t]
    ELSE LET parts == EvaluatedAll(t.args, at)
         IN  [ok |-> parts.ok,
              lets |-> Append(parts.lets, [var |-> at, f |-> ConstructorOf(t), args |-> parts.ops]),
              operand |-> VarOf(at)]

\* body under the lets of e
Under1(e, body) ==
    IF ~e.ok THEN NoPlan
    ELSE FoldRight(LAMBDA l, b : Let1(l.var, l.f, l.args, b), e.lets, body)

\* inst_to_expr and Let: a call is the expression itself.
LetTerm(var, t, at, body) ==
    IF t.kind = "ApplyFn"
    THEN LET e == EvaluatedAll(t.args, at) IN Under1(e, Let1(var, t.name[1], e.ops, body))
    ELSE LET e == Evaluated(t, at) IN Under1(e, Let1(var, "value", <<e.operand>>, body))

----------------------------------------------------------------------------
(* plan_join_sequence.  mode is [delta, hash]: the delta predicate, "" when  *)
(* there is none, and MANGLE_HASHJOIN; end is what the innermost body does.  *)

\* plan_transforms_sequence from the i-th let on, then plan_head_insert or the
\* insert of all bound variables into a temp relation
RECURSIVE PlanEnd(_, _, _)
PlanEnd(end, i, bound) ==
    IF i <= Len(end.lets)
    THEN IF end.lets[i].var = <<>> THEN NoPlan
         ELSE LetTerm(end.lets[i].var, end.lets[i].app, <<"$let", i>>,
                      PlanEnd(end, i + 1, bound \cup {end.lets[i].var}))
    ELSE IF end.temp # "" THEN Insert(end.temp, Listed({VarOf(v) : v \in bound}))
    ELSE LET e == EvaluatedAll(end.head.args, <<"$head">>)
         IN  Under1(e, Insert(end.head.pred, e.ops))

\* The premises that only test: the condition on the evaluated arguments.
\* :match_field needs a name constant; a negated one takes its arguments as they
\* are, and needs the plain variables among them bound.
Arity(pred) == IF pred = ":match_field" THEN 3 ELSE 2

PositiveTest(pred, ops) ==
    IF pred \in ComparisonPreds THEN Cmp(CmpOf(pred), ops[1], ops[2]) ELSE Call(pred, ops)

Tests(p) == p.kind # "Atom" \/ p.pred \in ComparisonPreds \cup TextPreds

TestFails(p, bound) ==
    IF p.kind \in {"Eq", "Ineq"} THEN FALSE
    ELSE IF p.pred \in BuiltinPreds
    THEN \/ Len(p.args) # Arity(p.pred) \/ p.pred = ":match_entry"
         \/ p.pred = ":match_field" /\ ~IsName(p.args[2])
         \/ p.kind = "NegAtom" /\ \E a \in ToSet(p.args) : FreshVar(a, bound)
    ELSE \E a \in ToSet(p.args) : ~IsVar(a) /\ a.kind \notin Scalars

TestOf(p, ops) ==
    CASE p.kind = "Eq"   -> Cmp("eq", ops[1], ops[2])
      [] p.kind = "Ineq" -> Cmp("neq", ops[1], ops[2])
      [] p.kind = "Atom" -> PositiveTest(p.pred, ops)
      [] p.pred \in BuiltinPreds -> Not(PositiveTest(p.pred, ops))
      [] OTHER -> Negation(p.pred, ops)

PlanTest(p, k, body) ==
    LET e == EvaluatedAll(p.args, <<"$test", k>>) IN Under1(e, Filter(TestOf(p, e.ops), body))

\* :match_field and :list:member: bind a fresh variable, or extract into one and
\* compare.  in and out are the places of the input and of the output argument.
PlanExtract(p, k, in, out, bound, body) ==
    LET e == EvaluatedAll(<<p.args[in]>>, <<"$in", k>>)
        w == EvaluatedAll(<<p.args[out]>>, <<"$out", k>>)
        Op(var, b) ==
          Over(b, IF p.pred = ":match_field"
                  THEN [op |-> "MatchField", struct |-> e.ops[1], field |-> p.args[2].name,
                        var |-> var, body |-> NoPlan]
                  ELSE [op |-> "IterateList", list |-> e.ops[1], var |-> var, body |-> NoPlan])
        tmp == <<"$got", k>>
    IN  IF FreshVar(p.args[out], bound) THEN Under1(e, Op(p.args[out].name, body))
        ELSE Under1(e, Under1(w, Op(tmp, Filter(Cmp("eq", VarOf(tmp), w.ops[1]), body))))

\* The first argument that can be looked up: a bound variable or a constant
IndexColumn(args, bound) ==
    LET at == {i \in DOMAIN args : \/ IsVar(args[i]) /\ args[i].name \in bound
                                   \/ args[i].kind \in Scalars}
    IN  IF at = {} THEN 0 ELSE Min(at)

\* The first occurrence of a fresh variable is scanned directly, every other
\* argument into a variable made up for it.
ScanVars(args, k, bound) ==
    [i \in DOMAIN args |->
        IF FreshVar(args[i], bound) /\ \A j \in 1..i - 1 : args[j] # args[i]
        THEN args[i].name ELSE <<"$scan", k, i>>]

\* apply_constraints: the test of the first argument is outermost.
RECURSIVE Constrained(_, _, _, _, _)
Constrained(args, vars, k, i, body) ==
    IF i > Len(args) THEN body
    ELSE LET rest == Constrained(args, vars, k, i + 1, body)
             e    == Evaluated(args[i], <<"$arg", k, i>>)
         IN  IF IsVar(args[i]) /\ args[i].name = vars[i] THEN rest
             ELSE Under1(e, Filter(Cmp("eq", VarOf(vars[i]), e.operand), rest))

Source(src, rel, col, key, vars) ==
    [src |-> src, rel |-> rel, col |-> col, key |-> key, vars |-> vars]
Scan(rel, vars) == Source("scan", rel, 0, Null, vars)

\* all_fresh_distinct_vars
FreshDistinctVars(args, bound) ==
    IsInjective(args) /\ \A a \in ToSet(args) : FreshVar(a, bound)

\* try_plan_hash_join: two atoms in a row over fresh variables that share one.
\* The second may be a built-in.
HashJoinable(mode, ps, k, bound) ==
    /\ mode.hash /\ mode.delta = "" /\ k < Len(ps) /\ ps[k + 1].kind = "Atom"
    /\ FreshDistinctVars(ps[k].args, bound) /\ FreshDistinctVars(ps[k + 1].args, bound)
    /\ VarsInAll(ps[k].args) \cap VarsInAll(ps[k + 1].args) # {}

RECURSIVE PlanJoin(_, _, _, _, _)

PlanHashJoin(mode, ps, k, bound, end) ==
    LET names(args) == [i \in DOMAIN args |-> args[i].name]
        build == names(ps[k].args)
        probe == names(ps[k + 1].args)
    IN  Over(PlanJoin(mode, ps, k + 2, bound \cup ToSet(build) \cup ToSet(probe), end),
             [op |-> "HashJoin", build |-> Scan(ps[k].pred, build),
              probe |-> Scan(ps[k + 1].pred, probe),
              keys |-> SelectSeq(build, LAMBDA v : v \in ToSet(probe)), body |-> NoPlan])

\* Mutant of PlanAtom: what is looked up is not compared again.
PlanAtomUnchecked(mode, ps, k, bound, end) ==
    LET p    == ps[k]
        vars == ScanVars(p.args, k, bound)
    IN  Over(PlanJoin(mode, ps, k + 1, bound \cup ToSet(vars), end),
             [op |-> "Iterate", source |-> Scan(p.pred, vars), body |-> NoPlan])

PlanAtom(mode, ps, k, bound, end) ==
    LET p    == ps[k]
        vars == ScanVars(p.args, k, bound)
        col  == IndexColumn(p.args, bound)
        src  == CASE col # 0 -> Source("index", p.pred, col, p.args[col], vars)
                  [] p.pred = mode.delta -> Source("delta", p.pred, 0, Null, vars)
                  [] OTHER -> Scan(p.pred, vars)
    IN  Over(Constrained(p.args, vars, k, 1,
                         PlanJoin(mode, ps, k + 1, bound \cup ToSet(vars), end)),
             [op |-> "Iterate", source |-> src, body |-> NoPlan])

\* An equality with a fresh variable on one side is a let, the left one first.
PlanEq(mode, ps, k, bound, end) ==
    LET p == ps[k]
        side == CHOOSE i \in 1..2 : FreshVar(p.args[i], bound)
                                    /\ (i = 2 => ~FreshVar(p.args[1], bound))
    IN  IF \E i \in 1..2 : FreshVar(p.args[i], bound)
        THEN LetTerm(p.args[side].name, p.args[3 - side], <<"$eq", k>>,
                     PlanJoin(mode, ps, k + 1, bound \cup {p.args[side].name}, end))
        ELSE PlanTest(p, k, PlanJoin(mode, ps, k + 1, bound, end))

PlanJoin(mode, ps, k, bound, end) ==
    LET p    == ps[k]
        rest(b) == PlanJoin(mode, ps, k + 1, b, end)
        out(i)  == IF FreshVar(p.args[i], bound) THEN bound \cup {p.args[i].name} ELSE bound
    IN  CASE k > Len(ps) -> PlanEnd(end, 1, bound)
          [] p.kind = "Eq" -> PlanEq(mode, ps, k, bound, end)
          [] Tests(p) -> IF TestFails(p, bound) THEN NoPlan ELSE PlanTest(p, k, rest(bound))
          [] p.pred = ":match_field" ->
               IF Len(p.args) # 3 \/ ~IsName(p.args[2]) THEN NoPlan
               ELSE PlanExtract(p, k, 1, 3, bound, rest(out(3)))
          [] p.pred = ":list:member" ->
               IF Len(p.args) # 2 THEN NoPlan
               ELSE PlanExtract(p, k, 2, 1, bound, rest(out(1)))
          [] HashJoinable(mode, ps, k, bound) -> PlanHashJoin(mode, ps, k, bound, end)
          [] OTHER -> PlanAtom(mode, ps, k, bound, end)

----------------------------------------------------------------------------
(* plan_rule *)

\* split_transforms: a `do` starts a block.
Blocks(transforms) ==
    FoldLeft(LAMBDA bs, t : IF t.var = <<>> THEN Append(bs, <<t>>)
                            ELSE [bs EXCEPT ![Len(bs)] = Append(@, t)],
             <<<<>>>>, transforms)

Reducers == {"sum", "count", "max", "min", "collect", "collect_distinct",
             "float:sum", "float:max", "float:min"}

IsReducer(t) == t.var # <<>> /\ t.app.kind = "ApplyFn" /\ t.app.name[1] \in Reducers

\* plan_block_k, with try_parse_aggregate: the reducers of the block first, then
\* its lets, whatever their order.
PlanBlock(block, source, vars, end) ==
    LET keys == block[1].app.args
        aggs == SelectSeq(Tail(block), IsReducer)
    IN  IF \/ block[1].app.kind # "ApplyFn"
           \/ \E k \in ToSet(keys) : ~IsVar(k)
           \/ \E a \in ToSet(aggs) : \E x \in ToSet(a.app.args) :
                x.kind \notin {"Var", "Number", "Float"}
        THEN NoPlan
        ELSE Over(PlanEnd([end EXCEPT !.lets = SelectSeq(Tail(block), LAMBDA t : ~IsReducer(t))], 1,
                          {k.name : k \in ToSet(keys)} \cup {a.var : a \in ToSet(aggs)}),
                  [op |-> "GroupBy", rel |-> source, vars |-> vars,
                   keys |-> [i \in DOMAIN keys |-> keys[i].name],
                   aggs |-> [i \in DOMAIN aggs |->
                               [var |-> aggs[i].var, f |-> aggs[i].app.name[1],
                                args |-> aggs[i].app.args]],
                   body |-> NoPlan])

\* The variables that the innermost insert writes, in its order
RECURSIVE Captured(_)
Captured(op) ==
    IF op.op = "Insert" THEN [i \in DOMAIN op.args |-> op.args[i].name] ELSE Captured(op.body)

TempName(rule, i) == "$temp_grp_r" \o rule.id \o "_" \o ToString(i)

InSequence(ops) ==
    IF NoPlan \in ToSet(ops) THEN NoPlan
    ELSE IF Len(ops) = 1 THEN ops[1] ELSE [op |-> "Seq", ops |-> ops]

\* All blocks but the last end in a temp relation that the next one groups.
PlanRule(rule, mode) ==
    LET blocks == Blocks(rule.transforms)
        n      == Len(blocks)
        end(i) == [lets |-> IF i = 1 THEN blocks[1] ELSE <<>>, head |-> rule.head,
                   temp |-> IF i = n THEN "" ELSE TempName(rule, i)]
        ops[i \in 1..n] ==
          IF i = 1 THEN PlanJoin(mode, DelayUnbound(rule.premises), 1, {}, end(1))
          ELSE IF ops[i - 1] = NoPlan THEN NoPlan
          ELSE PlanBlock(blocks[i], TempName(rule, i - 1), Captured(ops[i - 1]), end(i))
    IN  InSequence(ops)
=============================================================================
