---------------------------- MODULE CompiledPlan ----------------------------
(***************************************************************************)
(* The compiled rule: what the code emitted by `Codegen` of                *)
(* crates/mangle-codegen/src/lib.rs does when `Vm::execute` of             *)
(* crates/mangle-vm/src/lib.rs runs it against the host of the vm's tests, *)
(* MemHost.  MemHost answers no index lookup and no hash join; those two   *)
(* are the hosts of crates/mangle-vm/tests/reachability.rs and             *)
(* hash_join.rs.                                                           *)
(*                                                                         *)
(* w is the machine: slab, the values of the host (a handle is a place in  *)
(* it, counted from 0; the elements of a compound are handles); data, the  *)
(* tuples of handles in the order of their insertion; the locals and the   *)
(* stack, which hold references, NullRef or a handle; and panic.  The plan *)
(* stands for the code that is emitted for it.                             *)
(***************************************************************************)
EXTENDS PlanInterpreter

NullRef == -1

Machine == [slab |-> <<>>, data |-> <<>>, locals |-> <<>>, stack |-> <<>>, panic |-> FALSE]

Panic(w) == [w EXCEPT !.panic = TRUE]

\* extract_hv: a null reference is handle 0.
ExtractHv(ref) == IF ref = NullRef THEN 0 ELSE ref

\* MemHost::alloc; the handle is left on the stack.
Alloc(w, val) == [w EXCEPT !.slab = Append(@, val), !.stack = Append(@, Len(w.slab))]

Top(w) == w.stack[Len(w.stack)]
TopN(w, n) == [i \in 1..n |-> ExtractHv(w.stack[Len(w.stack) - n + i])]
Pop(w, n) == [w EXCEPT !.stack = SubSeq(@, 1, Len(@) - n)]
Push(w, ref) == [w EXCEPT !.stack = Append(@, ref)]

\* MemHost::get_val
Get(w, h) == w.slab[h + 1]

\* What a handle stands for
RECURSIVE Deref(_, _)
Deref(w, h) == [Get(w, h) EXCEPT !.args = [i \in DOMAIN @ |-> Deref(w, @[i])]]

----------------------------------------------------------------------------
(* The operations of MemHost on values; vals are the values of the handles. *)

Arithmetic(f, a, b) ==
    LET x == AsFloat(a)
        y == AsFloat(b)
        ints == a.kind = "Number" /\ b.kind = "Number"
    IN  IF ~(IsNumeric(a) /\ IsNumeric(b)) THEN Num(0)
        ELSE CASE f = "add" -> IF ints THEN Num(x[1] + y[1])
                               ELSE Flt(x[1] * y[2] + y[1] * x[2], x[2] * y[2])
               [] f = "sub" -> IF ints THEN Num(x[1] - y[1])
                               ELSE Flt(x[1] * y[2] - y[1] * x[2], x[2] * y[2])
               [] f = "mul" -> IF ints THEN Num(x[1] * y[1]) ELSE Flt(x[1] * y[1], x[2] * y[2])
               [] f = "div" -> IF ints THEN Num(IF y[1] = 0 THEN 0 ELSE Quot(x[1], y[1]))
                               ELSE Flt(x[1] * y[2], x[2] * y[1])

\* Only numbers with numbers and floats with floats are ordered.
Ordered(c, a, b) ==
    CASE c = "eq"  -> a = b
      [] c = "neq" -> a # b
      [] OTHER -> /\ a.kind = b.kind /\ IsNumeric(a)
                  /\ Holds(c, a, b)

\* val_to_str
HostText(v) ==
    CASE v.kind \in {"Number", "Float", "String", "Name"} -> ToText(v)
      [] OTHER -> <<<<v.kind, Len(v.args)>>>>

HostReplace(s, old, new, count) ==
    Str(Replace(HostText(s), HostText(old), HostText(new),
                IF count.kind = "Number" THEN Payload(count) ELSE -1))

\* compound_get: HostVal(0) when there is nothing to get
CompoundGet(w, compound, key) ==
    LET v  == Get(w, compound)
        at == {i \in 1..Len(v.args) \div 2 : Get(w, v.args[2 * i - 1]) = Get(w, key)}
        ix == Payload(Get(w, key))
    IN  CASE v.kind = "List" /\ Get(w, key).kind = "Number" ->
               IF ix + 1 \in DOMAIN v.args THEN v.args[ix + 1] ELSE 0
          [] v.kind \in {"Map", "Struct"} /\ at # {} -> v.args[2 * Min(at)]
          [] OTHER -> 0

CompoundLen(v) ==
    CASE v.kind \in {"List", "Pair"}  -> Num(Len(v.args))
      [] v.kind \in {"Map", "Struct"} -> Num(Len(v.args) \div 2)
      [] OTHER -> Num(0)

PairPart(w, h, i) == IF i \in DOMAIN Get(w, h).args THEN Get(w, h).args[i] ELSE 0

\* The string predicates, match_prefix, list_member, match_field: {} for a panic
HostTest(w, pred, hs) ==
    LET v(i) == Get(w, hs[i])
    IN  CASE pred \in TextPreds -> EvalPredicate(pred, <<v(1), v(2)>>)
          [] pred = ":list:member" ->
               {v(2).kind = "List" /\ \E e \in ToSet(v(2).args) : Get(w, e) = v(1)}
          [] pred = ":match_field" ->
               {/\ v(1).kind = "Struct"
                /\ \E i \in 1..Len(v(1).args) \div 2 :
                     /\ Get(w, v(1).args[2 * i - 1]) = v(2)
                     /\ Get(w, v(1).args[2 * i]) = v(3)}

FieldPresent(w, s, field) ==
    /\ Get(w, s).kind = "Struct"
    /\ \E i \in 1..Len(Get(w, s).args) \div 2 : Get(w, Get(w, s).args[2 * i - 1]) = field

----------------------------------------------------------------------------
(* Tuples *)

SameTuple(w, s, t) == Len(s) = Len(t) /\ \A i \in DOMAIN s : Get(w, s[i]) = Get(w, t[i])

Tuples(w, rel) ==
    LET of == SelectSeq(w.data, LAMBDA t : t.pred = rel) IN [i \in DOMAIN of |-> of[i].args]

\* insert_begin, insert_push and insert_end: relations are sets.
InsertTuple(w, rel, hs) ==
    IF \E t \in ToSet(Tuples(w, rel)) : SameTuple(w, t, hs) THEN w
    ELSE [w EXCEPT !.data = Append(@, Fact(rel, hs))]

\* negation_begin, negation_push and negation_end
NegationHolds(w, rel, hs) == \A t \in ToSet(Tuples(w, rel)) : ~SameTuple(w, t, hs)

\* scan_index_start of tests/reachability.rs: the tuples at the time of the call
IndexTuples(w, rel, col, key) ==
    SelectSeq(Tuples(w, rel), LAMBDA t : col \in DOMAIN t /\ Get(w, t[col]) = Get(w, key))

\* The variants of Val in the order of its derived PartialOrd
ValRank(v) == CHOOSE i \in 1..7 :
    v.kind \in <<{"Number"}, {"Float"}, {"String"}, {"Name"}, {"Time"}, {"Duration"},
                 ToSet(CompoundKinds)>>[i]

ValLess(a, b) ==
    \/ ValRank(a) < ValRank(b)
    \/ ValRank(a) = ValRank(b) /\ Compare(a, b) < 0

\* eval_group_aggregate: the handle of the aggregate of a group's column on top of
\* the stack.  A compound is never compared.
GroupAggregate(w, f, hs) ==
    LET vals  == [i \in DOMAIN hs |-> Get(w, hs[i])]
        known == ~\E i \in DOMAIN vals : IF f = "sum" THEN vals[i].kind # "Number"
                                         ELSE ~IsNumeric(vals[i])
        floats == [i \in DOMAIN vals |-> Flt(AsFloat(vals[i])[1], AsFloat(vals[i])[2])]
        \* the first of the largest, or of the smallest
        best(vs, big) == LET better(a, b) == IF big THEN ValLess(b, a) ELSE ValLess(a, b)
                         IN  FoldLeft(LAMBDA m, v : IF better(v, m) THEN v ELSE m, vs[1], vs)
        add(vs, zero) == FoldLeft(LAMBDA s, v : Arithmetic("add", s, v), zero, vs)
        distinct == FoldLeft(LAMBDA out, h : IF \E e \in ToSet(out) : Get(w, e) = Get(w, h)
                                             THEN out ELSE Append(out, h), <<>>, hs)
    IN  CASE f \in {"max", "min"} -> Alloc(w, best(vals, f = "max"))
          [] f = "collect"          -> Alloc(w, Compound("List", hs))
          [] f = "collect_distinct" -> Alloc(w, Compound("List", distinct))
          [] ~known -> Push(Panic(w), NullRef)
          [] f = "sum"       -> Alloc(w, add(vals, Num(0)))
          [] f = "float:sum" -> Alloc(w, add(floats, Flt(0, 1)))
          [] OTHER           -> Alloc(w, best(floats, f = "float:max"))

----------------------------------------------------------------------------
(* Operands, expressions and conditions *)

\* emit_operand: a variable without a local, or with one that is not set, is null.
EmitOperand(w, o) ==
    IF ~IsVar(o) THEN Alloc(w, o)
    ELSE Push(w, IF o.name \in DOMAIN w.locals THEN w.locals[o.name] ELSE NullRef)

EmitOperands(w, ops) == FoldLeft(EmitOperand, w, ops)

\* A null reference reaches MemHost as its first value; there may be none.
Reached(w, n) == \A i \in 1..n : TopN(w, n)[i] < Len(w.slab)

BinaryImport ==
    [plus |-> "add", minus |-> "sub", mult |-> "mul", div |-> "div"]
    @@ ("float:plus" :> "add") @@ ("float:minus" :> "sub") @@ ("float:mult" :> "mul")
    @@ ("float:div" :> "div") @@ ("string:concat" :> "concat")

\* emit_binary_fold: one argument is its own result.
EmitBinaryFold(w, args, import) ==
    LET Fold1(u, arg) ==
          LET v  == EmitOperand(u, arg)
              hs == TopN(v, 2)
              a  == Get(v, hs[1])
              b  == Get(v, hs[2])
          IN  IF ~Reached(v, 2) THEN Panic(Pop(v, 1))
              ELSE Alloc(Pop(v, 2), IF import = "concat" THEN Str(HostText(a) \o HostText(b))
                                    ELSE Arithmetic(import, a, b))
    IN  IF args = <<>> THEN Push(w, NullRef)
        ELSE FoldLeft(Fold1, EmitOperand(w, args[1]), Tail(args))

Constructors  == [list |-> "List", pair |-> "Pair", map |-> "Map", struct |-> "Struct"]
Getters       == {"list:get", "map:get", "struct:get"}
UnaryFns      == {"sqrt", "number:to_string", "float64:to_string", "name:to_string", "len",
                  "list:len", "struct:len", "map:len", "pair:first", "pair:second"}
\* The functions that emit_expr knows; it panics at any other.
CompiledFns   == DOMAIN BinaryImport \cup DOMAIN Constructors \cup Getters \cup UnaryFns
                 \cup {"string:replace", "value"}

\* The import of a function of one value
UnaryResult(w, f, h) ==
    LET v == Get(w, h)
    IN  CASE f = "sqrt" -> Alloc(w, IF IsNumeric(v) THEN FloatFn("sqrt", <<v>>) ELSE Flt(0, 1))
          [] f = "pair:first"  -> Push(w, PairPart(w, h, 1))
          [] f = "pair:second" -> Push(w, PairPart(w, h, 2))
          [] f \in {"len", "list:len", "struct:len", "map:len"} -> Alloc(w, CompoundLen(v))
          [] OTHER -> Alloc(w, Str(HostText(v)))

EmitCall(w, f, args) ==
    LET n == CASE f \in DOMAIN Constructors -> Len(args)
               [] f = "string:replace" -> 4
               [] f \in Getters -> 2
               [] OTHER -> 1
        u == EmitOperands(w, IF f \in UnaryFns THEN SubSeq(args, 1, 1) ELSE args)
        hs == TopN(u, n)
        v == Pop(u, n)
    IN  CASE f \in UnaryFns /\ args = <<>> -> Push(w, NullRef)
          [] f \in Getters \cup {"string:replace"} /\ Len(args) # n -> Push(w, NullRef)
          [] ~Reached(u, n) -> Push(Panic(w), NullRef)
          [] f \in DOMAIN Constructors -> Alloc(v, Compound(Constructors[f], hs))
          [] f \in Getters -> Push(v, CompoundGet(v, hs[1], hs[2]))
          [] f = "string:replace" ->
               Alloc(v, HostReplace(Get(v, hs[1]), Get(v, hs[2]), Get(v, hs[3]), Get(v, hs[4])))
          [] OTHER -> UnaryResult(v, f, hs[1])

\* Mutant of EmitExpr: the fold starts with the second argument.
EmitExprSkipped(w, f, args) ==
    IF f = "value" THEN EmitOperand(w, args[1])
    ELSE IF f \in DOMAIN BinaryImport
    THEN EmitBinaryFold(w, IF Len(args) > 1 THEN Tail(args) ELSE args, BinaryImport[f])
    ELSE EmitCall(w, f, args)

EmitExpr(w, f, args) ==
    IF f = "value" THEN EmitOperand(w, args[1])
    ELSE IF f \in DOMAIN BinaryImport THEN EmitBinaryFold(w, args, BinaryImport[f])
    ELSE EmitCall(w, f, args)

\* emit_condition: the answer and the machine after it
RECURSIVE EmitCondition(_, _)
EmitCondition(w, cond) ==
    LET n == Len(cond.args)
        u == EmitOperands(w, cond.args)
        hs == TopN(u, n)
        inner == EmitCondition(w, cond.inner)
        test == HostTest(u, cond.pred, hs)
        answer(b) == [w |-> Pop(u, n), holds |-> b]
    IN  CASE cond.c = "not" -> [inner EXCEPT !.holds = ~@]
          [] ~Reached(u, n) -> [w |-> Panic(w), holds |-> FALSE]
          [] cond.c = "negation" -> answer(NegationHolds(u, cond.rel, hs))
          [] cond.c = "call" -> IF test = {} THEN [w |-> Panic(w), holds |-> FALSE]
                                ELSE answer(TRUE \in test)
          [] OTHER -> answer(Ordered(cond.c, Get(u, hs[1]), Get(u, hs[2])))

----------------------------------------------------------------------------
(* emit_op *)

\* A LocalSet of every variable; a column that the row has not is a panic.
SetLocals(w, vars, refs) ==
    IF Len(refs) < Len(vars) THEN Panic(w)
    ELSE [w EXCEPT !.locals = Bind(@, vars, SubSeq(refs, 1, Len(vars)))]

RECURSIVE Run(_, _)

\* The loop of scan_next and get_col over rows that do not change
RunRows(w, rows, vars, body) ==
    FoldLeft(LAMBDA u, row : IF u.panic THEN u ELSE Run(body, SetLocals(u, vars, row)), w, rows)

\* The same over a relation, which may grow meanwhile: the cursor is an index.
RECURSIVE RunScan(_, _, _, _, _)
RunScan(w, rel, i, vars, body) ==
    IF w.panic \/ i > Len(Tuples(w, rel)) THEN w
    ELSE RunScan(Run(body, SetLocals(w, vars, Tuples(w, rel)[i])), rel, i + 1, vars, body)

\* emit_hash_join: a build row is its keys, then its other variables; the host of
\* tests/hash_join.rs keeps the rows by the values of their keys.
RunHashJoin(op, w) ==
    LET build == op.build.vars
        order == op.keys \o SelectSeq(build, LAMBDA v : v \notin ToSet(op.keys))
        At(vars, row, v) == row[Min({i \in DOMAIN vars : vars[i] = v})]
        rows  == Tuples(w, op.build.rel)
        table == [i \in DOMAIN rows |-> [j \in DOMAIN order |-> At(build, rows[i], order[j])]]
        Matches(p) == SelectSeq(table, LAMBDA b :
                        \A j \in DOMAIN op.keys :
                           Get(w, b[j]) = Get(w, At(op.probe.vars, p, op.keys[j])))
        Probe(u, p) == IF u.panic THEN u
                       ELSE RunRows(SetLocals(u, op.probe.vars, p), Matches(p), order, op.body)
        short == \/ \E r \in ToSet(rows) : Len(r) < Len(build)
                 \/ \E r \in ToSet(Tuples(w, op.probe.rel)) : Len(r) < Len(op.probe.vars)
        last  == IF rows = <<>> THEN w ELSE SetLocals(w, build, Last(rows))
    IN  IF short THEN Panic(w) ELSE FoldLeft(Probe, last, Tuples(w, op.probe.rel))

\* scan_aggregate_start: one row per group, the keys and then the aggregates.
\* The description has -1 for the column of fn:count of a constant.
GroupRows(w, op) ==
    LET Col(v) == Min({i \in DOMAIN op.vars : op.vars[i] = v})
        rows == Tuples(w, op.rel)
        KeyOf(r) == [i \in DOMAIN op.keys |-> r[Col(op.keys[i])]]
        first == SelectSeq([i \in DOMAIN rows |-> i], LAMBDA i :
                   \A j \in 1..i - 1 : ~SameTuple(w, KeyOf(rows[j]), KeyOf(rows[i])))
        Group(i) == SelectSeq(rows, LAMBDA r : SameTuple(w, KeyOf(r), KeyOf(rows[i])))
        Agg(u, a, i) ==
          IF a.f = "count" THEN Alloc(u, Num(Len(Group(i))))
          ELSE GroupAggregate(u, a.f, [j \in DOMAIN Group(i) |-> Group(i)[j][Col(a.args[1].name)]])
        Row(acc, i, u) ==
          [w |-> Pop(u, Len(op.aggs)),
           rows |-> Append(acc, KeyOf(rows[i]) \o TopN(u, Len(op.aggs)))]
    IN  FoldLeft(LAMBDA acc, i :
                   Row(acc.rows, i, FoldLeft(LAMBDA x, a : Agg(x, a, i), acc.w, op.aggs)),
                 [w |-> w, rows |-> <<>>], first)

RunGroups(op, g) ==
    RunRows(g.w, g.rows, op.keys \o [i \in DOMAIN op.aggs |-> op.aggs[i].var], op.body)

RunGroupBy(op, w) == RunGroups(op, GroupRows(w, op))

\* Op::MatchField: field_present, then compound_get; Op::IterateList: list_iter_start
RunExtract(op, w) ==
    LET u == EmitOperand(w, IF op.op = "MatchField" THEN op.struct ELSE op.list)
        h == TopN(u, 1)[1]
        v == Alloc(Pop(u, 1), Name(op.field))
        x == Pop(v, 1)
        got == CompoundGet(v, h, TopN(v, 1)[1])
    IN  IF ~Reached(u, 1) THEN Panic(w)
        ELSE IF op.op = "IterateList"
        THEN RunRows(Pop(u, 1), IF Get(u, h).kind = "List"
                                THEN [i \in DOMAIN Get(u, h).args |-> <<Get(u, h).args[i]>>]
                                ELSE <<>>, <<op.var>>, op.body)
        ELSE IF FieldPresent(v, h, Name(op.field)) THEN Run(op.body, SetLocals(x, <<op.var>>, <<got>>))
        ELSE x

RunIterate(op, w) ==
    LET s == op.source
        u == EmitOperand(w, s.key)
    IN  IF s.src # "index" THEN RunScan(w, s.rel, 1, s.vars, op.body)
        ELSE IF ~Reached(u, 1) THEN Panic(w)
        ELSE RunRows(Pop(u, 1), IndexTuples(u, s.rel, s.col, TopN(u, 1)[1]), s.vars, op.body)

SetTop(w, var) == SetLocals(Pop(w, 1), <<var>>, <<Top(w)>>)

RunLet(op, w) == Run(op.body, SetTop(EmitExpr(w, op.f, op.args), op.var))

RunInsert(op, w) ==
    LET u == EmitOperands(w, op.args)
        hs == TopN(u, Len(op.args))
    IN  IF ~Reached(u, Len(op.args)) THEN Panic(w)
        ELSE InsertTuple(Pop(u, Len(op.args)), op.rel, hs)

Run(op, w) ==
    CASE w.panic -> w
      [] op.op = "Seq"      -> FoldLeft(LAMBDA u, o : Run(o, u), w, op.ops)
      [] op.op = "Iterate"  -> RunIterate(op, w)
      [] op.op = "Filter"   -> LET a == EmitCondition(w, op.cond)
                               IN  IF a.holds THEN Run(op.body, a.w) ELSE a.w
      [] op.op = "Insert"   -> RunInsert(op, w)
      [] op.op = "Let"      -> RunLet(op, w)
      [] op.op = "HashJoin" -> RunHashJoin(op, w)
      [] op.op = "GroupBy"  -> RunGroupBy(op, w)
      [] op.op \in {"MatchField", "IterateList"} -> RunExtract(op, w)

\* Code is generated for the plan without a panic.
RECURSIVE Emits(_)
Emits(op) ==
    CASE op.op = "Insert" -> TRUE
      [] op.op = "Seq" -> \A o \in ToSet(op.ops) : Emits(o)
      [] op.op = "Let" -> op.f \in CompiledFns /\ Emits(op.body)
      [] op.op = "GroupBy" ->
           /\ ToSet(op.keys) \subseteq ToSet(op.vars)
           /\ \A a \in ToSet(op.aggs) :
                \/ a.args # <<>> /\ IsVar(a.args[1]) /\ a.args[1].name \in ToSet(op.vars)
                \/ a.f = "count" /\ (a.args = <<>> \/ ~IsVar(a.args[1]))
           /\ Emits(op.body)
      [] OTHER -> Emits(op.body)

----------------------------------------------------------------------------
(* A run of the module on facts *)

\* The facts as a host has them before the run
RECURSIVE Put(_, _)
Put(w, v) ==
    IF v.args = <<>> THEN Alloc(w, v)
    ELSE LET u == FoldLeft(Put, w, v.args)
         IN  Alloc(Pop(u, Len(v.args)), [v EXCEPT !.args = TopN(u, Len(@))])

Loaded(facts) ==
    FoldLeft(LAMBDA w, f : LET u == FoldLeft(Put, w, f.args)
                           IN  InsertTuple(Pop(u, Len(f.args)), f.pred, TopN(u, Len(f.args))),
             Machine, Listed(facts))

\* generate: per rule its plan and, when the rule reads what it derives, the loop
\* of the plans with a delta.  MemHost has no deltas: merge_deltas answers 0 and
\* the loop runs once.  A rule without a plan is left out.
Plannable(ops) == SelectSeq(ops, LAMBDA op : op # NoPlan)

Generated(rule, hash) ==
    LET again  == SelectSeq(rule.premises, LAMBDA p : p.kind = "Atom" /\ p.pred = rule.head.pred)
        deltas == <<"">> \o [i \in DOMAIN again |-> rule.head.pred]
    IN  Plannable([i \in DOMAIN deltas |-> PlanRule(rule, [delta |-> deltas[i], hash |-> hash])])

GeneratedAll(rules, hash) ==
    [op |-> "Seq", ops |-> FlattenSeq([i \in DOMAIN rules |-> Generated(rules[i], hash)])]

\* Vm::execute: what the host has afterwards
HostFacts(w) ==
    [panic |-> w.panic,
     facts |-> {Fact(t.pred, [i \in DOMAIN t.args |-> Deref(w, t.args[i])]) : t \in ToSet(w.data)}]

Executed(code, facts) == HostFacts(Run(code, Loaded(facts)))
=============================================================================
