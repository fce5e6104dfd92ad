-------------------------- MODULE PlanInterpreter --------------------------
(***************************************************************************)
(* The interpreter of plans: `Interpreter::exec_op` of                     *)
(* crates/mangle-interpreter/src/lib.rs, over a store of facts [pred,args].*)
(*                                                                         *)
(* db is [stable, delta].  A run's state is st: the environment, one for   *)
(* the whole plan; the facts inserted so far (next_delta); the error that  *)
(* ended it, "" when none did; the premises being scanned and the          *)
(* derivations recorded (ProvenanceRecorder).  Rows come in an arbitrary   *)
(* fixed order.                                                            *)
(***************************************************************************)
EXTENDS RulePlanner

Fact(pred, args) == [pred |-> pred, args |-> args]

Start == [env |-> <<>>, next |-> {}, error |-> "", active |-> <<>>, prov |-> {}]

Unbound == Term("Error", <<"unbound">>, <<>>)
IsErr(v) == v.kind = "Error"
ErrorOf(v) == IF v = Unbound THEN "unbound" ELSE "value"

Bind(env, vars, vals) ==
    [x \in DOMAIN env \cup ToSet(vars) |->
        IF x \in ToSet(vars) THEN vals[Max({i \in DOMAIN vars : vars[i] = x})] ELSE env[x]]

Without(env, var) == [x \in DOMAIN env \ {var} |-> env[x]]

\* eval_operand
Operand(env, o) ==
    IF ~IsVar(o) THEN o ELSE IF o.name \in DOMAIN env THEN env[o.name] ELSE Unbound

Operands(env, ops) == [i \in DOMAIN ops |-> Operand(env, ops[i])]

\* The first error among values, Null when there is none
FirstErr(vals) ==
    LET at == {i \in DOMAIN vals : IsErr(vals[i])}
    IN  IF at = {} THEN Null ELSE vals[Min(at)]

\* eval_expr
EvalExpr(env, f, args) ==
    LET vals == Operands(env, args)
    IN  IF IsErr(FirstErr(vals)) THEN FirstErr(vals)
        ELSE IF f = "value" THEN vals[1] ELSE EvalFunction(f, vals)

Holds(c, l, r) ==
    CASE c = "eq"  -> l = r
      [] c = "neq" -> l # r
      [] c = "lt"  -> Compare(l, r) < 0
      [] c = "le"  -> Compare(l, r) <= 0
      [] c = "gt"  -> Compare(l, r) > 0
      [] c = "ge"  -> Compare(l, r) >= 0

Rows(facts, pred) == {f.args : f \in {g \in facts : g.pred = pred}}

\* eval_cond: the answer, or the error.  A negation evaluates an argument only
\* against a row that the arguments before it match.
RECURSIVE EvalCond(_, _, _)
EvalCond(cond, db, env) ==
    LET vals == Operands(env, cond.args)
        err  == FirstErr(vals)
        rows == {r \in Rows(db.stable \cup db.delta, cond.rel) : Len(r) = Len(cond.args)}
        before == Min({i \in DOMAIN vals : IsErr(vals[i])}) - 1
        answer(s) == IF s = {} THEN [error |-> "value", holds |-> FALSE]
                     ELSE [error |-> "", holds |-> TRUE \in s]
        inner == EvalCond(cond.inner, db, env)
    IN  CASE cond.c = "not" -> [inner EXCEPT !.holds = ~@]
          [] cond.c = "negation" /\ IsErr(err)
             /\ \A r \in rows : SubSeq(r, 1, before) # SubSeq(vals, 1, before) -> answer({TRUE})
          [] IsErr(err) -> [error |-> ErrorOf(err), holds |-> FALSE]
          [] cond.c = "negation" -> answer({vals \notin rows})
          [] cond.c = "call" -> answer(EvalPredicate(cond.pred, vals))
          [] OTHER -> answer({Holds(cond.c, vals[1], vals[2])})

----------------------------------------------------------------------------
(* Sources of rows *)

\* The index of a column holds the first cell of its values: of a compound the
\* kind and the number of elements.
SameCell(a, b) ==
    IF IsCompound(a) /\ IsCompound(b) THEN a.kind = b.kind /\ Len(a.args) = Len(b.args)
    ELSE a = b

\* collect_data_source and the three sources of Op::Iterate
SourceRows(src, db, env) ==
    {r \in Rows(IF src.src = "delta" THEN db.delta ELSE db.stable \cup db.delta, src.rel) :
       /\ Len(r) = Len(src.vars)
       /\ src.src = "index" => SameCell(r[src.col], Operand(env, src.key))}

SourceErr(src, env) == IF src.src = "index" THEN Operand(env, src.key) ELSE Null

\* Store::insert: a fact that is there, or of another arity than the relation's,
\* is dropped.  A new one is recorded with the premises being scanned.
InsertFact(st, db, fact) ==
    LET all == db.stable \cup db.delta \cup st.next
    IN  IF \/ fact \in all
           \/ \E g \in all : g.pred = fact.pred /\ Len(g.args) # Len(fact.args)
        THEN st
        ELSE [st EXCEPT !.next = @ \cup {fact},
                        !.prov = @ \cup {[derived |-> fact, premises |-> st.active]}]

Fail(st, v) == [st EXCEPT !.error = ErrorOf(v)]

\* A variable bound to a value in env, unless the value is an error
BindTo(st, env, var, v) ==
    IF IsErr(v) THEN Fail(st, v) ELSE [st EXCEPT !.env = Bind(env, <<var>>, <<v>>)]

----------------------------------------------------------------------------
(* exec_op *)

RECURSIVE Exec(_, _, _)

\* The body once per row
ExecRows(body, rows, vars, pred, db, st) ==
    FoldLeft(LAMBDA s, r :
               IF s.error # "" THEN s
               ELSE [Exec(body, db, [s EXCEPT !.env = Bind(@, vars, r),
                                              !.active = Append(@, Fact(pred, r))])
                     EXCEPT !.active = s.active],
             st, Listed(rows))

\* exec_hash_join: the build side in a table by its keys, one probe per row of
\* the other; no premise is recorded.
ExecHashJoin(op, db, st) ==
    LET At(vars, row, v) == row[CHOOSE i \in DOMAIN vars : vars[i] = v]
        match(b, p) == \A v \in ToSet(op.keys) : At(op.build.vars, b, v) = At(op.probe.vars, p, v)
        pairs == {<<b, p>> \in SourceRows(op.build, db, st.env) \X SourceRows(op.probe, db, st.env) :
                    match(b, p)}
    IN  FoldLeft(LAMBDA s, bp :
                   IF s.error # "" THEN s
                   ELSE Exec(op.body, db, [s EXCEPT !.env =
                          Bind(Bind(@, op.probe.vars, bp[2]), op.build.vars, bp[1])]),
                 st, Listed(pairs))

\* eval_aggregate: all but fn:count bind the variables of every row in turn, and
\* leave those of the last bound.
Aggregated(agg, rows, vars, st) ==
    LET envs == [i \in DOMAIN rows |->
                   FoldLeft(LAMBDA e, r : Bind(e, vars, r), st.env, SubSeq(rows, 1, i))]
        vals == [i \in DOMAIN rows |-> Operand(envs[i], agg.args[1])]
    IN  IF agg.f = "count" THEN BindTo(st, st.env, agg.var, Num(Len(rows)))
        ELSE BindTo(st, envs[Len(rows)], agg.var,
                    IF agg.args = <<>> THEN Err
                    ELSE IF IsErr(FirstErr(vals)) THEN FirstErr(vals)
                    ELSE EvalAggregate(agg.f, vals))

\* Op::GroupBy reads what is being inserted too.  A key that is no variable of
\* the source keeps what the environment has, or is null.
ExecGroupBy(op, db, st) ==
    LET rows == {r \in Rows(db.stable \cup db.delta \cup st.next, op.rel) : Len(r) = Len(op.vars)}
        seq  == Listed(rows)
        KeyOf(r) == LET e == Bind(st.env, op.vars, r)
                    IN  [i \in DOMAIN op.keys |->
                           IF op.keys[i] \in DOMAIN e THEN e[op.keys[i]] ELSE Null]
        keys == Listed({KeyOf(r) : r \in rows})
        Group(key) == SelectSeq(seq, LAMBDA r : KeyOf(r) = key)
        One(s, key) ==
          IF s.error # "" THEN s
          ELSE Exec(op.body, db,
                 FoldLeft(LAMBDA t, agg : IF t.error # "" THEN t
                                          ELSE Aggregated(agg, Group(key), op.vars, t),
                          [s EXCEPT !.env = Bind(@, op.keys, key)], op.aggs))
        bound == IF seq = <<>> THEN st ELSE [st EXCEPT !.env = Bind(@, op.vars, Last(seq))]
    IN  FoldLeft(One, bound, keys)

\* The value of a field of a struct, the first one of its name
FieldOf(v, field) ==
    LET at == {i \in 1..Len(v.args) \div 2 : v.args[2 * i - 1] = Name(field)}
    IN  IF v.kind # "Struct" \/ at = {} THEN Null ELSE v.args[2 * Min(at)]

ExecInsert(op, db, st) ==
    LET vals == Operands(st.env, op.args)
    IN  IF IsErr(FirstErr(vals)) THEN Fail(st, FirstErr(vals))
        ELSE InsertFact(st, db, Fact(op.rel, vals))

Unbind(var, st) == IF st.error # "" THEN st ELSE [st EXCEPT !.env = Without(@, var)]

\* Op::MatchField and Op::IterateList unbind their variable when they are done.
ExecExtract(op, db, st) ==
    LET v == Operand(st.env, IF op.op = "MatchField" THEN op.struct ELSE op.list)
        found == CASE op.op = "IterateList" -> IF v.kind = "List" THEN v.args ELSE <<>>
                   [] FieldOf(v, op.field) = Null -> <<>>
                   [] OTHER -> <<FieldOf(v, op.field)>>
    IN  IF IsErr(v) THEN Fail(st, v)
        ELSE IF found = <<>> /\ v.kind # "List" THEN st
        ELSE Unbind(op.var,
               FoldLeft(LAMBDA s, x : IF s.error # "" THEN s
                          ELSE Exec(op.body, db, [s EXCEPT !.env = Bind(@, <<op.var>>, <<x>>)]),
                        st, found))

Exec(op, db, st) ==
    CASE st.error # "" -> st
      [] op.op = "Seq" -> FoldLeft(LAMBDA s, o : Exec(o, db, s), st, op.ops)
      [] op.op = "Iterate" ->
           LET err == SourceErr(op.source, st.env)
           IN  IF IsErr(err) THEN Fail(st, err)
               ELSE ExecRows(op.body, SourceRows(op.source, db, st.env), op.source.vars,
                             op.source.rel, db, st)
      [] op.op = "Filter" ->
           LET a == EvalCond(op.cond, db, st.env)
           IN  IF a.error = "" /\ ~a.holds THEN st
               ELSE Exec(op.body, db, [st EXCEPT !.error = a.error])
      [] op.op = "Insert" -> ExecInsert(op, db, st)
      [] op.op = "Let" ->
           Exec(op.body, db, BindTo(st, st.env, op.var, EvalExpr(st.env, op.f, op.args)))
      [] op.op = "HashJoin" -> ExecHashJoin(op, db, st)
      [] op.op = "GroupBy"  -> ExecGroupBy(op, db, st)
      [] op.op \in {"MatchField", "IterateList"} -> ExecExtract(op, db, st)
=============================================================================
