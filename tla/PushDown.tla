------------------------------ MODULE PushDown ------------------------------
(***************************************************************************)
(* The predicates that Database::reload hands to the sources of base       *)
(* facts: extract_predicates of crates/mangle-db/src/predicate.rs over the *)
(* plans of all rules, and the default scan_with_predicates of             *)
(* src/source.rs.  A column predicate is [rel, col, op, value].            *)
(***************************************************************************)
EXTENDS PlanInterpreter

ColumnPredicate(rel, col, op, value) == [rel |-> rel, col |-> col, op |-> op, value |-> value]

\* flip_cmp, on the comparisons there are
FlipCmp == [eq |-> "eq", neq |-> "neq", lt |-> "gt", le |-> "ge", gt |-> "lt", ge |-> "le"]

\* condition_to_predicate and try_var_const: a variable of the scan against a
\* constant, on either side
ConditionToPredicate(cond, scan) ==
    LET of(op, l, r) ==
          {ColumnPredicate(scan.rel, i, op, r) :
             i \in {j \in DOMAIN scan.vars : l = VarOf(scan.vars[j]) /\ ~IsVar(r)}}
    IN  IF cond.c \notin DOMAIN FlipCmp THEN {}
        ELSE of(cond.c, cond.args[1], cond.args[2])
             \cup of(FlipCmp[cond.c], cond.args[2], cond.args[1])

\* collect_filters: the chain of filters directly under a scan
RECURSIVE CollectFilters(_, _)
CollectFilters(op, scan) ==
    IF op.op # "Filter" THEN {}
    ELSE ConditionToPredicate(op.cond, scan) \cup CollectFilters(op.body, scan)

\* extract_from_iterate; an index lookup is an equality by itself.
ExtractFromIterate(scan, body) ==
    CASE scan.src = "scan"  -> CollectFilters(body, scan)
      [] scan.src = "index" -> IF IsVar(scan.key) THEN {}
                               ELSE {ColumnPredicate(scan.rel, scan.col, "eq", scan.key)}
      [] OTHER -> {}

\* extract_from_op
RECURSIVE ExtractFromOp(_)
ExtractFromOp(op) ==
    CASE op.op = "Insert"  -> {}
      [] op.op = "Seq"     -> UNION {ExtractFromOp(o) : o \in ToSet(op.ops)}
      [] op.op = "Iterate" -> ExtractFromIterate(op.source, op.body) \cup ExtractFromOp(op.body)
      [] OTHER             -> ExtractFromOp(op.body)

\* extract_edb_predicates: of every rule, for the relations that no rule defines
ExtractPredicates(ops, edb) == {p \in UNION {ExtractFromOp(op) : op \in ops} : p.rel \in edb}

\* ColumnPredicate::eval
EvalPredicateOn(p, row) == p.col \in DOMAIN row /\ Holds(p.op, row[p.col], p.value)

\* scan_with_predicates, of all relations: a row is kept that passes all.
ScanWithPredicates(facts, predicates) ==
    IF predicates = {} THEN facts
    ELSE {f \in facts : \A p \in predicates : p.rel = f.pred => EvalPredicateOn(p, f.args)}
=============================================================================
