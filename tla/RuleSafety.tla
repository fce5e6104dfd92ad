------------------------------ MODULE RuleSafety ------------------------------
(***************************************************************************)
(* Which rules are accepted before any type is looked at: the arities of   *)
(* predicates and functions and the binding analysis of                    *)
(* crates/mangle-analysis/src/bounds_check.rs.  A program is               *)
(* [decls, rules, temporal]: the bounds declared for a predicate, the      *)
(* clauses in order (a fact is a rule without body) and the predicates with*)
(* two more columns for their interval.                                    *)
(***************************************************************************)
EXTENDS RulePlanner

FilterPreds == ComparisonPreds \cup TextPreds

IsFact(rule) == rule.premises = <<>> /\ rule.transforms = <<>>

----------------------------------------------------------------------------
(* check_arity_consistency, check_function_arities *)

\* What a declaration counts of the columns of an atom
DeclaredColumns(program, atom) ==
    IF atom.pred \in program.temporal /\ Len(atom.args) >= 2
    THEN Len(atom.args) - 2 ELSE Len(atom.args)

ArityConsistent(program) ==
    \A r, s \in ToSet(program.rules) :
        r.head.pred = s.head.pred =>
            DeclaredColumns(program, r.head) = DeclaredColumns(program, s.head)

VarArgFns == {"plus", "minus", "mult", "div", "float:plus", "float:minus", "float:mult",
              "float:div", "string:concat", "list", "group_by"}

FixedArityFns ==
    <<{"sqrt", "number:to_string", "float64:to_string", "name:to_string", "len", "list:len",
       "map:len", "struct:len", "pair:first", "pair:second", "map:keys", "map:values",
       "struct:values", "time:year", "time:month", "time:day", "time:hour", "time:minute",
       "time:second", "time:from_unix_nanos", "time:to_unix_nanos", "time:parse_rfc3339",
       "duration:hours", "duration:minutes", "duration:seconds", "duration:nanos",
       "duration:from_nanos", "duration:from_hours", "duration:from_minutes",
       "duration:from_seconds", "duration:parse"},
      {"pair", "list:get", "list:append", "map:get", "struct:get", "time:add", "time:sub",
       "time:trunc", "time:format", "time:parse_civil", "duration:add", "duration:mult"},
      {"time:format_civil"},
      {"string:replace"}>>

\* builtin_arity
ArityOk(f, n) ==
    \/ f \in VarArgFns
    \/ f \in {"map", "struct"} /\ n % 2 = 0
    \/ f \in Reducers /\ n >= 1
    \/ f = "time:now" /\ n = 0
    \/ n \in DOMAIN FixedArityFns /\ f \in FixedArityFns[n]

RECURSIVE TermAritiesOk(_)
TermAritiesOk(t) ==
    /\ t.kind = "ApplyFn" => ArityOk(t.name[1], Len(t.args))
    /\ \A a \in ToSet(t.args) : TermAritiesOk(a)

FunctionAritiesOk(rule) ==
    /\ \A p \in ToSet(rule.premises) : \A a \in ToSet(p.args) : TermAritiesOk(a)
    /\ \A t \in ToSet(rule.transforms) : TermAritiesOk(t.app)

----------------------------------------------------------------------------
(* check_rule_bindings: the premises *)

\* A wildcard that the parser has not renamed
Wild(v) == v = <<"_">>

\* An equality that waits for variables: target is bound once all of deps are.
Pending(target, deps, expr) == [target |-> target, deps |-> deps, expr |-> expr]

ScanEq(acc, l, r) ==
    LET binding(v, expr) ==
          IF VarsIn(expr) \subseteq acc.bound THEN [acc EXCEPT !.bound = @ \cup {v.name}]
          ELSE [acc EXCEPT !.pending = @ \cup {Pending(v.name, VarsIn(expr), TRUE)}]
    IN  CASE IsVar(l) /\ IsVar(r) ->
               IF {l.name, r.name} \cap acc.bound # {}
               THEN [acc EXCEPT !.bound = @ \cup {l.name, r.name}]
               ELSE [acc EXCEPT !.pending = @ \cup {Pending(l.name, {r.name}, FALSE),
                                                    Pending(r.name, {l.name}, FALSE)}]
          [] IsVar(l) -> binding(l, r)
          [] IsVar(r) -> binding(r, l)
          [] OTHER -> acc

\* A built-in with inputs: they must be bound already, the output, when it is a
\* variable, is bound then.
ScanExtract(acc, inputs, output) ==
    [acc EXCEPT !.ok = @ /\ inputs \subseteq acc.bound,
                !.bound = @ \cup inputs \cup (IF IsVar(output) THEN {output.name} ELSE {})]

\* Mutant of ScanAtom: a built-in filter binds its variables, as an atom does.
ScanAtomBinding(acc, p) == [acc EXCEPT !.bound = @ \cup VarsInAll(p.args)]

ScanAtom(acc, p) ==
    LET n == Len(p.args)
    IN  CASE p.pred \in FilterPreds ->
               [acc EXCEPT !.ok = @ /\ VarsInAll(p.args) \subseteq acc.bound]
          [] p.pred \in {":match_field", ":match_entry"} ->
               IF n # 3 THEN acc
               ELSE ScanExtract(acc, VarsIn(p.args[1]) \cup VarsIn(p.args[2]), p.args[3])
          [] p.pred = ":list:member" ->
               IF n # 2 THEN acc ELSE ScanExtract(acc, VarsIn(p.args[2]), p.args[1])
          [] OTHER -> [acc EXCEPT !.bound = @ \cup VarsInAll(p.args)]

\* What is left to the end of the body: of a negation only the arguments that
\* are variables.
ScanPremise(before, p) ==
    LET acc == [before EXCEPT !.seen = @ \cup VarsInAll(p.args)]
    IN  CASE p.kind = "Atom" -> ScanAtom(acc, p)
          [] p.kind = "NegAtom" ->
               [acc EXCEPT !.filters = @ \cup {a.name : a \in {b \in ToSet(p.args) :
                                                                 IsVar(b) /\ ~Wild(b.name)}}]
          [] p.kind = "Eq"   -> ScanEq(acc, p.args[1], p.args[2])
          [] p.kind = "Ineq" -> [acc EXCEPT !.filters = @ \cup VarsInAll(p.args)]

\* The fixpoint over the equalities that wait
RECURSIVE Resolved(_, _)
Resolved(bound, pending) ==
    LET more == {q.target : q \in {e \in pending : e.deps \subseteq bound}}
    IN  IF more \subseteq bound THEN bound ELSE Resolved(bound \cup more, pending)

----------------------------------------------------------------------------
(* check_rule_bindings: the transforms.  sc is [ok, available, defs, keys]:  *)
(* the variables in scope, those defined in the last block and its keys.    *)

\* Leading lets may use each other in any order.
ScanLets(lets, bound) ==
    LET named == {t.var : t \in {u \in ToSet(lets) : ~Wild(u.var)}}
    IN  [ok |-> named \cap bound = {}, available |-> bound \cup named, defs |-> named,
         keys |-> {}]

\* A let after group_by: a reducer sees what is in scope, another one the keys
\* and what its block has defined.  A wildcard is not looked at.
ScanBlockLet(sc, available, bound, t) ==
    LET scope == IF IsReducer(t) THEN available ELSE sc.keys \cup sc.defs
    IN  IF t.var = <<>> THEN [sc EXCEPT !.ok = FALSE]
        ELSE IF Wild(t.var) THEN sc
        ELSE [sc EXCEPT !.ok = @ /\ t.var \notin bound /\ VarsIn(t.app) \subseteq scope,
                        !.defs = @ \cup {t.var}]

ScanBlock(sc, block, bound) ==
    LET app  == block[1].app
        keys == {a.name : a \in ToSet(app.args)}
        fine == /\ IsFn(app, "group_by") /\ IsInjective(app.args)
                /\ \A a \in ToSet(app.args) : IsVar(a)
                /\ keys \subseteq sc.available
        done == FoldLeft(LAMBDA acc, t : ScanBlockLet(acc, sc.available, bound, t),
                         [sc EXCEPT !.ok = @ /\ fine, !.defs = {}, !.keys = keys], Tail(block))
    IN  [done EXCEPT !.available = done.keys \cup done.defs]

RuleBindingsOk(rule) ==
    LET headVars == VarsInAll(rule.head.args)
        body   == FoldLeft(ScanPremise,
                           [ok |-> TRUE, bound |-> {}, seen |-> headVars, pending |-> {},
                            filters |-> {}], rule.premises)
        bound  == Resolved(body.bound, body.pending)
        blocks == Blocks(rule.transforms)
        lets   == ScanLets(blocks[1], bound)
        last   == FoldLeft(LAMBDA sc, b : ScanBlock(sc, b, bound), lets, Tail(blocks))
        defs   == {t.var : t \in {u \in ToSet(rule.transforms) : u.var # <<>> /\ ~Wild(u.var)}}
        uses   == UNION {VarsIn(t.app) : t \in ToSet(blocks[1])}
    IN  /\ body.ok
        /\ \A q \in body.pending : q.expr => q.target \in bound
        /\ body.filters \subseteq bound
        /\ last.ok
        /\ headVars \subseteq (IF Len(blocks) > 1 THEN last.available ELSE bound \cup defs)
        /\ body.seen \subseteq bound \cup defs
        /\ uses \subseteq body.seen \cup defs

\* check_bindings: a fact has no variables.
BindingsOk(rule) ==
    IF IsFact(rule) THEN VarsInAll(rule.head.args) = {} ELSE RuleBindingsOk(rule)
=============================================================================
