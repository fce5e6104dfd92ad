---------------------------- MODULE RulePipeline ----------------------------
(***************************************************************************)
(* A program on its way through crates/mangle-driver/src/lib.rs: checked   *)
(* (BoundsCheck), planned (RulePlanner) and interpreted rule by rule       *)
(* (PlanInterpreter), compiled and run by the vm (CompiledPlan), or        *)
(* reloaded by a Database, which filters the base facts first (PushDown).  *)
(*                                                                         *)
(* The rules come in the order of their strata, no rule reads what it or a *)
(* later one derives; module SemiNaive has the recursive strata.           *)
(***************************************************************************)
EXTENDS CompiledPlan, BoundsCheck, PushDown

CONSTANTS Sources,      \* names of programs
          Compiled(_),  \* the program of a name: [decls, rules, temporal]
          Stores        \* the facts that a run may start from, by name

VARIABLES source, hash, store, plans, pushed, stage, at, derived, error, executed

ruleVars == <<source, hash, store, plans, pushed, stage, at, derived, error, executed>>

program == Compiled(source)
given   == ScanWithPredicates(Stores[store], pushed)
db      == given \cup derived

PlanOf(rule) == PlanRule(rule, [delta |-> "", hash |-> hash])

NotRun == [panic |-> FALSE, facts |-> {}]

RuleInit ==
    /\ source \in Sources
    /\ hash \in BOOLEAN
    /\ store \in DOMAIN Stores
    /\ plans = <<>> /\ pushed = {}
    /\ stage = "source" /\ at = 1 /\ derived = {} /\ error = "" /\ executed = NotRun

\* compile_units: the bounds checker has the last word.
Check ==
    /\ stage = "source"
    /\ stage' = IF Accepted(program) THEN "accepted" ELSE "rejected"
    /\ UNCHANGED <<source, hash, store, plans, pushed, at, derived, error, executed>>

\* execute_with_options: every rule is planned before any is run.
Plan ==
    /\ stage = "accepted"
    /\ plans' = [i \in DOMAIN program.rules |-> PlanOf(program.rules[i])]
    /\ stage' = IF NoPlan \in ToSet(plans') THEN "unplanned" ELSE "planned"
    /\ UNCHANGED <<source, hash, store, pushed, at, derived, error, executed>>

\* A stratum of one rule: execute and merge_deltas
Evaluate ==
    /\ stage \in {"planned", "reloaded"} /\ at <= Len(program.rules)
    /\ \E tiers \in {[stable |-> db, delta |-> {}]} : \E st \in {Exec(plans[at], tiers, Start)} :
         /\ error' = st.error
         /\ derived' = IF st.error = "" THEN derived \cup st.next ELSE derived
         /\ stage' = IF st.error = "" THEN stage ELSE "failed"
    /\ at' = at + 1
    /\ UNCHANGED <<source, hash, store, plans, pushed, executed>>

EvaluatedToTheEnd == stage \in {"planned", "reloaded"} /\ at > Len(program.rules)

\* compile_to_wasm and Vm::execute; a plan for which no code can be emitted
\* panics.
RunCompiled ==
    /\ stage = "planned" /\ EvaluatedToTheEnd
    /\ \E code \in {GeneratedAll(program.rules, hash)}, facts \in {given} :
         /\ stage' = IF Emits(code) THEN "executed" ELSE "unemitted"
         /\ executed' = IF Emits(code) THEN [Executed(code, facts) EXCEPT !.facts = @ \ facts]
                        ELSE NotRun
    /\ UNCHANGED <<source, hash, store, plans, pushed, at, derived, error>>

\* Database::reload: what was derived and loaded is cleared, the base facts are
\* loaded again through the predicates, and the rules are run.
Reload ==
    /\ stage = "planned" /\ EvaluatedToTheEnd
    /\ pushed' = ExtractPredicates(ToSet(plans),
                                   {f.pred : f \in Stores[store]}
                                   \ {r.head.pred : r \in ToSet(program.rules)})
    /\ stage' = "reloaded" /\ at' = 1 /\ derived' = {}
    /\ UNCHANGED <<source, hash, store, plans, error, executed>>

RuleNext == Check \/ Plan \/ Evaluate \/ RunCompiled \/ Reload

----------------------------------------------------------------------------
(* What a rule means *)

\* The value of a term under an assignment
RECURSIVE Meaning(_, _)
Meaning(t, env) ==
    LET vals == [i \in DOMAIN t.args |-> Meaning(t.args[i], env)]
    IN  CASE IsVar(t) -> env[t.name]
          [] t.kind = "ApplyFn" \/ t.args # <<>> ->
               IF \E v \in ToSet(vals) : IsErr(v) THEN Err ELSE EvalFunction(ConstructorOf(t), vals)
          [] OTHER -> t

\* A premise holds of the facts under an assignment.
TrueOf(p, v, facts) ==
    LET builtin ==
          CASE p.pred \in ComparisonPreds -> {Holds(CmpOf(p.pred), v[1], v[2])}
            [] p.pred = ":list:member" -> {v[2].kind = "List" /\ v[1] \in ToSet(v[2].args)}
            [] p.pred = ":match_field" -> {FieldOf(v[1], p.args[2].name) = v[3]}
            [] OTHER -> EvalPredicate(p.pred, v)
        atom == IF p.pred \in BuiltinPreds THEN TRUE \in builtin ELSE Fact(p.pred, v) \in facts
    IN  IF \E x \in ToSet(v) : IsErr(x) THEN FALSE
        ELSE CASE p.kind = "Atom"    -> atom
               [] p.kind = "NegAtom" -> ~atom
               [] p.kind = "Eq"      -> v[1] = v[2]
               [] p.kind = "Ineq"    -> v[1] # v[2]

True(p, env, facts) == TrueOf(p, [i \in DOMAIN p.args |-> Meaning(p.args[i], env)], facts)

RuleVars(rule) == VarsInAll(rule.head.args) \cup UNION {VarsInAll(p.args) : p \in ToSet(rule.premises)}

\* The values in facts, the elements of compounds included
RECURSIVE Within(_)
Within(v) == {v} \cup UNION {Within(a) : a \in ToSet(v.args)}

\* The constants and facts, and the results of the functions of the rule on them
Universe(rule, facts) ==
    LET terms == UNION {ToSet(p.args) : p \in ToSet(rule.premises)} \cup ToSet(rule.head.args)
        known == UNION {UNION {Within(a) : a \in ToSet(f.args)} : f \in facts}
                 \cup {t \in terms : t.kind \in Scalars}
        calls == {t \in terms : t.kind = "ApplyFn"}
    IN  known \cup {v \in UNION {{Meaning(c, e) : e \in [VarsIn(c) -> known]} : c \in calls} :
                      ~IsErr(v)}

\* The values a variable may have: of the columns of atoms it occurs in
Candidates(x, rule, facts, universe) ==
    LET cols == {<<p, i>> \in ToSet(rule.premises) \X (1..3) :
                 /\ p.kind = "Atom" /\ p.pred \notin BuiltinPreds
                 /\ i \in DOMAIN p.args /\ p.args[i] = VarOf(x)}
    IN  {v \in universe : \A pi \in cols : \E f \in facts :
           f.pred = pi[1].pred /\ pi[2] \in DOMAIN f.args /\ f.args[pi[2]] = v}

\* The assignments under which all premises hold
RECURSIVE Assignments(_, _, _)
Assignments(xs, rule, facts) ==
    IF xs = {} THEN {<<>>}
    ELSE LET x == CHOOSE y \in xs : TRUE
         IN  {(x :> v) @@ e : v \in Candidates(x, rule, facts, Universe(rule, facts)),
                              e \in Assignments(xs \ {x}, rule, facts)}

\* The facts that the rule derives
Consequences(rule, facts) ==
    {Fact(rule.head.pred, [i \in DOMAIN rule.head.args |-> Meaning(rule.head.args[i], env)]) :
        env \in {e \in Assignments(RuleVars(rule), rule, facts) :
                   \A p \in ToSet(rule.premises) : True(p, e, facts)}}

----------------------------------------------------------------------------
(* Properties *)

\* What the binding analysis takes on faith: a function term in an atom mentions
\* only variables of atoms before it, and a leading let only lets before it.
OrderedUse(rule) ==
    LET ps == rule.premises
        before(i) == UNION {VarsInAll(SelectSeq(ps[j].args, IsVar)) :
                              j \in {k \in 1..i - 1 : ps[k].kind = "Atom"}}
        lets == Blocks(rule.transforms)[1]
    IN  /\ \A i \in DOMAIN ps : ps[i].kind = "Atom" /\ ps[i].pred \notin BuiltinPreds =>
             \A a \in ToSet(ps[i].args) : IsVar(a) \/ VarsIn(a) \subseteq before(i)
        /\ \A i, j \in DOMAIN lets : i <= j => lets[j].var \notin VarsIn(lets[i].app)

Tidy == \A r \in ToSet(program.rules) : OrderedUse(r)

\* Evaluation of a program that the bounds checker accepts never meets a variable
\* without a value ("Variable not found"): the binding analysis, the reordering of
\* premises and the planner agree on what is bound where.
NeverUnbound == error = "unbound" => ~Tidy

\* What narrows a type without a test at run time: an inequality, a negated
\* :match_prefix, and fn:max and fn:min, which are numbers to the checker
NarrowsUnchecked(rule) ==
    \/ \E p \in ToSet(rule.premises) :
         p.kind = "Ineq" \/ (p.kind = "NegAtom" /\ p.pred = ":match_prefix")
    \/ \E t \in ToSet(rule.transforms) : t.app.name[1] \in {"max", "min"}

WellTyped(f) ==
    f.pred \in DOMAIN program.decls =>
        \E alt \in ToSet(program.decls[f.pred]) :
            Len(alt) = Len(f.args) /\ \A i \in DOMAIN alt : HasType(alt[i], f.args[i])

\* Every fact that an accepted program derives from well-typed facts has the types
\* declared for its predicate.
DerivedAreTyped ==
    derived # {} /\ (\A r \in ToSet(program.rules) : ~NarrowsUnchecked(r)) =>
        \A f \in derived : WellTyped(f)

MeaningDerived(rule) ==
    \A facts \in {Stores[store] \cup derived} :
        {f \in db : f.pred = rule.head.pred} = Consequences(rule, facts)

HasBuiltin(rule) == \E p \in ToSet(rule.premises) : p.kind = "Atom" /\ p.pred \in BuiltinPreds

\* No premise but one reads the relation of a pushed-down predicate.
ReadOnce(rel) ==
    LET reads == {<<i, j>> \in (DOMAIN program.rules) \X (1..3) :
                    /\ j \in DOMAIN program.rules[i].premises
                    /\ program.rules[i].premises[j].pred = rel}
    IN  Cardinality(reads) = 1

\* The evaluation of a rule derives exactly what the rule means, whatever the order
\* of its premises; with hash joins too, unless it has a built-in to join; and from
\* the facts that a reload kept too, unless it filtered a relation that is read twice.
DerivesTheMeaning ==
    EvaluatedToTheEnd /\ (\A p \in pushed : ReadOnce(p.rel)) =>
        \A r \in ToSet(program.rules) :
            r.transforms = <<>> /\ ~(hash /\ HasBuiltin(r)) => MeaningDerived(r)

\* source.rs 102-103: the predicates "represent constraints that are always applied to
\* every row scanned from this relation, so filtering at the source is safe": after a
\* reload the rules derive what they mean on all facts of the source.
FilteringIsSafe ==
    stage = "reloaded" /\ EvaluatedToTheEnd =>
        \A r \in ToSet(program.rules) :
            r.transforms = <<>> /\ ~(hash /\ HasBuiltin(r)) => MeaningDerived(r)

\* The functions in a term
RECURSIVE CallsIn(_)
CallsIn(t) == (IF t.kind = "ApplyFn" THEN {t} ELSE {}) \cup UNION {CallsIn(a) : a \in ToSet(t.args)}

\* fn:minus and fn:div of one argument are compiled to the argument itself.
Portable(rule) ==
    \A t \in UNION {ToSet(p.args) : p \in ToSet(rule.premises)}
             \cup ToSet(rule.head.args) \cup {u.app : u \in ToSet(rule.transforms)} :
        \A c \in CallsIn(t) : c.name[1] \in {"minus", "div"} => Len(c.args) > 1

\* A compiled program derives what the interpreter derives from the same facts, the
\* relations made up for group_by included.
CompiledAgrees ==
    stage = "executed" /\ (\A r \in ToSet(program.rules) : Portable(r))
        => ~executed.panic /\ executed.facts = derived
=============================================================================
