------------------------------ MODULE JoinPlan ------------------------------
(***************************************************************************)
(* How one rule is planned and run: `Planner` of                           *)
(* crates/mangle-analysis/src/planner.rs and the join part of              *)
(* `Interpreter::exec_op` of crates/mangle-interpreter/src/lib.rs, against *)
(* the declarative meaning of a rule.                                      *)
(*                                                                         *)
(* A term is a variable or a value; a fact is [pred, args].  A premise is  *)
(* [kind, pred, args]: an atom, a negated atom (neg), an equality (eq), an *)
(* inequality (neq) or a comparison built-in (lt, for all of :lt ... :ge   *)
(* and the string tests; its pred is the name of the built-in).  A rule is *)
(* [head, body].  Function terms, lists and structures, and the transforms *)
(* after |>, are left out: their values are computed from bound variables  *)
(* and bind at most one more.                                              *)
(***************************************************************************)
EXTENDS SequencesExt, Naturals

CONSTANTS
    Vars,    \* variables
    Values,  \* constants, a set of numbers
    NoPred   \* the delta_pred of a plan that is not a delta plan

VarsOf(args) == Vars \cap ToSet(args)

----------------------------------------------------------------------------
(* delay_unbound_premises *)

Delayable(p) == p.kind \in {"neg", "eq", "neq"}

\* premise_ready: an equality needs one side bound, the other is then checked
\* or let-bound.
Ready(p, bound) ==
    CASE p.kind \in {"neg", "neq"} -> VarsOf(p.args) \subseteq bound
      [] p.kind = "eq" -> \E i \in 1..2 : VarsOf(<<p.args[i]>>) \subseteq bound
      [] OTHER         -> TRUE

\* premise_bindings
Binds(p) == IF p.kind \in {"atom", "eq"} THEN VarsOf(p.args) ELSE {}

Placed(acc, p) ==
    [acc EXCEPT !.ordered = Append(@, p), !.bound = @ \cup Binds(p)]

\* One pass over the waiting premises: the ready ones are placed.
Pass(acc) ==
    LET Visit(a, w) == IF Ready(w, a.bound) THEN Placed(a, w)
                       ELSE [a EXCEPT !.waiting = Append(@, w)]
    IN  FoldLeft(Visit, [acc EXCEPT !.waiting = <<>>], acc.waiting)

\* place_premise: passes until one places nothing, which takes at most as many
\* as premises wait.
PlacePremise(acc, p) ==
    LET after[i \in 0..Len(acc.waiting)] ==
          IF i = 0 THEN Placed(acc, p) ELSE Pass(after[i - 1])
    IN  after[Len(acc.waiting)]

\* The order in which the premises are planned; what still waits at the end
\* comes last.
Ordered(body) ==
    LET Next1(acc, p) ==
          IF Delayable(p) /\ ~Ready(p, acc.bound)
          THEN [acc EXCEPT !.waiting = Append(@, p)]
          ELSE PlacePremise(acc, p)
        all == FoldLeft(Next1, [ordered |-> <<>>, bound |-> {}, waiting |-> <<>>],
                        body)
    IN  all.ordered \o all.waiting

BoundBefore(ordered, k) == UNION {Binds(ordered[j]) : j \in 1..k - 1}

----------------------------------------------------------------------------
(* plan_join_sequence for an atom: where its tuples are read from *)

\* An index lookup needs an argument that is a constant or already bound.
Indexed(p, bound) == ToSet(p.args) \cap (Values \cup bound) # {}

\* Mutant of ReadsDelta: every atom of the delta predicate reads the delta.
ReadsDeltaAlways(p, bound, deltaPred) == p.pred = deltaPred

\* Only an atom that has no index lookup and is of the delta predicate reads
\* the delta; every other one reads stable and delta facts.
ReadsDelta(p, bound, deltaPred) == ~Indexed(p, bound) /\ p.pred = deltaPred

----------------------------------------------------------------------------
(* exec_op: the plan run over sets of environments *)

Value(env, t) == IF t \in DOMAIN env THEN env[t] ELSE t

Ground(atom, env) ==
    [pred |-> atom.pred, args |-> [i \in DOMAIN atom.args |-> Value(env, atom.args[i])]]

\* The environment after scanning a tuple: the first occurrence of a variable
\* that is not bound yet binds it.
Scanned(env, args, tuple) ==
    LET First(v) == CHOOSE i \in DOMAIN args :
                        args[i] = v /\ \A j \in 1..i - 1 : args[j] # v
    IN  [v \in DOMAIN env \cup VarsOf(args) |->
            IF v \in DOMAIN env THEN env[v] ELSE tuple[First(v)]]

\* Op::Iterate with the equality filters of apply_constraints.
Iterate(env, p, facts) ==
    {x \in {Scanned(env, p.args, f.args) :
              f \in {g \in facts : g.pred = p.pred /\ Len(g.args) = Len(p.args)}} :
        Ground(p, x) \in facts}

\* Op::Let for an equality with a fresh side, Op::Filter for one without.
Fresh(env, t) == t \in Vars \ DOMAIN env

Let(env, v, t) == [x \in DOMAIN env \cup {v} |-> IF x = v THEN Value(env, t) ELSE env[x]]

\* Evaluating an operand that no environment binds is an error.
Fails(env, p) ==
    CASE p.kind = "atom" -> FALSE
      [] p.kind = "eq"   -> Fresh(env, p.args[1]) /\ Fresh(env, p.args[2])
      [] OTHER           -> \E t \in VarsOf(p.args) : Fresh(env, t)

Filters(env, p, facts) ==
    LET val(i) == Value(env, p.args[i])
    IN  CASE p.kind = "neg" -> Ground(p, env) \notin facts
          [] p.kind = "eq"  -> val(1) = val(2)
          [] p.kind = "neq" -> val(1) # val(2)
          [] p.kind = "lt"  -> val(1) < val(2)

Step(env, p, deltaPred, store) ==
    LET all == store.stable \cup store.delta
    IN  CASE p.kind = "atom" ->
               Iterate(env, p, IF ReadsDelta(p, DOMAIN env, deltaPred)
                               THEN store.delta ELSE all)
          [] p.kind = "eq" /\ Fresh(env, p.args[1]) -> {Let(env, p.args[1], p.args[2])}
          [] p.kind = "eq" /\ Fresh(env, p.args[2]) -> {Let(env, p.args[2], p.args[1])}
          [] OTHER -> IF Filters(env, p, all) THEN {env} ELSE {}

\* Interpreter::execute on the plan of a rule: the facts it hands to `insert`,
\* and whether it stopped with an error.
Execute(rule, deltaPred, store) ==
    LET Run(r, p) ==
          [envs   |-> UNION {Step(env, p, deltaPred, store) :
                               env \in {e \in r.envs : ~Fails(e, p)}},
           failed |-> r.failed \/ \E env \in r.envs : Fails(env, p)]
        end == FoldLeft(Run, [envs |-> {<<>>}, failed |-> FALSE],
                        Ordered(rule.body))
        ground == {env \in end.envs : VarsOf(rule.head.args) \subseteq DOMAIN env}
    IN  [facts  |-> {Ground(rule.head, env) : env \in ground},
         failed |-> end.failed \/ ground # end.envs]

----------------------------------------------------------------------------
(* the declarative meaning of a plan *)

\* The places of the atoms among the ordered premises.
AtomsAt(ordered) ==
    SelectSeq([i \in DOMAIN ordered |-> i], LAMBDA i : ordered[i].kind = "atom")

\* The ground instances of a rule whose equalities, inequalities and
\* comparisons hold: the facts it needs in plan order, and those it denies.
Instances(rule) ==
    LET ordered == Ordered(rule.body)
        at      == AtomsAt(ordered)
        vars    == VarsOf(rule.head.args) \cup UNION {VarsOf(p.args) : p \in ToSet(ordered)}
        tests   == {p \in ToSet(ordered) : p.kind \in {"eq", "neq", "lt"}}
    IN  {[head |-> Ground(rule.head, x),
          pos  |-> [k \in DOMAIN at |-> Ground(ordered[at[k]], x)],
          neg  |-> {Ground(p, x) : p \in {q \in ToSet(ordered) : q.kind = "neg"}}] :
         x \in {y \in [vars -> Values] : \A p \in tests : Filters(y, p, {})}}

\* plan_rule, with or without with_delta: the instances of the rule and the
\* positions that are read from the delta.
Plan(rule, deltaPred) ==
    LET ordered == Ordered(rule.body)
        at      == AtomsAt(ordered)
    IN  [instances |-> Instances(rule),
         delta     |-> {k \in DOMAIN at :
                          ReadsDelta(ordered[at[k]], BoundBefore(ordered, at[k]),
                                     deltaPred)}]

\* The heads a plan derives from a store.
Derives(plan, store) ==
    LET all == store.stable \cup store.delta
    IN  {i.head : i \in
          {j \in plan.instances :
             /\ \A k \in DOMAIN j.pos :
                  j.pos[k] \in (IF k \in plan.delta THEN store.delta ELSE all)
             /\ j.neg \cap all = {}}}
=============================================================================
