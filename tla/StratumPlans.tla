---------------------------- MODULE StratumPlans ----------------------------
(***************************************************************************)
(* The planning half of `execute_with_options`                             *)
(* (crates/mangle-driver/src/lib.rs): the plans of one stratum.            *)
(***************************************************************************)
EXTENDS JoinPlan

RulesFor(preds, program) == SelectSeq(program, LAMBDA r : r.head.pred \in preds)

\* A premise that can make its stratum recursive.
Within(p, preds) == p.kind = "atom" /\ p.pred \in preds

\* One delta plan for every premise of the rule that is in its stratum.
DeltaPlans(r, preds) ==
    LET mine == SelectSeq(r.body, LAMBDA p : Within(p, preds))
    IN  [i \in DOMAIN mine |-> Plan(r, mine[i].pred)]

\* A stratum without rules and one that is not recursive run once; both end in
\* the same merge.
StratumPlan(preds, program) ==
    LET rules == RulesFor(preds, program)
    IN  [recursive |-> \E r \in ToSet(rules) : \E p \in ToSet(r.body) : Within(p, preds),
         initial   |-> [i \in DOMAIN rules |-> Plan(rules[i], NoPred)],
         delta     |-> FlattenSeq([i \in DOMAIN rules |-> DeltaPlans(rules[i], preds)])]
=============================================================================
