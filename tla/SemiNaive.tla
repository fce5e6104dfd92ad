----------------------------- MODULE SemiNaive -----------------------------
(***************************************************************************)
(* The running half of `execute_with_options`                              *)
(* (crates/mangle-driver/src/lib.rs) over the three tiers of `MemStore`    *)
(* (crates/mangle-interpreter/src/lib.rs): the strata in order, each run   *)
(* once or by semi-naive rounds until a round inserts nothing.             *)
(*                                                                         *)
(* A program is a sequence of strata as StratumPlans makes them.  A plan   *)
(* is the set of ground instances [head, pos, neg] of its rule and the     *)
(* positions it reads from the delta; MCSemiNaive shows that this is what  *)
(* the interpreter computes from the rule.  Programs whose evaluation      *)
(* fails are left out: the error drops the store that is built here        *)
(* (full_recompute of crates/mangle-db/src/database.rs).                   *)
(***************************************************************************)
EXTENDS Naturals, Sequences

CONSTANTS
    Facts,     \* ground facts
    Programs,  \* the planned programs: each the sequence of its strata
    Edbs       \* the sets of facts the extensional relations may hold

Instances == [head : Facts, pos : Seq(Facts), neg : SUBSET Facts]

Plans == [instances : SUBSET Instances, delta : SUBSET Nat]

StratumPlans == [recursive : BOOLEAN, initial : Seq(Plans), delta : Seq(Plans)]

\* The constants are what their comments say they are.
ASSUME ConstantTypes ==
    /\ Programs \subseteq Seq(StratumPlans)
    /\ Edbs \subseteq SUBSET Facts

InstancesOf(s) == UNION {s.initial[j].instances : j \in DOMAIN s.initial}

HeadsOf(s) == {i.head : i \in InstancesOf(s)}

\* What planning guarantees of a stratum: only delta plans read the delta, delta
\* plans are of rules of the stratum, no rule negates a predicate of its own
\* stratum, and a stratum that is not recursive does not use its own heads.
WellPlanned(s) ==
    /\ \A j \in DOMAIN s.initial : s.initial[j].delta = {}
    /\ \A j \in DOMAIN s.delta : s.delta[j].instances \subseteq InstancesOf(s)
    /\ \A i \in InstancesOf(s) : i.neg \cap HeadsOf(s) = {}
    /\ ~s.recursive =>
         \A i \in InstancesOf(s) : \A k \in DOMAIN i.pos : i.pos[k] \notin HeadsOf(s)

\* Every stratum of every program is planned.
ASSUME ProgramsArePlanned ==
    \A strata \in Programs : \A j \in DOMAIN strata : WellPlanned(strata[j])

\* Whenever a fact of a recursive stratum can be the last premise of an instance
\* to appear, some delta plan that has the instance reads at most that premise
\* from the delta.
Covering(s) ==
    s.recursive =>
        \A i \in InstancesOf(s) : \A k \in DOMAIN i.pos :
            i.pos[k] \in HeadsOf(s) =>
                \E j \in DOMAIN s.delta :
                    i \in s.delta[j].instances /\ s.delta[j].delta \subseteq {k}

VARIABLES
    strata_plans,         \* the program that is run: all of it is planned first
    stable, delta, next,  \* the tiers of MemStore
    stratum,              \* index of the stratum at work; one past the last when done
    phase,                \* "initial": its initial plans; "rounds": its delta plans
    op,                   \* index of the plan to run next
    changes,              \* whether this round inserted a fact
    base                  \* history: the facts known when the stratum began

vars == <<strata_plans, stable, delta, next, stratum, phase, op, changes, base>>

\* What scan and scan_index read.
Visible == stable \cup delta

All == Visible \cup next

Done == stratum > Len(strata_plans)

Current == strata_plans[stratum]

\* full_recompute: the extensional facts are inserted and merged once, which
\* puts them in the delta.
Init ==
    /\ strata_plans \in Programs
    /\ base \in Edbs
    /\ stable = {}
    /\ delta = base
    /\ next = {}
    /\ stratum = 1
    /\ phase = "initial"
    /\ op = 1
    /\ changes = FALSE

\* Mutant of Fires: negated premises are not checked.
FiresUnlessMissing(i, plan) ==
    \A k \in DOMAIN i.pos : i.pos[k] \in (IF k \in plan.delta THEN delta ELSE Visible)

\* Interpreter::execute on one plan.
Fires(i, plan) ==
    /\ \A k \in DOMAIN i.pos : i.pos[k] \in (IF k \in plan.delta THEN delta ELSE Visible)
    /\ i.neg \cap Visible = {}

Derived(plan) == {i.head : i \in {j \in plan.instances : Fires(j, plan)}}

\* Mutant of Insert: only the stable facts are looked up.
InsertUnlessStable(facts) == next' = next \cup (facts \ stable)

\* MemStore::insert: a fact that is in a tier is not inserted again.
Insert(facts) == next' = next \cup (facts \ All)

\* MemStore::merge_deltas
MergeDeltas ==
    /\ stable' = stable \cup delta
    /\ delta' = next
    /\ next' = {}

RunInitial ==
    /\ ~Done
    /\ phase = "initial"
    /\ op <= Len(Current.initial)
    /\ Insert(Derived(Current.initial[op]))
    /\ op' = op + 1
    /\ UNCHANGED <<strata_plans, stable, delta, stratum, phase, changes, base>>

\* The initial plans of a recursive stratum are done.
StartRounds ==
    /\ ~Done
    /\ phase = "initial"
    /\ op > Len(Current.initial)
    /\ Current.recursive
    /\ MergeDeltas
    /\ phase' = "rounds"
    /\ op' = 1
    /\ changes' = FALSE
    /\ UNCHANGED <<strata_plans, stratum, base>>

\* Mutant of RunDelta: what is derived counts as a change, also if it is known.
RunDeltaCountsDerived ==
    /\ ~Done
    /\ phase = "rounds"
    /\ op <= Len(Current.delta)
    /\ Insert(Derived(Current.delta[op]))
    /\ changes' = (changes \/ Derived(Current.delta[op]) # {})
    /\ op' = op + 1
    /\ UNCHANGED <<strata_plans, stable, delta, stratum, phase, base>>

RunDelta ==
    /\ ~Done
    /\ phase = "rounds"
    /\ op <= Len(Current.delta)
    /\ Insert(Derived(Current.delta[op]))
    /\ changes' = (changes \/ next' # next)
    /\ op' = op + 1
    /\ UNCHANGED <<strata_plans, stable, delta, stratum, phase, base>>

NextRound ==
    /\ ~Done
    /\ phase = "rounds"
    /\ op > Len(Current.delta)
    /\ changes
    /\ MergeDeltas
    /\ op' = 1
    /\ changes' = FALSE
    /\ UNCHANGED <<strata_plans, stratum, phase, base>>

\* The plans of the stratum are done.
Finished ==
    /\ ~Done
    /\ \/ phase = "initial" /\ op > Len(Current.initial) /\ ~Current.recursive
       \/ phase = "rounds" /\ op > Len(Current.delta) /\ ~changes

\* The last merge of a stratum, and the next one begins.
NextStratum ==
    /\ Finished
    /\ MergeDeltas
    /\ stratum' = stratum + 1
    /\ phase' = "initial"
    /\ op' = 1
    /\ changes' = FALSE
    /\ base' = All
    /\ UNCHANGED strata_plans

Next ==
    \/ RunInitial
    \/ StartRounds
    \/ RunDelta
    \/ NextRound
    \/ NextStratum

Spec == Init /\ [][Next]_vars

\* The evaluation runs to its end: it is one function call.
FairSpec == Spec /\ WF_vars(Next)

----------------------------------------------------------------------------
(* properties *)

\* Every variable has the shape the code gives it.
TypeOK ==
    /\ strata_plans \in Programs
    /\ stable \in SUBSET Facts
    /\ delta \in SUBSET Facts
    /\ next \in SUBSET Facts
    /\ stratum \in Nat \ {0}
    /\ phase \in {"initial", "rounds"}
    /\ op \in Nat \ {0}
    /\ changes \in BOOLEAN
    /\ base \in SUBSET Facts

\* No fact is in two tiers: a scan, which chains stable and delta, never yields
\* a tuple twice, so aggregates count every fact once (MemStore::insert).
TiersAreDisjoint ==
    /\ stable \cap delta = {}
    /\ (stable \cup delta) \cap next = {}

\* M contains the head of every instance whose premises hold; negations speak
\* of the facts known before the stratum.
Closed(M, instances) ==
    \A i \in instances :
        (\A k \in DOMAIN i.pos : i.pos[k] \in M) /\ i.neg \cap base = {} => i.head \in M

\* Nothing is derived that does not follow: at every point the store is inside
\* every model of the stratum that contains the facts it began with (facts
\* that are neither known before nor a head of the stratum add nothing).
Sound ==
    ~Done => LET instances == InstancesOf(Current)
             IN  \A H \in SUBSET HeadsOf(Current) :
                    Closed(base \cup H, instances) => All \subseteq base \cup H

\* Everything that follows is derived: when the plans of a stratum are done, the
\* store still holds the facts it began with, and no rule of the stratum has a
\* consequence that is missing (driver lib.rs 338-349).
AtFixpoint == Finished => base \subseteq All /\ Closed(All, InstancesOf(Current))

\* The rounds of every stratum stop and the evaluation ends.
Terminates == <>Done
=============================================================================
