-------------------------- MODULE SemiNaiveProofs --------------------------
(***************************************************************************)
(* Proofs about SemiNaive, for every set of facts, every planned program   *)
(* and every extensional database.                                         *)
(***************************************************************************)
EXTENDS SemiNaive, TLAPS

----------------------------------------------------------------------------
(* the stratum at work *)

LEMMA ElementType ==
    ASSUME NEW S, NEW seq \in Seq(S), NEW i \in DOMAIN seq
    PROVE  seq[i] \in S
OBVIOUS

LEMMA PlanType ==
    ASSUME NEW plans \in Seq(Plans), NEW j \in DOMAIN plans
    PROVE  plans[j].instances \subseteq Instances
<1>1. plans[j] \in Plans
  BY ElementType
<1> QED
  BY <1>1 DEF Plans

\* A stratum at work is planned, and its sequences have the length Len says.
LEMMA CurrentPlanned ==
    ASSUME strata_plans \in Programs, stratum \in Nat \ {0}, ~Done
    PROVE  /\ Current \in StratumPlans
           /\ WellPlanned(Current)
           /\ DOMAIN Current.initial = 1..Len(Current.initial)
           /\ DOMAIN Current.delta = 1..Len(Current.delta)
           /\ Len(Current.initial) \in Nat /\ Len(Current.delta) \in Nat
<1>1. strata_plans \in Seq(StratumPlans)
  BY ConstantTypes
<1>2. stratum \in DOMAIN strata_plans
  BY <1>1 DEF Done
<1>3. Current \in StratumPlans
  BY <1>1, <1>2, ElementType DEF Current
<1>4. WellPlanned(Current)
  BY <1>2, ProgramsArePlanned DEF Current
<1>5. Current.initial \in Seq(Plans) /\ Current.delta \in Seq(Plans)
  BY <1>3 DEF StratumPlans
<1> QED
  BY <1>3, <1>4, <1>5

\* The instances of a stratum are over facts, and so are its heads.
LEMMA InstanceType ==
    ASSUME NEW s \in StratumPlans
    PROVE  InstancesOf(s) \subseteq Instances /\ HeadsOf(s) \subseteq Facts
<1>1. s.initial \in Seq(Plans)
  BY DEF StratumPlans
<1>2. InstancesOf(s) \subseteq Instances
  BY <1>1, PlanType DEF InstancesOf
<1> QED
  BY <1>2 DEF HeadsOf, Instances

\* What a plan of the stratum derives are heads of the stratum.
LEMMA DerivedHeads ==
    ASSUME NEW plan, NEW s, plan.instances \subseteq InstancesOf(s)
    PROVE  Derived(plan) \subseteq HeadsOf(s)
BY DEF Derived, HeadsOf

----------------------------------------------------------------------------
(* the tiers *)

\* Every step keeps the facts that are visible and adds heads of the stratum at
\* work; the next stratum begins with all of them.
TierInv ==
    /\ TypeOK
    /\ TiersAreDisjoint
    /\ base \subseteq Visible
    /\ ~Done => All \subseteq base \cup HeadsOf(Current)

\* The plans that are run are of the stratum.
LEMMA PlansOfStratum ==
    ASSUME TypeOK, ~Done
    PROVE  /\ \A j \in DOMAIN Current.initial :
                Current.initial[j].instances \subseteq InstancesOf(Current)
           /\ \A j \in DOMAIN Current.delta :
                Current.delta[j].instances \subseteq InstancesOf(Current)
           /\ HeadsOf(Current) \subseteq Facts
<1>1. Current \in StratumPlans /\ WellPlanned(Current)
  BY CurrentPlanned DEF TypeOK
<1> QED
  BY <1>1, InstanceType DEF WellPlanned, InstancesOf

LEMMA TierInit == Init => TierInv
<1> SUFFICES ASSUME Init PROVE TierInv
  OBVIOUS
<1>1. changes \in BOOLEAN
  BY Zenon DEF Init
<1>2. TypeOK
  BY <1>1, ConstantTypes DEF Init, TypeOK
<1> QED
  BY <1>2 DEF Init, TierInv, TiersAreDisjoint, Visible, All

\* Inserting heads of the stratum.
LEMMA InsertKeepsTiers ==
    ASSUME TierInv, ~Done, NEW facts \in SUBSET HeadsOf(Current), Insert(facts),
           UNCHANGED <<strata_plans, stable, delta, stratum, base>>
    PROVE  /\ next' \in SUBSET Facts
           /\ TiersAreDisjoint'
           /\ (base \subseteq Visible)'
           /\ (~Done => All \subseteq base \cup HeadsOf(Current))'
<1>1. HeadsOf(Current) \subseteq Facts
  BY PlansOfStratum DEF TierInv
<1>2. Current' = Current
  BY DEF Current
<1> QED
  BY <1>1, <1>2 DEF TierInv, TypeOK, TiersAreDisjoint, Visible, All, Insert

\* Merging.
LEMMA MergeKeepsTiers ==
    ASSUME TypeOK, TiersAreDisjoint, MergeDeltas
    PROVE  /\ stable' \in SUBSET Facts /\ delta' \in SUBSET Facts /\ next' \in SUBSET Facts
           /\ TiersAreDisjoint'
           /\ All' = All /\ Visible' = All /\ stable' = Visible
BY DEF TypeOK, TiersAreDisjoint, MergeDeltas, All, Visible

LEMMA TierStep == TierInv /\ [Next]_vars => TierInv'
<1> SUFFICES ASSUME TierInv, [Next]_vars PROVE TierInv'
  OBVIOUS
<1> USE DEF TierInv
<1>1. CASE RunInitial
  <2>1. op \in DOMAIN Current.initial
    BY <1>1, CurrentPlanned DEF RunInitial, TypeOK
  <2>2. Derived(Current.initial[op]) \in SUBSET HeadsOf(Current)
    BY <1>1, <2>1, PlansOfStratum, DerivedHeads DEF RunInitial
  <2>3. /\ next' \in SUBSET Facts
        /\ TiersAreDisjoint'
        /\ (base \subseteq Visible)'
        /\ (~Done => All \subseteq base \cup HeadsOf(Current))'
    BY <1>1, <2>2, InsertKeepsTiers DEF RunInitial
  <2>4. TypeOK'
    BY <1>1, <2>3 DEF RunInitial, TypeOK
  <2> QED
    BY <2>3, <2>4
<1>2. CASE StartRounds
  <2>1. /\ stable' \in SUBSET Facts /\ delta' \in SUBSET Facts /\ next' \in SUBSET Facts
        /\ TiersAreDisjoint'
        /\ All' = All /\ Visible' = All /\ stable' = Visible
    BY <1>2, MergeKeepsTiers DEF StartRounds
  <2>2. TypeOK'
    <3>1. changes' \in BOOLEAN
      BY <1>2, Zenon DEF StartRounds
    <3> QED
      BY <1>2, <2>1, <3>1 DEF StartRounds, TypeOK
  <2>3. Current' = Current /\ base' = base /\ ~Done
    BY <1>2 DEF StartRounds, Current
  <2>4. (base \subseteq Visible)'
    BY <2>1, <2>3 DEF All
  <2> QED
    BY <2>1, <2>2, <2>3, <2>4
<1>3. CASE RunDelta
  <2>1. op \in DOMAIN Current.delta
    BY <1>3, CurrentPlanned DEF RunDelta, TypeOK
  <2>2. Derived(Current.delta[op]) \in SUBSET HeadsOf(Current)
    BY <1>3, <2>1, PlansOfStratum, DerivedHeads DEF RunDelta
  <2>3. /\ next' \in SUBSET Facts
        /\ TiersAreDisjoint'
        /\ (base \subseteq Visible)'
        /\ (~Done => All \subseteq base \cup HeadsOf(Current))'
    BY <1>3, <2>2, InsertKeepsTiers DEF RunDelta
  <2>4. changes' \in BOOLEAN
    BY <1>3, Zenon DEF RunDelta, TypeOK
  <2>5. TypeOK'
    BY <1>3, <2>3, <2>4 DEF RunDelta, TypeOK
  <2> QED
    BY <2>3, <2>5
<1>4. CASE NextRound
  <2>1. /\ stable' \in SUBSET Facts /\ delta' \in SUBSET Facts /\ next' \in SUBSET Facts
        /\ TiersAreDisjoint'
        /\ All' = All /\ Visible' = All /\ stable' = Visible
    BY <1>4, MergeKeepsTiers DEF NextRound
  <2>2. TypeOK'
    <3>1. changes' \in BOOLEAN
      BY <1>4, Zenon DEF NextRound
    <3> QED
      BY <1>4, <2>1, <3>1 DEF NextRound, TypeOK
  <2>3. Current' = Current /\ base' = base /\ ~Done
    BY <1>4 DEF NextRound, Current
  <2>4. (base \subseteq Visible)'
    BY <2>1, <2>3 DEF All
  <2> QED
    BY <2>1, <2>2, <2>3, <2>4
<1>5. CASE NextStratum
  <2>1. /\ stable' \in SUBSET Facts /\ delta' \in SUBSET Facts /\ next' \in SUBSET Facts
        /\ TiersAreDisjoint'
        /\ All' = All /\ Visible' = All /\ stable' = Visible
    BY <1>5, MergeKeepsTiers DEF NextStratum
  <2>2. base' = All /\ All \subseteq Facts
    BY <1>5 DEF NextStratum, All, Visible, TypeOK
  <2>3. TypeOK'
    <3>1. changes' \in BOOLEAN
      BY <1>5, Zenon DEF NextStratum
    <3> QED
      BY <1>5, <2>1, <2>2, <3>1 DEF NextStratum, TypeOK
  <2> QED
    BY <2>1, <2>2, <2>3
<1>6. CASE UNCHANGED vars
  BY <1>6 DEF vars, TypeOK, TiersAreDisjoint, Visible, All, Done, Current
<1> QED
  BY <1>1, <1>2, <1>3, <1>4, <1>5, <1>6 DEF Next

\* The tiers of MemStore never hold a fact twice, whatever is evaluated.
THEOREM TiersStayDisjoint == Spec => []TiersAreDisjoint
<1>1. Init => TierInv
  BY TierInit
<1>2. TierInv /\ [Next]_vars => TierInv'
  BY TierStep
<1>3. TierInv => TiersAreDisjoint
  BY DEF TierInv
<1> QED
  BY <1>1, <1>2, <1>3, PTL DEF Spec

----------------------------------------------------------------------------
(* nothing is derived that does not follow *)

\* Negated premises are decided by the facts the stratum began with: it adds
\* no fact that one of its rules negates.
LEMMA NegationSettled ==
    ASSUME TierInv, ~Done, NEW i \in InstancesOf(Current)
    PROVE  i.neg \cap Visible = {} <=> i.neg \cap base = {}
<1>1. i.neg \cap HeadsOf(Current) = {}
  BY CurrentPlanned DEF TierInv, TypeOK, WellPlanned
<1> QED
  BY <1>1 DEF TierInv, All

\* A plan of the stratum derives only what every model has.
LEMMA DerivedFollows ==
    ASSUME TierInv, ~Done, NEW plan, plan.instances \subseteq InstancesOf(Current),
           NEW M, Closed(M, InstancesOf(Current)), Visible \subseteq M
    PROVE  Derived(plan) \subseteq M
<1> SUFFICES ASSUME NEW i \in plan.instances, Fires(i, plan)
             PROVE  i.head \in M
  BY DEF Derived
<1>1. \A k \in DOMAIN i.pos : i.pos[k] \in M
  BY DEF Fires, Visible
<1>2. i.neg \cap base = {}
  BY NegationSettled DEF Fires
<1> QED
  BY <1>1, <1>2 DEF Closed

LEMMA SoundStep == TierInv /\ Sound /\ [Next]_vars => Sound'
<1> SUFFICES ASSUME TierInv, Sound, [Next]_vars, ~Done',
                    NEW H \in SUBSET HeadsOf(Current)',
                    Closed(base \cup H, InstancesOf(Current))'
             PROVE  (All \subseteq base \cup H)'
  BY DEF Sound
<1>1. ASSUME NEW plan, plan.instances \subseteq InstancesOf(Current), ~Done,
             Insert(Derived(plan)),
             UNCHANGED <<strata_plans, stable, delta, stratum, base>>
      PROVE  (All \subseteq base \cup H)'
  <2>1. Current' = Current /\ Visible' = Visible
    BY <1>1 DEF Current, Visible
  <2>2. Closed(base \cup H, InstancesOf(Current)) /\ H \in SUBSET HeadsOf(Current)
    BY <1>1, <2>1 DEF Closed
  <2>3. All \subseteq base \cup H
    BY <1>1, <2>2 DEF Sound
  <2>4. Derived(plan) \subseteq base \cup H
    BY <1>1, <2>2, <2>3, DerivedFollows DEF All
  <2> QED
    BY <1>1, <2>1, <2>3, <2>4 DEF Insert, All
<1>2. ASSUME MergeDeltas, ~Done, UNCHANGED <<strata_plans, stratum, base>>
      PROVE  (All \subseteq base \cup H)'
  <2>1. Current' = Current
    BY <1>2 DEF Current
  <2>2. Closed(base \cup H, InstancesOf(Current)) /\ H \in SUBSET HeadsOf(Current)
    BY <1>2, <2>1 DEF Closed
  <2>3. All' = All
    BY <1>2, MergeKeepsTiers DEF TierInv
  <2> QED
    BY <1>2, <2>2, <2>3 DEF Sound
<1>3. CASE RunInitial
  <2>1. op \in DOMAIN Current.initial
    BY <1>3, CurrentPlanned DEF RunInitial, TierInv, TypeOK
  <2> QED
    BY <1>1, <1>3, <2>1, PlansOfStratum DEF RunInitial, TierInv
<1>4. CASE StartRounds
  BY <1>2, <1>4 DEF StartRounds
<1>5. CASE RunDelta
  <2>1. op \in DOMAIN Current.delta
    BY <1>5, CurrentPlanned DEF RunDelta, TierInv, TypeOK
  <2> QED
    BY <1>1, <1>5, <2>1, PlansOfStratum DEF RunDelta, TierInv
<1>6. CASE NextRound
  BY <1>2, <1>6 DEF NextRound
<1>7. CASE NextStratum
  BY <1>7, MergeKeepsTiers DEF NextStratum, TierInv
<1>8. CASE UNCHANGED vars
  BY <1>8 DEF vars, Sound, Closed, Current, Done, All, Visible
<1> QED
  BY <1>3, <1>4, <1>5, <1>6, <1>7, <1>8 DEF Next

\* Evaluation derives nothing that does not follow from the rules: at every
\* point the store is inside every model of the stratum at work, whatever plans
\* read from the delta and in whatever order they run (execute_with_options,
\* Interpreter::execute).
THEOREM EvaluationIsSound == Spec => []Sound
<1>1. Init => TierInv /\ Sound
  <2> SUFFICES ASSUME Init PROVE Sound
    BY TierInit
  <2> QED
    BY DEF Init, Sound, All, Visible
<1>2. TierInv /\ Sound /\ [Next]_vars => TierInv' /\ Sound'
  BY TierStep, SoundStep
<1> QED
  BY <1>1, <1>2, PTL DEF Spec

----------------------------------------------------------------------------
(* everything that follows is derived *)

\* M has the head of every instance of the stratum whose premises are in P.
Answers(P, M) ==
    \A i \in InstancesOf(Current) :
        (\A k \in DOMAIN i.pos : i.pos[k] \in P) /\ i.neg \cap base = {} => i.head \in M

\* How far a stratum has come.  Its initial plans see what it began with; in a
\* round, the consequences of the stable facts are visible, and those with a
\* premise in the delta are what the plans of the round add.
RoundInv ==
    /\ TierInv
    /\ ~Done /\ phase = "initial" =>
         /\ Visible = base
         /\ \A j \in 1..op - 1 :
              j <= Len(Current.initial) => Derived(Current.initial[j]) \subseteq All
    /\ ~Done /\ phase = "rounds" =>
         /\ Current.recursive
         /\ base \subseteq stable
         /\ Answers(stable, Visible)
         /\ \A j \in 1..op - 1 :
              j <= Len(Current.delta) => Derived(Current.delta[j]) \subseteq All
         /\ ~changes => next = {}

\* Once the initial plans have run, the consequences of what the stratum began
\* with are known.
LEMMA InitialAnswers ==
    ASSUME RoundInv, ~Done, phase = "initial", op > Len(Current.initial)
    PROVE  Answers(Visible, All)
<1> SUFFICES ASSUME NEW i \in InstancesOf(Current),
                    \A k \in DOMAIN i.pos : i.pos[k] \in Visible, i.neg \cap base = {}
             PROVE  i.head \in All
  BY DEF Answers
<1>1. PICK j \in DOMAIN Current.initial : i \in Current.initial[j].instances
  BY DEF InstancesOf
<1>2. j \in 1..op - 1 /\ j <= Len(Current.initial) /\ Current.initial[j].delta = {}
  BY <1>1, CurrentPlanned DEF RoundInv, TierInv, TypeOK, WellPlanned
<1>3. Fires(i, Current.initial[j])
  BY <1>2, NegationSettled DEF Fires, RoundInv
<1> QED
  BY <1>1, <1>2, <1>3 DEF RoundInv, Derived

\* Once the delta plans of a round have run, the consequences of all visible
\* facts are known: an instance without a premise in the delta was answered
\* before, and one with such a premise is covered by a plan of the round.
LEMMA RoundAnswers ==
    ASSUME RoundInv, ~Done, phase = "rounds", op > Len(Current.delta), Covering(Current)
    PROVE  Answers(Visible, All)
<1> SUFFICES ASSUME NEW i \in InstancesOf(Current),
                    \A k \in DOMAIN i.pos : i.pos[k] \in Visible, i.neg \cap base = {}
             PROVE  i.head \in All
  BY DEF Answers
<1>1. CASE \A k \in DOMAIN i.pos : i.pos[k] \in stable
  BY <1>1 DEF RoundInv, Answers, All
<1>2. CASE \E k \in DOMAIN i.pos : i.pos[k] \notin stable
  <2>1. PICK k \in DOMAIN i.pos : i.pos[k] \in delta
    BY <1>2 DEF Visible
  <2>2. i.pos[k] \in HeadsOf(Current)
    BY <2>1 DEF RoundInv, TierInv, TiersAreDisjoint, All, Visible
  <2>3. PICK j \in DOMAIN Current.delta :
            i \in Current.delta[j].instances /\ Current.delta[j].delta \subseteq {k}
    BY <2>2 DEF Covering, RoundInv
  <2>4. j \in 1..op - 1 /\ j <= Len(Current.delta)
    BY <2>3, CurrentPlanned DEF RoundInv, TierInv, TypeOK
  <2>5. Fires(i, Current.delta[j])
    BY <2>1, <2>3, NegationSettled DEF Fires, RoundInv
  <2> QED
    BY <2>3, <2>4, <2>5 DEF RoundInv, Derived
<1> QED
  BY <1>1, <1>2

LEMMA RoundInit == Init => RoundInv
BY TierInit DEF Init, RoundInv, Visible

\* Running a plan: what it derives is known afterwards.
LEMMA InsertAnswers ==
    ASSUME NEW facts, Insert(facts), UNCHANGED <<stable, delta>>
    PROVE  facts \subseteq All' /\ All \subseteq All' /\ Visible' = Visible
BY DEF Insert, All, Visible

LEMMA RoundStep ==
    ASSUME \A strata \in Programs : \A j \in DOMAIN strata : Covering(strata[j])
    PROVE  RoundInv /\ [Next]_vars => RoundInv'
<1> SUFFICES ASSUME RoundInv, [Next]_vars PROVE RoundInv'
  OBVIOUS
<1>1. TierInv'
  BY TierStep DEF RoundInv
<1>2. op \in Nat /\ phase \in {"initial", "rounds"} /\ TierInv /\ TypeOK
  BY DEF RoundInv, TierInv, TypeOK
<1>3. ~Done => Covering(Current)
  BY <1>2, ConstantTypes DEF TypeOK, Done, Current
<1>4. CASE RunInitial
  <2>1. /\ ~Done /\ phase = "initial" /\ op <= Len(Current.initial) /\ op' = op + 1
        /\ phase' = "initial" /\ Current' = Current /\ base' = base
        /\ UNCHANGED <<stable, delta>> /\ Insert(Derived(Current.initial[op]))
    BY <1>4 DEF RunInitial, Current
  <2>2. Derived(Current.initial[op]) \subseteq All' /\ All \subseteq All' /\ Visible' = Visible
    BY <2>1, InsertAnswers
  <2>3. \A j \in 1..op : j <= Len(Current.initial) => Derived(Current.initial[j]) \subseteq All'
    BY <1>2, <2>1, <2>2 DEF RoundInv
  <2>4. \A j \in 1..op' - 1 :
           j <= Len(Current'.initial) => Derived(Current.initial[j])' \subseteq All'
    BY <1>2, <2>1, <2>2, <2>3 DEF Derived, Fires
  <2> QED
    BY <1>1, <2>1, <2>2, <2>4 DEF RoundInv
<1>5. CASE StartRounds
  <2>1. /\ ~Done /\ phase = "initial" /\ op > Len(Current.initial) /\ Current.recursive
        /\ Current' = Current /\ base' = base /\ MergeDeltas
        /\ phase' = "rounds" /\ op' = 1
    BY <1>5 DEF StartRounds, Current
  <2>2. stable' = Visible /\ Visible' = All
    BY <1>2, <2>1, MergeKeepsTiers DEF TierInv
  <2>3. Answers(stable, Visible)'
    BY <2>1, <2>2, InitialAnswers DEF Answers
  <2>4. next' = {} /\ base \subseteq Visible
    BY <1>2, <2>1 DEF MergeDeltas, TierInv
  <2> QED
    BY <1>1, <2>1, <2>2, <2>3, <2>4 DEF RoundInv
<1>6. CASE RunDelta
  <2>1. /\ ~Done /\ phase = "rounds" /\ op <= Len(Current.delta) /\ op' = op + 1
        /\ phase' = "rounds" /\ Current' = Current /\ base' = base
        /\ UNCHANGED <<stable, delta>> /\ Insert(Derived(Current.delta[op]))
        /\ changes' = (changes \/ next' # next)
    BY <1>6 DEF RunDelta, Current
  <2>2. Derived(Current.delta[op]) \subseteq All' /\ All \subseteq All' /\ Visible' = Visible
    BY <2>1, InsertAnswers
  <2>3. \A j \in 1..op : j <= Len(Current.delta) => Derived(Current.delta[j]) \subseteq All'
    BY <1>2, <2>1, <2>2 DEF RoundInv
  <2>4. \A j \in 1..op' - 1 :
           j <= Len(Current'.delta) => Derived(Current.delta[j])' \subseteq All'
    BY <1>2, <2>1, <2>2, <2>3 DEF Derived, Fires
  <2>5. Answers(stable, Visible)'
    BY <2>1, <2>2 DEF RoundInv, Answers
  <2>6. ~changes' => next' = {}
    BY <2>1 DEF RoundInv
  <2>7. Current'.recursive /\ base' \subseteq stable'
    BY <2>1 DEF RoundInv
  <2> QED
    BY <1>1, <2>1, <2>4, <2>5, <2>6, <2>7 DEF RoundInv
<1>7. CASE NextRound
  <2>1. /\ ~Done /\ phase = "rounds" /\ op > Len(Current.delta)
        /\ Current' = Current /\ base' = base /\ MergeDeltas
        /\ phase' = "rounds" /\ op' = 1
    BY <1>7 DEF NextRound, Current
  <2>2. stable' = Visible /\ Visible' = All
    BY <1>2, <2>1, MergeKeepsTiers DEF TierInv
  <2>3. Answers(stable, Visible)'
    BY <1>3, <2>1, <2>2, RoundAnswers DEF Answers
  <2>4. next' = {} /\ base \subseteq Visible /\ Current.recursive
    BY <1>2, <2>1 DEF MergeDeltas, TierInv, RoundInv
  <2> QED
    BY <1>1, <2>1, <2>2, <2>3, <2>4 DEF RoundInv
<1>8. CASE NextStratum
  <2>1. Visible' = All /\ base' = All /\ phase' = "initial" /\ op' = 1
    BY <1>2, <1>8, MergeKeepsTiers DEF NextStratum, TierInv
  <2> QED
    BY <1>1, <2>1 DEF RoundInv
<1>9. CASE UNCHANGED vars
  BY <1>9, <1>1 DEF vars, RoundInv, Answers, Current, Done, All, Visible, Derived, Fires
<1> QED
  BY <1>4, <1>5, <1>6, <1>7, <1>8, <1>9 DEF Next

\* When every recursive stratum is covered by its delta plans, each one ends at
\* its fixpoint, with nothing lost (execute_with_options).
THEOREM FixpointIsReached ==
    ASSUME \A strata \in Programs : \A j \in DOMAIN strata : Covering(strata[j])
    PROVE  Spec => []AtFixpoint
<1>1. Init => RoundInv
  BY RoundInit
<1>2. RoundInv /\ [Next]_vars => RoundInv'
  BY RoundStep
<1>3. RoundInv => AtFixpoint
  <2> SUFFICES ASSUME RoundInv, Finished
               PROVE  base \subseteq All /\ Closed(All, InstancesOf(Current))
    BY DEF AtFixpoint
  <2>1. base \subseteq All /\ TypeOK
    BY DEF RoundInv, TierInv, All
  <2>2. CASE phase = "initial" /\ op > Len(Current.initial) /\ ~Current.recursive
    <3>1. Answers(Visible, All) /\ Visible = base
      BY <2>2, InitialAnswers DEF Finished, RoundInv
    <3>2. WellPlanned(Current) /\ All \subseteq base \cup HeadsOf(Current)
      BY <2>1, CurrentPlanned DEF Finished, TypeOK, RoundInv, TierInv
    <3>3. \A i \in InstancesOf(Current) : \A k \in DOMAIN i.pos :
             i.pos[k] \in All => i.pos[k] \in Visible
      BY <2>2, <3>1, <3>2 DEF WellPlanned
    <3> QED
      BY <2>1, <3>1, <3>3 DEF Answers, Closed
  <2>3. CASE phase = "rounds" /\ op > Len(Current.delta) /\ ~changes
    <3>1. Covering(Current)
      BY <2>1, ConstantTypes DEF Finished, TypeOK, Done, Current
    <3>2. Answers(Visible, All)
      BY <2>3, <3>1, RoundAnswers DEF Finished
    <3>3. All = Visible
      BY <2>3 DEF Finished, RoundInv, All
    <3> QED
      BY <2>1, <3>2, <3>3 DEF Answers, Closed
  <2> QED
    BY <2>2, <2>3 DEF Finished
<1> QED
  BY <1>1, <1>2, <1>3, PTL DEF Spec
=============================================================================
