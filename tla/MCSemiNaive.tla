---------------------------- MODULE MCSemiNaive ----------------------------
(***************************************************************************)
(* Programs for TLC, planned by StratumPlans.                              *)
(***************************************************************************)
EXTENDS SemiNaive, FiniteSets

CONSTANTS X, Y, Z, NoPred, Names

SP == INSTANCE StratumPlans WITH Vars <- {X, Y, Z}, Values <- 1..4

A(pred, args) == [pred |-> pred, args |-> args]

Atom(pred, args) == [kind |-> "atom", pred |-> pred, args |-> args]

Not(pred, args) == [kind |-> "neg", pred |-> pred, args |-> args]

Rule(head, body) == [head |-> head, body |-> body]

Less(x, y) == [kind |-> "lt", pred |-> ":lt", args |-> <<x, y>>]

Base == Rule(A("p", <<X, Y>>), <<Atom("e", <<X, Y>>), Less(X, Y)>>)

\* The closure of the increasing edges, recursive on the left, on the right and
\* on both sides.
LeftLinear ==
    <<Base, Rule(A("p", <<X, Z>>),
                 <<Atom("p", <<X, Y>>), Atom("e", <<Y, Z>>), Less(X, Z)>>)>>

RightLinear ==
    <<Base, Rule(A("p", <<X, Z>>),
                 <<Atom("e", <<X, Y>>), Atom("p", <<Y, Z>>), Less(X, Z)>>)>>

NonLinear ==
    <<Base, Rule(A("p", <<X, Z>>),
                 <<Atom("p", <<X, Y>>), Atom("p", <<Y, Z>>), Less(X, Z)>>)>>

\* Two predicates of one stratum, joined with each other.
Mutual ==
    <<Rule(A("a", <<X>>), <<Atom("e", <<X, Y>>)>>),
      Rule(A("b", <<Y>>), <<Atom("a", <<X>>), Atom("e", <<X, Y>>)>>),
      Rule(A("a", <<Y>>), <<Atom("b", <<X>>), Atom("e", <<X, Y>>), Atom("a", <<X>>)>>)>>

\* Three strata over each other, two of them through negations.
Negations ==
    <<Rule(A("r", <<Y>>), <<Atom("e", <<1, Y>>)>>),
      Rule(A("r", <<Z>>), <<Atom("r", <<Y>>), Atom("e", <<Y, Z>>)>>),
      Rule(A("u", <<Y>>), <<Atom("e", <<X, Y>>), Not("r", <<Y>>)>>),
      Rule(A("w", <<X>>), <<Not("u", <<X>>), Atom("r", <<X>>)>>)>>

\* A later round adds to p a pair that earlier pairs join with.
LateFacts ==
    <<Base,
      Rule(A("p", <<X, Z>>), <<Atom("p", <<X, Y>>), Atom("p", <<Y, Z>>)>>),
      Rule(A("p", <<2, X>>), <<Atom("t", <<X>>), Atom("p", <<1, 3>>)>>)>>

Planned(rules, preds) == [j \in DOMAIN preds |-> SP!StratumPlan(preds[j], rules)]

\* Running the plan of a rule over a store derives the heads of its instances:
\* for every rule, with and without a delta, over stores in the middle of a run.
AllRules == UNION {{rules[i] : i \in DOMAIN rules} : rules \in {LeftLinear, RightLinear, NonLinear, Mutual,
                                             Negations, LateFacts}}

Edges   == {A("e", <<1, 2>>), A("e", <<2, 3>>), A("e", <<3, 2>>), A("t", <<1>>)}
Found == {A("p", <<1, 2>>), A("p", <<2, 3>>), A("p", <<1, 3>>), A("a", <<2>>), A("b", <<2>>),
            A("r", <<3>>), A("u", <<1>>)}

ASSUME PlansRunTheirRules ==
    \A rule \in AllRules : \A deltaPred \in {NoPred, "p", "a", "b", "r"} : \A new \in SUBSET Found :
        LET store == [stable |-> (Edges \cup Found) \ new, delta |-> new]
            end   == SP!Execute(rule, deltaPred, store)
        IN  ~end.failed /\ end.facts = SP!Derives(SP!Plan(rule, deltaPred), store)

Sources ==
    [left      |-> Planned(LeftLinear, <<{"p"}>>),
     right     |-> Planned(RightLinear, <<{"p"}>>),
     nonlinear |-> Planned(NonLinear, <<{"p"}>>),
     mutual    |-> Planned(Mutual, <<{"a", "b"}>>),
     negations |-> Planned(Negations, <<{"r"}, {"u"}, {"w"}>>),
     late      |-> Planned(LateFacts, <<{"p"}>>)]

MCPrograms == {Sources[n] : n \in Names}

\* Covering is the rule; the rules that join p with itself are the exception.
ASSUME MostAreCovered ==
    \A n \in Names :
        (\A j \in DOMAIN Sources[n] : Covering(Sources[n][j])) <=> n \notin {"nonlinear", "late"}

MCFacts ==
    [pred : {"e", "p"}, args : [1..2 -> 1..4]]
        \cup [pred : {"a", "b", "r", "u", "w", "t"}, args : [1..1 -> 1..4]]

MCEdbs ==
    SUBSET {A("e", <<1, 2>>), A("e", <<2, 3>>), A("e", <<3, 4>>), A("e", <<3, 2>>),
            A("e", <<4, 4>>), A("t", <<1>>)}
============================================================================
