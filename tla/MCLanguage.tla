----------------------------- MODULE MCLanguage -----------------------------
EXTENDS Language

X == Var("X")
Y == Var("Y")
L == Var("L")
W == Var("W")

MCSpelling == [a |-> <<97>>, b |-> <<98>>, c |-> <<99>>, f |-> <<102>>, g |-> <<103>>,
               k |-> <<107>>, second |-> <<115>>, unit |-> <<117>>]

A   == Name(<<"a">>)
AB  == Name(<<"a", "b">>)
C   == Name(<<"c">>)
F   == Name(<<"f">>)
G   == Name(<<"g">>)
K   == Name(<<"k">>)
SA  == Str(<<<<97>>>>)
NumberT == Base("number")
StringT == Base("string")
ListT(t) == Fn("List", <<t>>)

----------------------------------------------------------------------------
(* Programs that are checked and run *)

Atom(pred, args)    == [kind |-> "Atom", pred |-> pred, args |-> args]
NegAtom(pred, args) == [kind |-> "NegAtom", pred |-> pred, args |-> args]
Eq(l, r)            == [kind |-> "Eq", pred |-> "", args |-> <<l, r>>]
Ineq(l, r)          == [kind |-> "Ineq", pred |-> "", args |-> <<l, r>>]
Let(v, app)         == [var |-> v.name, app |-> app]
Do(app)             == [var |-> <<>>, app |-> app]
Rule(id, head, premises, transforms) ==
    [id |-> id, head |-> head, premises |-> premises, transforms |-> transforms]

\* e(number, number), q(number), u(number or string), n(names), l(lists),
\* s(structs), w(strings)
Decls ==
    [e |-> <<<<Base("number"), Base("number")>>>>, q |-> <<<<Base("number")>>>>,
     u |-> <<<<Either("number", "string")>>>>,
     n |-> <<<<Fn("Union", <<Name(<<"a">>), Name(<<"c">>)>>)>>>>,
     l |-> <<<<Fn("List", <<Base("number")>>)>>>>,
     s |-> <<<<Fn("Struct", <<Name(<<"f">>), Base("number")>>)>>>>,
     w |-> <<<<Base("string")>>>>]

Facts ==
    {Fact("e", <<Num(1), Num(2)>>), Fact("e", <<Num(2), Num(2)>>), Fact("q", <<Num(2)>>),
     Fact("u", <<Num(1)>>), Fact("u", <<SA>>), Fact("n", <<AB>>), Fact("n", <<Name(<<"c">>)>>),
     Fact("l", <<Compound("List", <<Num(1), Num(3)>>)>>),
     Fact("s", <<Compound("Struct", <<Name(<<"f">>), Num(2)>>)>>), Fact("w", <<SA>>)}

MCStores == <<Facts>>

Menu ==
    <<Atom("e", <<X, Y>>), Atom("e", <<Y, X>>), Atom("e", <<X, X>>), Atom("e", <<Num(1), Y>>),
      Atom("e", <<X, Fn("plus", <<Y, Num(1)>>)>>), NegAtom("e", <<X, Y>>),
      Atom("q", <<X>>), NegAtom("q", <<Y>>), Atom("u", <<X>>), Atom("u", <<Y>>), Atom("n", <<X>>),
      Atom(":match_prefix", <<X, Name(<<"a">>)>>), NegAtom(":match_prefix", <<X, Name(<<"a">>)>>),
      Atom("l", <<L>>), Atom(":list:member", <<Y, L>>), Atom("s", <<L>>),
      Atom(":match_field", <<L, Name(<<"f">>), Y>>),
      Eq(Y, Fn("plus", <<X, Num(1)>>)), Eq(X, Fn("minus", <<Y>>)), Eq(X, Y), Eq(Num(2), Y),
      Ineq(X, Y), Atom(":lt", <<X, Y>>), Atom(":le", <<Y, Num(2)>>),
      Atom(":string:starts_with", <<X, SA>>), Atom("h", <<X>>)>>

\* A third premise
Third == <<Atom("q", <<X>>), Atom("l", <<L>>), Atom("e", <<Y, W>>),
           Eq(Y, Fn("plus", <<X, Num(1)>>)), Ineq(X, Y)>>

\* A head and the bound declared for it
Heads == <<<<Atom("d", <<X>>), Base("number")>>, <<Atom("d", <<Y>>), Base("number")>>,
           <<Atom("d", <<Fn("plus", <<Y, X>>)>>), Base("number")>>,
           <<Atom("d", <<X>>), Name(<<"a">>)>>, <<Atom("d", <<W>>), Base("number")>>>>

GroupBy(keys) == Do(Fn("group_by", keys))

Transforms ==
    <<<<Let(W, Fn("plus", <<X, Num(1)>>))>>,
      <<Let(W, Fn("plus", <<L, Num(1)>>)), Let(L, Fn("plus", <<X, Num(1)>>))>>,
      <<GroupBy(<<X>>), Let(W, Fn("count", <<Y>>))>>,
      <<GroupBy(<<>>), Let(W, Fn("max", <<Y>>))>>,
      <<Let(L, Fn("mult", <<X, Y>>)), GroupBy(<<Y>>), Let(W, Fn("sum", <<L>>))>>,
      <<GroupBy(<<X>>), Let(L, Fn("count", <<X>>)), GroupBy(<<L>>), Let(W, Fn("sum", <<L>>))>>,
      <<GroupBy(<<X>>), Let(L, Fn("sum", <<Y>>)), Let(W, Fn("plus", <<L, X>>))>>>>

\* <<premises of Menu, third premise or 0, head, transform or 0>>; a rule
\* h(Y) :- u(Y) without a declaration comes first when h is read.
MCCompiled(key) ==
    LET head == Heads[key[3]]
        body == [i \in DOMAIN key[1] |-> Menu[key[1][i]]]
                \o (IF key[2] = 0 THEN <<>> ELSE <<Third[key[2]]>>)
        rule == Rule("2", head[1], body, IF key[4] = 0 THEN <<>> ELSE Transforms[key[4]])
        h    == Rule("1", Atom("h", <<Y>>), <<Atom("u", <<Y>>)>>, <<>>)
    IN  [decls |-> ("d" :> <<<<head[2]>>>>) @@ Decls, temporal |-> {},
         rules |-> IF Atom("h", <<X>>) \in ToSet(body) THEN <<h, rule>> ELSE <<rule>>]

Ones == {<<i>> : i \in DOMAIN Menu}
Twos == {<<i, j>> : i, j \in DOMAIN Menu}

MCSources == (Ones \cup Twos) \X {0} \X (1..4) \X {0}
             \cup Twos \X (DOMAIN Third) \X (1..2) \X {0}
             \cup (Ones \cup Twos) \X {0} \X {5} \X (DOMAIN Transforms)

\* d(Y) :- e(1, Y), p where p may read e again
MCReadTwice == {<<<<4, j>>, 0, 2, 0>> : j \in DOMAIN Menu}

----------------------------------------------------------------------------
(* Values and types *)

MCFunctions == IntFns \cup FloatFns \cup StringFns \cup TimeFns \cup TimeTextFns
               \cup DurationFns \cup CompoundFns

Sample(type, value) == [type |-> type, value |-> value]

\* 1 January 1970, 00:00:01 and the texts of the instant and of a zone, a
\* precision and a duration
TextT == Str(<<<<"T", FormatTime(InstantOf(Second))>>>>)

MCTyped ==
    <<Sample(NumberT, Num(4)), Sample(AnyType, Num(0)), Sample(NumberT, Num(-1)),
      Sample(Base("float64"), Flt(1, 4)), Sample(Either("number", "string"), SA), Sample(StringT, SA),
      Sample(StringT, TextT), Sample(StringT, Str(<<<<"Z", <<-1, 1, 30>>>>>>)),
      Sample(StringT, Str(<<<<"P", "minute">>>>)),
      Sample(StringT, Str(<<<<"D", FormatDuration(Second + 1)>>>>)),
      Sample(Base("time"), Tim(90 * Minute + 7)), Sample(Base("duration"), Dur(Hour + 5)),
      Sample(Base("name"), AB), Sample(Base("name"), Name(<<"second">>)),
      Sample(ListT(Either("number", "string")), Compound("List", <<Num(1), SA>>)),
      Sample(Fn("Pair", <<NumberT, StringT>>), Compound("Pair", <<Num(1), SA>>)),
      Sample(Fn("Map", <<Base("name"), NumberT>>), Compound("Map", <<AB, Num(1)>>)),
      Sample(Fn("Struct", <<F, NumberT, G, StringT>>), Compound("Struct", <<F, Num(1), G, SA>>)),
      Sample(ListT(Base("bot")), Compound("List", <<>>)), Sample(AnyType, Dur(3))>>

MCLong == <<<<1, 1, 3>>, <<6, 6, 7, 1>>, <<6, 6, 7, 3>>, <<1, 2, 3>>, <<4, 1, 4>>, <<11, 8, 9>>,
            <<13, 1, 13, 6>>, <<6, 1, 6, 6>>, <<1, 5, 1>>>>

\* Days around the ends of months, years, centuries and eras, and before the epoch
MCInstants ==
    {[days |-> d, tod |-> t, sub |-> n] :
        d \in {0, -1, 58, 59, 60, 365, 789, 10956, 10957, 11016, 11017, -25509, -25508, -719469,
               -719468, -719529, -719528, 47540, 47541},
        t \in {0, 1, 3661, 86399}, n \in {0, 1, 10, 120, 999}}

MCZones == {<<>>, <<1, 5, 30>>, <<-1, 8, 0>>}

MCDurations ==
    {s * d : s \in {1, -1},
             d \in {0, 1, 9, 10, 11, 99, 100, 101, 999, 1000, 1001, 1010, Minute - 1, Minute,
                    Minute + 1, 2 * Minute + 1500, Hour - 1, Hour, Hour + Second,
                    2 * Hour + 61 * Second + 7}}

Tagged == Fn("TaggedUnion", <<K, A, Fn("Struct", <<F, NumberT>>), C, Fn("Struct", <<G, StringT>>)>>)

MCBounds == (<<"T">> :> Either("number", "string"))

AllTypes ==
    <<Either("number", "string"), Fn("Union", <<A, NumberT>>), Fn("Union", <<AB, C, StringT>>),
      NumberT, StringT, Base("name"), A, AB, AnyType, Base("bot"), ListT(NumberT), ListT(AnyType),
      ListT(Either("number", "string")), Fn("Pair", <<NumberT, AnyType>>),
      Fn("Pair", <<NumberT, StringT>>), Fn("Map", <<Base("name"), NumberT>>),
      Fn("Map", <<A, Either("number", "string")>>), Fn("Struct", <<F, NumberT>>),
      Fn("Struct", <<F, AnyType, Fn("opt", <<G, StringT>>)>>),
      Fn("Struct", <<F, NumberT, G, StringT>>), Tagged,
      Fn("TaggedUnion", <<K, A, Fn("Struct", <<F, Either("number", "string")>>)>>),
      Fn("TaggedUnion", <<K, A, Fn("Struct", <<F, NumberT>>), C, Fn("Struct", <<F, StringT>>)>>),
      Fn("Union", <<Tagged, Fn("Struct", <<F, StringT>>)>>),
      Fn("Struct", <<K, A, F, NumberT>>),
      Fn("Option", <<NumberT>>), Fn("Singleton", <<Num(1)>>), Fn("Singleton", <<AB>>),
      Fn("Tuple", <<NumberT, StringT, A>>), Fn("Tuple", <<NumberT, StringT, Base("name")>>),
      Fn("Fun", <<NumberT, A>>), Fn("Fun", <<AnyType, AB>>), Fn("Rel", <<NumberT, StringT>>),
      Var("T"), ListT(Var("T")), Base("unit"),
      \* not well-formed
      Fn("Union", <<NumberT>>), Fn("Struct", <<F>>), Fn("Struct", <<F, NumberT, F, StringT>>),
      Var("U"), Fn("TaggedUnion", <<K, A, Fn("Struct", <<K, NumberT>>)>>)>>

MCTypes == SelectSeq(AllTypes, LAMBDA t : Wellformed(DOMAIN MCBounds, t))

Struct(args) == Compound("Struct", args)

MCValues ==
    {Num(1), Num(2), SA, A, AB, C, Base("unit"), Compound("List", <<>>), Compound("List", <<Num(1)>>),
     Compound("List", <<Num(1), SA>>), Fn("pair", <<Num(1), SA>>), Fn("pair", <<Num(1), AB>>),
     Fn("tuple", <<Num(1), SA, AB>>), Fn("tuple", <<Num(1), SA, C>>),
     Compound("Map", <<AB, Num(1)>>), Compound("Map", <<C, Num(1)>>), Compound("Map", <<AB, SA>>),
     Struct(<<F, Num(1)>>), Struct(<<F, SA>>), Struct(<<F, Num(1), G, SA>>),
     Struct(<<F, Num(1), G, Num(1)>>), Struct(<<G, SA>>),
     Struct(<<K, A, F, Num(1)>>), Struct(<<K, A, F, SA>>), Struct(<<G, SA, K, C>>),
     Struct(<<K, C, F, Num(1)>>), Struct(<<K, C, F, SA>>)}

----------------------------------------------------------------------------
(* Texts *)

Wildcard == Var("_")
At(n) == Bound("Timestamp", Tim(n))

Unit1(package, uses, decls, clauses) ==
    [package |-> package, uses |-> uses, decls |-> decls, clauses |-> clauses]
On(path, args) == AtomNode(path, args)
PosP(path, args) == Premise("Atom", path, args, <<>>)
NegP(path, args) == Premise("NegAtom", path, args, <<>>)

\* Terms, premises about a term, intervals and transforms
TermMenu ==
    <<X, Wildcard, Num(1), Num(-2), AB, SA, Tim(5), Fn("plus", <<X, Num(-1)>>),
      Fn("list", <<>>), Fn("list", <<X, AB>>), Fn("list", <<Wildcard>>), Fn("map", <<>>),
      Fn("map", <<AB, X>>), Fn("map", <<SA, Num(-2), Num(1), Fn("list", <<Wildcard, Wildcard>>)>>),
      Fn("struct", <<>>), Fn("struct", <<F, Wildcard, AB, Fn("struct", <<F, Num(1)>>)>>)>>

Intervals == <<<<>>, <<At(1), At(1)>>, <<Bound("NegInf", Null), Bound("Variable", Var("Y"))>>,
               <<Bound("Variable", Var("T")), Bound("PosInf", Null)>>>>

BodyMenu(t) ==
    <<<<>>, <<PosP(<<"p">>, <<t, X>>)>>, <<PosP(<<"b", "p">>, <<>>), NegP(<<"q">>, <<t, Wildcard>>)>>,
      <<Premise("Eq", <<"">>, <<X, t>>, <<>>), PosP(<<":", "le">>, <<X, Num(1)>>)>>,
      <<PosP(<<"q">>, <<Y>>), Premise("Ineq", <<"">>, <<t, X>>, <<>>)>>,
      <<PosP(<<":", "lt">>, <<t, Num(-2)>>), PosP(<<":", "ge">>, <<AB, t>>), PosP(<<":", "gt">>, <<t, X>>)>>>>

LetOf(v, app) == [var |-> <<v>>, app |-> app]
TransformMenu(t) ==
    <<<<>>, <<LetOf("Z", Fn("plus", <<t, X>>))>>,
      <<[var |-> <<>>, app |-> Fn("group_by", <<X, t>>)], LetOf("Z", Fn("count", <<>>)), LetOf("V", t)>>>>

\* <<"clause", term, body, transforms, interval of the head>>
ClauseOf(key) ==
    LET t == TermMenu[key[2]]
        body == BodyMenu(t)[key[3]]
    IN  ClauseNode(On(<<"h">>, <<X, t>>), Intervals[key[5]], body,
                   IF body = <<>> THEN <<>> ELSE TransformMenu(t)[key[4]])

\* A second clause of the unit has premises with intervals
Timed(i) ==
    ClauseNode(On(<<"h">>, <<X, Wildcard>>), <<>>,
               <<IF i = 1 THEN PosP(<<"p">>, <<X, Wildcard>>)
                 ELSE Premise("TemporalAtom", <<"p">>, <<X, Wildcard>>, Intervals[i])>>, <<>>)

OpenStructT == Fn("Struct", <<F, Name(<<"number">>), Fn("opt", <<AB, Fn("List", <<Name(<<"any">>)>>)>>)>>)
DeclMenu ==
    <<DeclNode(On(<<"h">>, <<X, Y>>), FALSE, <<>>, <<>>, <<>>),
      DeclNode(On(<<"h">>, <<X>>), TRUE, <<On(<<"doc">>, <<SA>>), On(<<"mode">>, <<>>)>>,
               <<<<OpenStructT>>, <<Fn("Union", <<AB, F>>)>>>>, <<>>),
      DeclNode(On(<<"p">>, <<X>>), FALSE, <<>>, <<<<Fn("List", <<OpenStructT>>)>>>>,
               <<On(<<"q">>, <<X>>)>>)>>

\* Graphs of predicates: <<"graph", edges>>, each "", "pos", "neg" or "do"
Nodes(n) == SubSeq(<<"p", "q", "r", "s">>, 1, n)
EdgeClauses(edges) ==
    LET kept == {e \in DOMAIN edges : edges[e] # ""}
        clause(e) == ClauseNode(On(<<e[1]>>, <<X>>), <<>>,
                       <<IF edges[e] = "neg" THEN NegP(<<e[2]>>, <<X>>) ELSE PosP(<<e[2]>>, <<X>>)>>,
                       IF edges[e] # "do" THEN <<>>
                       ELSE <<[var |-> <<>>, app |-> Fn("group_by", <<X>>)],
                              LetOf("Z", Fn("count", <<>>))>>)
    IN  FoldFunction(LAMBDA c, cs : Append(cs, c), <<>>, [e \in kept |-> clause(e)])
BaseRules(nodes) == [i \in DOMAIN nodes |->
                    ClauseNode(On(<<nodes[i]>>, <<X>>), <<>>, <<PosP(<<"e">>, <<X>>)>>, <<>>)]

Two == {"p", "q"} \X {"p", "q"}
Three == {e \in {"p", "q", "r"} \X {"p", "q", "r"} : e[1] # e[2]}
Ring == {<<"p", "q">>, <<"q", "r">>, <<"r", "s">>, <<"s", "p">>, <<"q", "p">>}

\* <<"packages", package, package, path read, path read, declared>>
PackageUnits(key) ==
    <<Unit1(key[2], <<>>,
            IF key[6] THEN <<DeclNode(On(<<"q">>, <<X>>), FALSE, <<>>, <<>>, <<>>)>> ELSE <<>>,
            <<ClauseNode(On(<<"p">>, <<X>>), <<>>, <<NegP(key[4], <<X>>)>>, <<>>)>>),
      Unit1(key[3], IF key[2] = "" THEN <<>> ELSE <<key[2]>>, <<>>,
            <<ClauseNode(On(<<"p">>, <<X>>), <<>>,
                         <<PosP(key[5], <<X>>),
                           Premise("TemporalAtom", <<"q">>, <<X>>, Intervals[2])>>, <<>>),
              ClauseNode(On(<<"q">>, <<X>>), <<>>, <<PosP(<<"e">>, <<X>>)>>, <<>>)>>)>>

MCUnitsOf(key) ==
    CASE key[1] = "clause" -> <<Unit1("", <<>>, <<>>, <<ClauseOf(key), Timed(key[5])>>)>>
      [] key[1] = "decl" -> <<Unit1(key[3], <<>>, <<DeclMenu[key[2]]>>, <<Timed(1)>>)>>
      [] key[1] = "graph" -> <<Unit1("", <<>>, <<>>, BaseRules(Nodes(key[3])) \o EdgeClauses(key[2]))>>
      [] key[1] = "packages" -> PackageUnits(key)

Paths == {<<"p">>, <<"q">>, <<"a", "p">>, <<"a", "q">>, <<"b", "q">>}

\* <<transforms, interval of the head>>
Ends == {<<1, 1>>, <<1, 2>>, <<2, 3>>, <<3, 4>>}

TwoGraphs   == [Two -> {"", "pos", "neg", "do"}]
ThreeGraphs == {g \in [Three -> {"", "pos", "neg"}] : g[<<"p", "q">>] = "pos"}
RingGraphs  ==
    {g \in [Ring -> {"", "pos", "neg"}] :
       /\ g[<<"p", "q">>] = "pos" /\ g[<<"q", "r">>] # "" /\ g[<<"r", "s">>] # "neg"
       /\ g[<<"s", "p">>] # "pos" /\ g[<<"q", "p">>] # "neg"}

MCWritten ==
    [program : {<<"clause", t, b, e[1], e[2]>> : t \in DOMAIN TermMenu, b \in 1..6, e \in Ends},
     style : {"plain", "sugar", "tight", "pretty"}]
    \cup [program : {"decl"} \X (DOMAIN DeclMenu) \X {"", "a"}, style : {"plain", "sugar", "tight"}]
    \cup [program : {"graph"} \X TwoGraphs \X {2} \cup {"graph"} \X ThreeGraphs \X {3}
                    \cup {"graph"} \X RingGraphs \X {4}, style : {"plain"}]
    \cup [program : {"packages"} \X {"", "a"} \X {"", "a", "b"} \X Paths \X Paths \X BOOLEAN,
          style : {"plain"}]
=============================================================================
