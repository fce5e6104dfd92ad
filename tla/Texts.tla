-------------------------------- MODULE Texts --------------------------------
(***************************************************************************)
(* The texts of a program: as its author writes them, with or without the  *)
(* sugar of the grammar, and as crates/mangle-ast/src/pretty.rs prints its *)
(* clauses.                                                                *)
(*                                                                         *)
(* An author's unit is [package, uses, decls, clauses]; its predicates are *)
(* paths, <<"p">> or <<"pkg", "p">>, and <<":", "lt">> for a built-in, and *)
(* its wildcards are the variable _.  A lexeme is a sequence of pieces, a  *)
(* layout puts spaces between lexemes.                                     *)
(***************************************************************************)
EXTENDS Syntax

Dotted(path) ==
    IF path[1] = ":" THEN ":" \o path[2]
    ELSE FoldLeft(LAMBDA name, ident : name \o "." \o ident, path[1], Tail(path))

Mark(v) == <<Chr(v)>>

\* Sequences of lexemes with a separator between them
Between(parts, sep) ==
    FoldLeft(LAMBDA all, part : IF all = <<>> THEN part ELSE all \o <<sep>> \o part, <<>>, parts)

PathLexeme(path) ==
    IF path[1] = ":" THEN <<Chr(":"), Word(path[2], "other")>>
    ELSE FoldLeft(LAMBDA all, ident : all \o <<Chr("."), Word(ident, "other")>>,
                  <<Word(path[1], "other")>>, Tail(path))

ConstLexeme(t) ==
    IF t.kind = "Number" /\ t.name[2] < 0 THEN <<Chr("-"), Literal(Num(-t.name[2]))>>
    ELSE <<Literal(t)>>

TypeFns == {"List", "Struct", "Union"}

\* Pairs of arguments, with a colon between the two
Pairs(parts) ==
    [i \in 1..Len(parts) \div 2 |-> parts[2 * i - 1] \o <<Mark(":")>> \o parts[2 * i]]

RECURSIVE TermText(_, _)
TermText(t, sugar) ==
    LET parts   == [i \in DOMAIN t.args |-> TermText(t.args[i], sugar)]
        trail   == IF sugar /\ parts # <<>> THEN <<Mark(",")>> ELSE <<>>
        listed(open, items, close) == <<open>> \o Between(items, Mark(",")) \o trail \o <<Mark(close)>>
        call    == <<<<Word(t.name[1], "fn")>>, Mark("(")>> \o Between(parts, Mark(",")) \o <<Mark(")")>>
        f       == t.name[1]
        \* the fields of a type: those that may be missing come last
        isOpt(p) == p[1][1].p = "word" /\ p[1][1].v = "opt"
        fields  == Pairs(SelectSeq(parts, LAMBDA p : ~isOpt(p))) \o SelectSeq(parts, isOpt)
    IN  CASE t.kind = "Var" -> <<<<Word(f, IF f = "_" THEN "wild" ELSE "var")>>>>
          [] t.kind \notin {"Var", "ApplyFn"} -> <<ConstLexeme(t)>>
          [] t.kind = "ApplyFn" /\ ~sugar -> call
          [] t.kind = "ApplyFn" /\ sugar ->
               CASE f = "list" -> listed(Mark("["), parts, "]")
                 [] f = "map" /\ parts # <<>> -> listed(Mark("["), Pairs(parts), "]")
                 [] f = "struct" -> listed(Mark("{"), Pairs(parts), "}")
                 [] f = "opt" -> <<<<Word("opt", "other")>>>> \o Pairs(parts)[1]
                 [] f \in TypeFns -> <<<<Chr("."), Word(f, "var")>>>>
                                     \o listed(Mark("<"), IF f = "Struct" THEN fields ELSE parts, ">")
                 [] OTHER -> call

ArgsText(args, sugar) ==
    <<Mark("(")>> \o Between([i \in DOMAIN args |-> TermText(args[i], sugar)], Mark(",")) \o <<Mark(")")>>

AtomText(atom, sugar) == <<PathLexeme(atom.pred)>> \o ArgsText(atom.args, sugar)

BoundText(b) ==
    CASE b.k = "Timestamp" -> <<ConstLexeme(b.v)>>
      [] b.k = "Variable" -> <<<<Word(b.v.name[1], "var")>>>>
      [] OTHER -> <<<<Word("_", "wild")>>>>

\* With sugar a point is written once
IntervalText(time, sugar) ==
    IF time = <<>> THEN <<>>
    ELSE <<Mark("@"), Mark("[")>>
         \o (IF sugar /\ time[1] = time[2] THEN BoundText(time[1])
             ELSE BoundText(time[1]) \o <<Mark(",")>> \o BoundText(time[2]))
         \o <<Mark("]")>>

OperatorOf == [n \in {"lt", "le", "gt", "ge"} |->
                 CASE n = "lt" -> Mark("<") [] n = "le" -> <<Chr("<"), Chr("=")>>
                   [] n = "gt" -> Mark(">") [] n = "ge" -> <<Chr(">"), Chr("=")>>]

PremiseText(p, sugar) ==
    LET side(i) == TermText(p.args[i], sugar)
    IN  CASE p.kind = "NegAtom" -> <<Mark("!")>> \o AtomText(p, sugar)
          [] p.kind = "Eq"   -> side(1) \o <<Mark("=")>> \o side(2)
          [] p.kind = "Ineq" -> side(1) \o <<<<Chr("!"), Chr("=")>>>> \o side(2)
          [] p.kind \in {"Atom", "TemporalAtom"} /\ sugar /\ p.pred[1] = ":" ->
               side(1) \o <<OperatorOf[p.pred[2]]>> \o side(2)
          [] OTHER -> AtomText(p, sugar) \o IntervalText(p.time, sugar)

TransformText(t, sugar) ==
    (IF t.var = <<>> THEN <<<<Word("do", "other")>>>>
     ELSE <<<<Word("let", "other")>>, <<Word(t.var[1], "var")>>, Mark("=")>>)
    \o TermText(t.app, sugar)

\* With sugar: the long arrow, semicolons, and one after the last let
ClauseText(c, sugar) ==
    LET sep == Mark(IF sugar THEN ";" ELSE ",")
    IN  AtomText(c.head, sugar) \o IntervalText(c.time, sugar)
        \o (IF c.premises = <<>> THEN <<>>
            ELSE <<IF sugar THEN Mark("<==") ELSE <<Chr(":"), Chr("-")>>>>
                 \o Between([i \in DOMAIN c.premises |-> PremiseText(c.premises[i], sugar)], Mark(",")))
        \o (IF c.transforms = <<>> THEN <<>>
            ELSE <<<<Chr("|"), Chr(">")>>>>
                 \o Between([i \in DOMAIN c.transforms |-> TransformText(c.transforms[i], sugar)], sep)
                 \o (IF sugar THEN <<sep>> ELSE <<>>))
        \o <<Mark(".")>>

HeaderText(keyword, name) == <<<<Word(keyword, "var")>>, <<Word(name, "other")>>, Mark("!")>>

DeclText(d, sugar) ==
    LET atoms(as) == <<Mark("[")>>
                     \o Between([i \in DOMAIN as |-> AtomText(as[i], sugar)], Mark(","))
                     \o (IF sugar /\ as # <<>> THEN <<Mark(",")>> ELSE <<>>) \o <<Mark("]")>>
        bound(b) == <<<<Word("bound", "other")>>, Mark("[")>>
                    \o Between([i \in DOMAIN b |-> TermText(b[i], sugar)], Mark(",")) \o <<Mark("]")>>
    IN  <<<<Word("Decl", "var")>>>> \o AtomText(d.atom, sugar)
        \o (IF d.temporal THEN <<<<Word("temporal", "other")>>>> ELSE <<>>)
        \o (IF d.descr = <<>> THEN <<>> ELSE <<<<Word("descr", "other")>>>> \o atoms(d.descr))
        \o FlattenSeq([i \in DOMAIN d.bounds |-> bound(d.bounds[i])])
        \o (IF d.inclusion = <<>> THEN <<>> ELSE <<<<Word("inclusion", "other")>>>> \o atoms(d.inclusion))
        \o <<Mark(".")>>

UnitText(unit, sugar) ==
    (IF unit.package = "" THEN <<>> ELSE HeaderText("Package", unit.package))
    \o FlattenSeq([i \in DOMAIN unit.uses |-> HeaderText("Use", unit.uses[i])])
    \o FlattenSeq([i \in DOMAIN unit.decls |-> DeclText(unit.decls[i], sugar) \o <<<<Space>>>>])
    \o FlattenSeq([i \in DOMAIN unit.clauses |-> ClauseText(unit.clauses[i], sugar) \o <<<<Space>>>>])

----------------------------------------------------------------------------
(* pretty.rs *)

\* An anonymous variable has the name that the parser gave it, an instant is t#n.
RECURSIVE PrettyTerm(_)
PrettyTerm(t) ==
    LET parts == [i \in DOMAIN t.args |-> PrettyTerm(t.args[i])]
    IN  CASE t.kind = "Var" -> <<<<Word(t.name[1], IF t.name[1] = "_" THEN "other" ELSE "var")>>>>
          [] t.kind = "Time" -> <<<<Word("t", "other"), Chr("#"), Literal(Num(t.name[2]))>>>>
          [] t.kind = "ApplyFn" ->
               <<<<Word(t.name[1], "fn"), Chr("(")>>>> \o Between(parts, <<Chr(","), Space>>) \o <<Mark(")")>>
          [] OTHER -> <<ConstLexeme(t)>>

PrettyAtom(a) ==
    <<PathLexeme(a.pred), Mark("(")>>
    \o Between([i \in DOMAIN a.args |-> PrettyTerm(a.args[i])], <<Chr(","), Space>>) \o <<Mark(")")>>

\* Display of TemporalBound: a variable is its number
PrettyBound(b) ==
    CASE b.k = "Timestamp" -> <<<<Word("t", "other"), Chr("#"), Literal(Num(b.v.name[2]))>>>>
      [] b.k = "Variable" -> <<<<Word("v", "other"), Chr("$"), Literal(Num(1))>>>>
      [] OTHER -> <<<<Word("_", "wild")>>>>

PrettyInterval(time) ==
    IF time = <<>> THEN <<>>
    ELSE <<<<Chr("@"), Chr("[")>>>> \o PrettyBound(time[1]) \o <<<<Chr(","), Space>>>>
         \o PrettyBound(time[2]) \o <<Mark("]")>>

PrettyPremise(p) ==
    CASE p.kind = "NegAtom" -> <<Mark("!")>> \o PrettyAtom(p)
      [] p.kind = "Eq" -> PrettyTerm(p.args[1]) \o <<<<Space, Chr("="), Space>>>> \o PrettyTerm(p.args[2])
      [] p.kind = "Ineq" ->
           PrettyTerm(p.args[1]) \o <<<<Space, Chr("!"), Chr("="), Space>>>> \o PrettyTerm(p.args[2])
      [] OTHER -> PrettyAtom(p) \o PrettyInterval(p.time)

PrettyTransform(t) ==
    (IF t.var = <<>> THEN <<>>
     ELSE <<<<Word("let", "other"), Space, Word(t.var[1], "var"), Space, Chr("="), Space>>>>)
    \o PrettyTerm(t.app)

\* The transforms follow the premises after a comma
PrettyClause(c) ==
    LET body == [i \in DOMAIN c.premises |-> PrettyPremise(c.premises[i])]
                \o [i \in DOMAIN c.transforms |-> PrettyTransform(c.transforms[i])]
    IN  PrettyAtom(c.head) \o PrettyInterval(c.time)
        \o (IF body = <<>> THEN <<>>
            ELSE <<<<Space, Chr(":"), Chr("-"), Space>>>> \o Between(body, <<Chr(","), Space>>))
        \o <<Mark(".")>>

PrettyUnit(unit) ==
    FlattenSeq([i \in DOMAIN unit.clauses |-> PrettyClause(unit.clauses[i]) \o <<<<Space>>>>])

----------------------------------------------------------------------------
(* Layouts *)

\* Two lexemes that run into one without a space
Merge(left, right) == Last(left).p \in {"word", "const"} /\ right[1].p \in {"word", "const"}

\* Two lexemes that the scanner reads in another way without a space: a name takes
\* a dot, a colon takes a word or the sign of a number.
Crowded(left, right) ==
    LET l == Last(left)
        r == right[1]
    IN  \/ l.p = "const" /\ l.v.kind = "Name" /\ IsChr(r, ".")
        \/ IsChr(l, ":") /\ (r.p = "word" \/ IsChr(r, "-"))

HasCrowded(lexemes) == \E i \in 1..Len(lexemes) - 1 : Crowded(lexemes[i], lexemes[i + 1])

\* FlattenSeq of a long sequence, by halves
RECURSIVE FlattenLong(_)
FlattenLong(seqs) ==
    LET half == Len(seqs) \div 2
    IN  IF Len(seqs) < 8 THEN FlattenSeq(seqs)
        ELSE FlattenLong(SubSeq(seqs, 1, half)) \o FlattenLong(SubSeq(seqs, half + 1, Len(seqs)))

\* All spaces, or only those without which two words run into one
Laid(lexemes, spaced) ==
    FlattenLong([i \in DOMAIN lexemes |->
        IF i > 1 /\ (spaced \/ Merge(lexemes[i - 1], lexemes[i])) THEN <<Space>> \o lexemes[i]
        ELSE lexemes[i]])
=============================================================================
