------------------------------- MODULE Syntax -------------------------------
(***************************************************************************)
(* From a text to its syntax tree: the scanner and the parser,             *)
(* crates/mangle-parse/src/scan.rs and lib.rs.                             *)
(*                                                                         *)
(* A text is a sequence of pieces: a punctuation character, a space, a     *)
(* word with the class of its first characters, or a constant.  The        *)
(* scanner decides by looking ahead where a token ends.  The terms are     *)
(* those of module TypeExpr; a predicate is its name, and an interval the  *)
(* sequence of its two bounds.                                             *)
(***************************************************************************)
EXTENDS Builtins

Piece(p, v, c) == [p |-> p, v |-> v, c |-> c]
Chr(v)         == Piece("char", v, "")
Space          == Chr(" ")
Word(v, c)     == Piece("word", v, c)       \* c: var, fn, wild or other
Literal(term)  == Piece("const", term, "")
IsChr(x, v)    == x.p = "char" /\ x.v = v

Token(t, v, c) == [t |-> t, v |-> v, c |-> c]
Symbol(t)      == Token(t, "", "")
Ident(v, c)    == Token("ident", v, c)
Eof            == Symbol("eof")

----------------------------------------------------------------------------
(* The scanner *)

Keywords == {"Package", "Use", "Decl", "bound", "inclusion", "do", "descr", "let"}

\* The text of a word; only a function's has a prefix
Spelled(w) == IF w.c = "fn" THEN "fn:" \o w.v ELSE w.v

\* ident_or_dot_ident: a keyword is one after a dot too
WordToken(w, dotted) ==
    IF w.v \in Keywords THEN Symbol(w.v)
    ELSE IF dotted THEN Token("dotident", w.v, "") ELSE Ident(w.v, w.c)

\* builtin_predicate
BuiltinToken(w) == Ident(":" \o Spelled(w), "other")

\* name: a dot is a character of a name
NameToken(term, dotted) ==
    Token("const",
          IF dotted THEN Name(Front(term.name) \o <<Last(term.name) \o ".">>) ELSE term, "")

\* The characters that make one token with the next one
Longer == {<<"!", "=">>, <<"<", "=">>, <<">", "=">>, <<":", "-">>, <<"|", ">">>}

\* next_token_internal: the token at the front of a text, and the pieces it takes
TokenAt(text) ==
    LET h == text[1]
        n == IF Len(text) > 1 THEN text[2] ELSE Chr("")
        dot == IsChr(n, ".")
        found(token, pieces) == [token |-> token, pieces |-> pieces]
    IN  CASE h.p = "word" -> found(WordToken(h, FALSE), 1)
          [] h.p = "const" /\ h.v.kind = "Name" ->
               found(NameToken(h.v, dot), IF dot THEN 2 ELSE 1)
          [] h.p = "const" /\ h.v.kind # "Name" -> found(Token("const", h.v, ""), 1)
          [] h.p = "char" /\ n.p = "char" /\ <<h.v, n.v>> \in Longer -> found(Symbol(h.v \o n.v), 2)
          [] IsChr(h, ":") /\ n.p = "word" -> found(BuiltinToken(n), 2)
          [] IsChr(h, "-") /\ n.p = "const" /\ n.v.kind = "Number" ->
               found(Token("const", Num(-n.v.name[2]), ""), 2)
          [] IsChr(h, ".") /\ n.p = "word" /\ n.c = "var" -> found(WordToken(n, TRUE), 2)
          [] OTHER -> found(Symbol(h.v), 1)

RECURSIVE SkipSpaces(_)
SkipSpaces(text) ==
    IF text # <<>> /\ IsChr(text[1], " ") THEN SkipSpaces(Tail(text)) ELSE text

----------------------------------------------------------------------------
(* The parser: the text to come and the token before it, the counter of    *)
(* anonymous variables and what the last call made.                        *)

Past(s, text, next) ==
    [s EXCEPT !.token = next.token, !.text = SubSeq(text, next.pieces + 1, Len(text))]

AdvanceIn(s, text) ==
    IF text = <<>> THEN [s EXCEPT !.token = Eof, !.text = <<>>] ELSE Past(s, text, TokenAt(text))

\* next_token
Advance(s) == AdvanceIn(s, SkipSpaces(s.text))

Parser(text)    == Advance([text |-> text, token |-> Eof, anon |-> 0, ok |-> TRUE, node |-> <<>>])
Peek(s)         == s.token
IsAt(s, t)      == s.ok /\ Peek(s).t = t
Bail(s)         == [s EXCEPT !.ok = FALSE]
Made(s, node)   == [s EXCEPT !.node = node]
Expect(s, t)    == IF IsAt(s, t) THEN Advance(s) ELSE Bail(s)

IsVariable(token) == token.t = "ident" /\ token.c = "var"

BaseTermStart(token) ==
    \/ token.t \in {"const", "[", "{", "dotident"}
    \/ token.t = "ident" /\ token.c \in {"var", "fn", "wild"}


\* The functions of the parser call one another through Parse, by name; items is
\* what the functions for sequences have already.
RECURSIVE Parse(_, _, _)

\* parse_base_terms, after items; a comma may trail
ParseBaseTerms(s, items) ==
    LET one == Parse("BaseTerm", s, <<>>)
        all == Append(items, one.node)
        aft == Advance(one)
    IN  IF ~IsAt(one, ",") THEN Made(one, all)
        ELSE IF BaseTermStart(Peek(aft)) THEN Parse("BaseTerms", aft, all) ELSE Made(aft, all)

\* parse_paren_base_terms
ParseParen(s) ==
    LET open == Expect(s, "(")
    IN  IF IsAt(open, ")") THEN Made(Advance(open), <<>>)
        ELSE Expect(Parse("BaseTerms", open, <<>>), ")")

\* The entries of a map or a struct, up to the closing token; the keys of a
\* struct are names
ParseEntries(s, items, what) ==
    LET close == IF what = "MapEntries" THEN "]" ELSE "}"
        key == Parse("BaseTerm", s, <<>>)
        val == Parse("BaseTerm", Expect(key, ":"), <<>>)
        all == items \o <<key.node, val.node>>
        aft == Advance(val)
    IN  IF ~val.ok \/ (close = "}" /\ ~IsName(key.node)) THEN Bail(s)
        ELSE IF IsAt(val, ",") /\ Peek(aft).t # close THEN Parse(what, aft, all)
        ELSE Made(Expect(IF IsAt(val, ",") THEN aft ELSE val, close), all)

\* parse_list_or_map
ParseListOrMap(s) ==
    LET open  == Expect(s, "[")
        first == Parse("BaseTerm", open, <<>>)
        map   == Parse("MapEntries", open, <<>>)
        list  == Expect(Parse("BaseTerms", open, <<>>), "]")
    IN  IF IsAt(open, "]") THEN Made(Advance(open), Fn("list", <<>>))
        ELSE IF IsAt(first, ":") THEN Made(map, Fn("map", map.node))
        ELSE Made(list, Fn("list", list.node))

\* parse_struct
ParseStruct(s) ==
    LET open    == Expect(s, "{")
        entries == Parse("StructEntries", open, <<>>)
    IN  IF IsAt(open, "}") THEN Made(Advance(open), Fn("struct", <<>>))
        ELSE Made(entries, Fn("struct", entries.node))

IsOpt(token) == token.t = "ident" /\ token.c = "other" /\ token.v = "opt"

\* parse_langle_member: a term, two with a colon, or opt and a field
ParseMember(s) ==
    LET opt  == IsOpt(Peek(s))
        left == Parse("BaseTerm", IF opt THEN Advance(s) ELSE s, <<>>)
        pair == Parse("BaseTerm", Expect(left, ":"), <<>>)
    IN  IF opt THEN Made(pair, <<Fn("opt", <<left.node, pair.node>>)>>)
        ELSE IF IsAt(left, ":") THEN Made(pair, <<left.node, pair.node>>)
        ELSE Made(left, <<left.node>>)

ParseMembers(s, items) ==
    LET one == Parse("Member", s, <<>>)
        all == items \o one.node
        aft == Advance(one)
    IN  IF ~one.ok THEN one
        ELSE IF ~IsAt(one, ",") THEN Made(one, all)
        ELSE IF BaseTermStart(Peek(aft)) \/ IsOpt(Peek(aft)) THEN Parse("Members", aft, all)
        ELSE Made(aft, all)

\* parse_langle_base_terms
ParseLangle(s) ==
    LET open == Expect(s, "<")
    IN  IF IsAt(open, ">") THEN Made(Advance(open), <<>>)
        ELSE Expect(Parse("Members", open, <<>>), ">")

\* parse_base_term; an anonymous variable gets a name of its own
ParseBaseTerm(s) ==
    LET token == Peek(s)
        call  == Parse(IF token.t = "dotident" THEN "Langle" ELSE "Paren", Advance(s), <<>>)
    IN  CASE ~s.ok -> s
          [] s.ok /\ token.t = "[" -> Parse("ListOrMap", s, <<>>)
          [] s.ok /\ token.t = "{" -> Parse("Struct", s, <<>>)
          [] s.ok /\ token.t = "const" -> Made(Advance(s), token.v)
          [] s.ok /\ token.t = "ident" /\ token.c = "wild" ->
               Made([Advance(s) EXCEPT !.anon = @ + 1], Var("_Anon" \o ToString(s.anon)))
          [] s.ok /\ IsVariable(token) -> Made(Advance(s), Var(token.v))
          [] s.ok /\ (token.t = "dotident" \/ (token.t = "ident" /\ token.c = "fn")) ->
               Made(call, Fn(token.v, call.node))
          [] OTHER -> Bail(s)

----------------------------------------------------------------------------
(* Atoms, premises, clauses *)

AtomNode(pred, args) == [pred |-> pred, args |-> args]

\* A qualified name: identifiers with dots between them
ParseQualified(s) ==
    LET aft == Advance(s)
    IN  IF ~IsAt(s, ".") THEN s
        ELSE IF ~IsAt(aft, "ident") THEN Bail(s)
        ELSE Parse("Qualified", Made(Advance(aft), s.node \o "." \o Spelled(Peek(aft))), <<>>)

\* parse_atom
ParseAtom(s) ==
    LET token == Peek(s)
        named == Parse("Qualified", Made(Advance(s), Spelled(token)), <<>>)
        args  == Parse("Paren", named, <<>>)
    IN  IF ~IsAt(s, "ident") \/ IsVariable(token) THEN Bail(s)
        ELSE Made(args, AtomNode(named.node, args.node))

\* parse_bracket_atoms and parse_atoms, after atoms
ParseAtoms(s, atoms) ==
    LET one == Parse("Atom", s, <<>>)
        all == Append(atoms, one.node)
    IN  IF ~IsAt(s, "ident") THEN Made(s, atoms)
        ELSE IF IsAt(one, ",") THEN Parse("Atoms", Advance(one), all) ELSE Made(one, all)

ParseBracketAtoms(s, atoms) == Expect(Parse("Atoms", Expect(s, "["), atoms), "]")

Bound(k, v) == [k |-> k, v |-> v]

\* parse_temporal_bound
ParseBound(s, open) ==
    LET token == Peek(s)
        time  == IsAt(s, "const") /\ token.v.kind = "Time"
        wild  == IsAt(s, "ident") /\ token.c = "wild"
        var   == IsAt(s, "ident") /\ token.c = "var"
    IN  IF ~(time \/ wild \/ var) THEN Bail(s)
        ELSE Made(Advance(s), CASE time -> Bound("Timestamp", token.v)
                                [] wild -> Bound(open, Null)
                                [] var  -> Bound("Variable", Var(token.v)))

CloseInterval(start, end) == Made(Expect(end, "]"), <<start.node, end.node>>)

EndInterval(start) ==
    CloseInterval(start, IF IsAt(start, ",") THEN ParseBound(Advance(start), "PosInf") ELSE start)

\* try_parse_interval: @[T] is @[T, T]
ParseInterval(s) ==
    IF ~IsAt(s, "@") THEN Made(s, <<>>)
    ELSE EndInterval(ParseBound(Expect(Advance(s), "["), "NegInf"))

Premise(kind, pred, args, time) == [kind |-> kind, pred |-> pred, args |-> args, time |-> time]

ComparisonOf == [o \in {"<", "<=", ">", ">="} |->
                   CASE o = "<" -> ":lt" [] o = "<=" -> ":le" [] o = ">" -> ":gt" [] o = ">=" -> ":ge"]

\* parse_term
ParseTerm(s) ==
    LET neg   == Parse("Atom", Advance(s), <<>>)
        left  == Parse("BaseTerm", s, <<>>)
        op    == Peek(left).t
        right == Parse("BaseTerm", Advance(left), <<>>)
        sides == <<left.node, right.node>>
        atom  == Parse("Atom", s, <<>>)
        timed == Parse("Interval", atom, <<>>)
    IN  CASE IsAt(s, "!") -> Made(neg, Premise("NegAtom", neg.node.pred, neg.node.args, <<>>))
          [] s.ok /\ BaseTermStart(Peek(s)) ->
               CASE ~left.ok -> left
                 [] left.ok /\ op = "=" -> Made(right, Premise("Eq", "", sides, <<>>))
                 [] left.ok /\ op = "!=" -> Made(right, Premise("Ineq", "", sides, <<>>))
                 [] left.ok /\ op \in DOMAIN ComparisonOf ->
                      Made(right, Premise("Atom", ComparisonOf[op], sides, <<>>))
                 [] OTHER -> Bail(s)
          [] s.ok /\ ~BaseTermStart(Peek(s)) /\ Peek(s).t = "ident" ->
               IF ~timed.ok THEN Bail(s)
               ELSE Made(timed, Premise(IF timed.node = <<>> THEN "Atom" ELSE "TemporalAtom",
                                        atom.node.pred, atom.node.args, timed.node))
          [] OTHER -> Bail(s)

ParseTerms(s, terms) ==
    LET one == Parse("Term", s, <<>>)
        all == Append(terms, one.node)
    IN  IF IsAt(one, ",") THEN Parse("Terms", Advance(one), all) ELSE Made(one, all)

TransformSep(s) == IF IsAt(s, ",") \/ IsAt(s, ";") THEN Advance(s) ELSE Bail(s)

\* The let statements of parse_transforms; a let without an identifier is
\* passed over
MoreLets(last, stmts) ==
    IF IsAt(last, ".") THEN Made(last, stmts) ELSE Parse("Lets", TransformSep(last), stmts)

BoundTo(stmts, var, app) == MoreLets(app, Append(stmts, [var |-> <<Spelled(Peek(var))>>, app |-> app.node]))

LetAt(var, stmts) ==
    IF ~IsAt(var, "ident") THEN MoreLets(var, stmts)
    ELSE BoundTo(stmts, var, Parse("BaseTerm", Expect(Advance(var), "="), <<>>))

ParseLets(s, stmts) == IF IsAt(s, "let") THEN LetAt(Advance(s), stmts) ELSE Made(s, stmts)

\* parse_transforms: one do at most, and first
ParseTransforms(s) ==
    LET app == Parse("BaseTerm", Advance(s), <<>>)
    IN  IF IsAt(s, "do") THEN Parse("Lets", TransformSep(app), <<[var |-> <<>>, app |-> app.node]>>)
        ELSE Parse("Lets", s, <<>>)

ClauseNode(head, time, premises, transforms) ==
    [head |-> head, time |-> time, premises |-> premises, transforms |-> transforms]

\* parse_clause
ParseClause(s) ==
    LET head  == Parse("Atom", s, <<>>)
        time  == Parse("Interval", head, <<>>)
        body  == Parse("Terms", Advance(time), <<>>)
        trans == Parse("Transforms", Advance(body), <<>>)
        done(last, premises, transforms) ==
            Made(Expect(last, "."), ClauseNode(head.node, time.node, premises, transforms))
    IN  IF ~time.ok THEN Bail(s)
        ELSE IF ~IsAt(time, ":-") /\ ~IsAt(time, "<==") THEN done(time, <<>>, <<>>)
        ELSE IF IsAt(body, "|>") THEN done(trans, body.node, trans.node)
        ELSE done(body, body.node, <<>>)

----------------------------------------------------------------------------
(* Declarations and units *)

DeclNode(atom, temporal, descr, bounds, inclusion) ==
    [atom |-> atom, temporal |-> temporal, descr |-> descr, bounds |-> bounds,
     inclusion |-> inclusion]

NameDescr(v) == AtomNode("name", <<Str(<<v>>)>>)

HeaderEnd(s, keyword) ==
    Made(Expect(s, "!"), DeclNode(AtomNode(keyword, <<>>), FALSE, s.node, <<>>, <<>>))

HeaderDescr(s, keyword, descr) ==
    HeaderEnd(IF IsAt(s, "[") THEN Parse("BracketAtoms", s, descr) ELSE Made(s, descr), keyword)

HeaderName(s, keyword) ==
    IF ~IsAt(s, "ident") THEN Bail(s)
    ELSE HeaderDescr(Advance(s), keyword, <<NameDescr(Peek(s).v)>>)

\* parse_package_decl and parse_use_decl
ParseHeader(s, keyword) ==
    HeaderName(Expect(s, keyword), keyword)

ParseBounds(s, bounds) ==
    LET one == Expect(Parse("BaseTerms", Expect(Advance(s), "["), <<>>), "]")
    IN  IF ~IsAt(s, "bound") THEN Made(s, bounds)
        ELSE Parse("Bounds", one, Append(bounds, one.node))

\* parse_decl
ListAfter(s, keyword) ==
    IF IsAt(s, keyword) THEN Parse("BracketAtoms", Advance(s), <<>>) ELSE Made(s, <<>>)

DeclInclusion(decl, s) == Made(Expect(s, "."), [decl EXCEPT !.inclusion = s.node])

DeclBounds(decl, s) == DeclInclusion([decl EXCEPT !.bounds = s.node], ListAfter(s, "inclusion"))

DeclDescr(decl, s) == DeclBounds([decl EXCEPT !.descr = s.node], Parse("Bounds", s, <<>>))

DeclAtom(s) ==
    LET timed == IsAt(s, "ident") /\ Peek(s).v = "temporal"
    IN  DeclDescr(DeclNode(s.node, timed, <<>>, <<>>, <<>>),
                  ListAfter(IF timed THEN Advance(s) ELSE s, "descr"))

ParseDecl(s) == DeclAtom(Parse("Atom", Expect(s, "Decl"), <<>>))

ParseUses(s, decls) ==
    LET one == Parse("Use", s, <<>>)
    IN  IF IsAt(s, "Use") THEN Parse("Uses", one, Append(decls, one.node)) ELSE Made(s, decls)

ParseItems(s, unit) ==
    LET decl   == Parse("Decl", s, <<>>)
        clause == Parse("Clause", s, <<>>)
    IN  IF ~s.ok \/ IsAt(s, "eof") THEN Made(s, unit)
        ELSE IF IsAt(s, "Decl") THEN Parse("Items", decl, [unit EXCEPT !.decls = Append(@, decl.node)])
        ELSE Parse("Items", clause, [unit EXCEPT !.clauses = Append(@, clause.node)])

\* parse_unit: without a package the name of the package is empty
ParseUnit(s) ==
    LET pkg  == IF IsAt(s, "Package") THEN Parse("Package", s, <<>>)
                ELSE Made(s, DeclNode(AtomNode("Package", <<>>), FALSE, <<NameDescr("")>>, <<>>, <<>>))
        uses == Parse("Uses", pkg, <<pkg.node>>)
    IN  Parse("Items", uses, [decls |-> uses.node, clauses |-> <<>>])

Parse(what, s, items) ==
    CASE what = "BaseTerm"     -> ParseBaseTerm(s)
      [] what = "BaseTerms"    -> ParseBaseTerms(s, items)
      [] what = "Paren"        -> ParseParen(s)
      [] what \in {"MapEntries", "StructEntries"} -> ParseEntries(s, items, what)
      [] what = "ListOrMap"    -> ParseListOrMap(s)
      [] what = "Struct"       -> ParseStruct(s)
      [] what = "Member"       -> ParseMember(s)
      [] what = "Members"      -> ParseMembers(s, items)
      [] what = "Langle"       -> ParseLangle(s)
      [] what = "Qualified"    -> ParseQualified(s)
      [] what = "Atom"         -> ParseAtom(s)
      [] what = "Atoms"        -> ParseAtoms(s, items)
      [] what = "BracketAtoms" -> ParseBracketAtoms(s, items)
      [] what = "Interval"     -> ParseInterval(s)
      [] what = "Term"         -> ParseTerm(s)
      [] what = "Terms"        -> ParseTerms(s, items)
      [] what = "Lets"         -> ParseLets(s, items)
      [] what = "Transforms"   -> ParseTransforms(s)
      [] what = "Clause"       -> ParseClause(s)
      [] what = "Bounds"       -> ParseBounds(s, items)
      [] what = "Decl"         -> ParseDecl(s)
      [] what \in {"Package", "Use"} -> ParseHeader(s, what)
      [] what = "Uses"         -> ParseUses(s, items)
      [] what = "Items"        -> ParseItems(s, items)
      [] what = "Unit"         -> ParseUnit(s)

ParseText(text) == Parse("Unit", Parser(text), <<>>)
=============================================================================
