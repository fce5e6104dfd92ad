------------------------------ MODULE Builtins ------------------------------
(***************************************************************************)
(* The values of the evaluator and the functions, predicates and reducers  *)
(* it knows: Value of crates/mangle-common/src/lib.rs, eval_function,      *)
(* eval_builtin_predicate and eval_aggregate of                            *)
(* crates/mangle-interpreter/src/lib.rs.                                   *)
(*                                                                         *)
(* A value is a term without variables.  Its payload is in its name: a     *)
(* number, a float as a reduced fraction, ticks (module Calendar) of a time*)
(* or a duration, the tokens of a string, the path of a name.  A token is  *)
(* the code of a character or the text of a time or a duration.  Numbers   *)
(* stay far from the limits of i64.  Floats are exact, but for the square  *)
(* root; -0 and what is made of a NaN are left out.                        *)
(***************************************************************************)
EXTENDS TypeExpr, Calendar

\* The codes of the characters of a segment of a name
CONSTANT Spelling

Num(n)      == Term("Number", <<"#", n>>, <<>>)
Tim(n)      == Term("Time", <<"@", n>>, <<>>)
Dur(n)      == Term("Duration", <<"@", n>>, <<>>)
Str(tokens) == Term("String", <<"s">> \o tokens, <<>>)
Compound(kind, elems) == Term(kind, <<>>, elems)
Null        == Term("Null", <<>>, <<>>)

\* Err of a Result
Err == Term("Error", <<>>, <<>>)

RECURSIVE Gcd(_, _)
Gcd(a, b) == IF b = 0 THEN a ELSE Gcd(b, a % b)

Flt(n, d) ==
    LET s == IF d < 0 THEN -1 ELSE 1
        g == Gcd(IF n < 0 THEN -n ELSE n, s * d)
    IN  Term("Float", <<"%", Quot(s * n, g), (s * d) \div g>>, <<>>)

CompoundKinds == <<"List", "Pair", "Map", "Struct">>
IsCompound(v) == v.kind \in ToSet(CompoundKinds)
IsNumeric(v)  == v.kind \in {"Number", "Float"}
Kinds(vals)   == [i \in DOMAIN vals |-> vals[i].kind]
Payload(v)    == v.name[2]
Tokens(s)     == Tail(s.name)

\* value_as_float
AsFloat(v) == IF v.kind = "Number" THEN <<v.name[2], 1>> ELSE <<v.name[2], v.name[3]>>

----------------------------------------------------------------------------
(* Display, value_to_string *)

Char(c) == <<<<c>>>>

RECURSIVE Decimal(_)
Decimal(n) ==
    IF n < 0 THEN Char(45) \o Decimal(-n)
    ELSE IF n < 10 THEN Char(48 + n)
    ELSE Decimal(n \div 10) \o Char(48 + (n % 10))

\* A float whose fraction terminates: the whole part and the digits.
RECURSIVE Fraction(_, _)
Fraction(n, d) == IF n = 0 THEN <<>> ELSE Char(48 + (10 * n) \div d) \o Fraction((10 * n) % d, d)

FloatText(n, d) ==
    IF n < 0 THEN Char(45) \o Decimal((-n) \div d)
                  \o (IF (-n) % d = 0 THEN <<>> ELSE Char(46) \o Fraction((-n) % d, d))
    ELSE Decimal(n \div d) \o (IF n % d = 0 THEN <<>> ELSE Char(46) \o Fraction(n % d, d))

\* The text of a name: a slash before every segment
NameText(path) ==
    FlattenSeq([i \in DOMAIN path |->
        Char(47) \o [j \in DOMAIN Spelling[path[i]] |-> <<Spelling[path[i]][j]>>]])

InstantOf(n) == [days |-> (n \div Second) \div Day, tod |-> (n \div Second) % Day, sub |-> n % Second]
TicksOf(t)   == (t.days * Day + t.tod) * Second + t.sub

Separated(texts, open, close) ==
    Char(open)
    \o FlattenSeq([i \in DOMAIN texts |->
         (IF i > 1 THEN Char(44) \o Char(32) ELSE <<>>) \o texts[i]])
    \o Char(close)

RECURSIVE Display(_)
Display(v) ==
    LET each  == [i \in DOMAIN v.args |-> Display(v.args[i])]
        pairs == [i \in 1..Len(v.args) \div 2 |->
                    each[2 * i - 1] \o Char(58) \o Char(32) \o each[2 * i]]
    IN  CASE v.kind = "Number"   -> Decimal(Payload(v))
          [] v.kind = "Float"    -> FloatText(v.name[2], v.name[3])
          [] v.kind = "String"   -> Char(34) \o Tokens(v) \o Char(34)
          [] v.kind = "Name"     -> NameText(v.name)
          [] v.kind = "Time"     -> <<<<"T", FormatTime(InstantOf(Payload(v)))>>>>
          [] v.kind = "Duration" -> <<<<"D", FormatDuration(Payload(v))>>>>
          [] v.kind \in {"List", "Pair"} -> Separated(each, 91, 93)
          [] v.kind = "Map"      -> Separated(pairs, 91, 93)
          [] v.kind = "Struct"   -> Separated(pairs, 123, 125)
          [] v.kind = "Null"     -> <<<<110>>, <<117>>, <<108>>, <<108>>>>

\* value_to_string: only a string is not shown as Display shows it.
ToText(v) == IF v.kind = "String" THEN Tokens(v) ELSE Display(v)

----------------------------------------------------------------------------
(* impl Ord for Value *)

Sign(n) == IF n < 0 THEN -1 ELSE IF n > 0 THEN 1 ELSE 0

Rank(v) ==
    CASE IsNumeric(v)         -> 0
      [] v.kind = "String"    -> 1
      [] v.kind = "Name"      -> 2
      [] v.kind = "Time"      -> 3
      [] v.kind = "Duration"  -> 4
      [] IsCompound(v)        -> 5
      [] v.kind = "Null"      -> 6

\* Lexicographic order of two texts
TextOrder(s, t) ==
    LET differ == {i \in DOMAIN s \cap DOMAIN t : s[i] # t[i]}
    IN  IF differ = {} THEN Sign(Len(s) - Len(t))
        ELSE Sign(s[Min(differ)][1] - t[Min(differ)][1])

\* A number is compared with a time or a duration as ticks.
ByNumber(a, b) ==
    \/ IsNumeric(a) /\ IsNumeric(b)
    \/ a.kind = b.kind /\ a.kind \in {"Time", "Duration"}
    \/ a.kind = "Number" /\ b.kind \in {"Time", "Duration"}
    \/ b.kind = "Number" /\ a.kind \in {"Time", "Duration"}

RECURSIVE Compare(_, _)
Compare(a, b) ==
    LET x == IF a.kind = "Float" THEN AsFloat(a) ELSE <<Payload(a), 1>>
        y == IF b.kind = "Float" THEN AsFloat(b) ELSE <<Payload(b), 1>>
        kindOf(v) == CHOOSE i \in DOMAIN CompoundKinds : CompoundKinds[i] = v.kind
        differ == {i \in DOMAIN a.args \cap DOMAIN b.args :
                     Compare(a.args[i], b.args[i]) # 0}
    IN  CASE ByNumber(a, b) -> Sign(x[1] * y[2] - y[1] * x[2])
          [] Rank(a) # Rank(b) -> Sign(Rank(a) - Rank(b))
          [] a.kind = "String" -> TextOrder(Tokens(a), Tokens(b))
          [] a.kind = "Name"   -> TextOrder(NameText(a.name), NameText(b.name))
          [] IsCompound(a) /\ a.kind # b.kind -> Sign(kindOf(a) - kindOf(b))
          [] IsCompound(a) /\ differ # {} ->
               Compare(a.args[Min(differ)], b.args[Min(differ)])
          [] IsCompound(a)     -> Sign(Len(a.args) - Len(b.args))
          [] OTHER             -> 0

----------------------------------------------------------------------------
(* eval_function, group by group; f is the name without "fn:" *)

AllKind(vals, kind) == \A v \in ToSet(vals) : v.kind = kind

\* fn:div ends with 0 as soon as the quotient is 0, whatever follows.
RECURSIVE DivAll(_, _)
DivAll(acc, rest) ==
    IF rest = <<>> THEN Num(acc)
    ELSE IF rest[1].kind # "Number" \/ Payload(rest[1]) = 0 THEN Err
    ELSE IF Quot(acc, Payload(rest[1])) = 0 THEN Num(0)
    ELSE DivAll(Quot(acc, Payload(rest[1])), Tail(rest))

\* Integer arithmetic
IntFn(f, vals) ==
    LET ns == [i \in DOMAIN vals |-> Payload(vals[i])]
    IN  CASE vals = <<>> -> IF f = "plus" THEN Num(0) ELSE IF f = "mult" THEN Num(1) ELSE Err
          [] vals[1].kind # "Number" -> Err
          [] f = "div" -> IF Len(vals) = 1 THEN DivAll(1, vals) ELSE DivAll(ns[1], Tail(vals))
          [] ~AllKind(vals, "Number") -> Err
          [] f = "plus"  -> Num(FoldLeft(LAMBDA a, b : a + b, 0, ns))
          [] f = "mult"  -> Num(FoldLeft(LAMBDA a, b : a * b, 1, ns))
          [] f = "minus" -> IF Len(vals) = 1 THEN Num(-ns[1])
                            ELSE Num(FoldLeft(LAMBDA a, b : a - b, ns[1], Tail(ns)))

RatPlus(a, b)  == <<a[1] * b[2] + b[1] * a[2], a[2] * b[2]>>
RatMinus(a, b) == <<a[1] * b[2] - b[1] * a[2], a[2] * b[2]>>
RatTimes(a, b) == <<a[1] * b[1], a[2] * b[2]>>
RatOver(a, b)  == <<a[1] * b[2], a[2] * b[1]>>

\* The root of n, rounded down
Root(n) == CHOOSE r \in 0..n : r * r <= n /\ (r + 1) * (r + 1) > n

NaN == Term("Float", <<"%", 0, 0>>, <<>>)

\* Float arithmetic, numbers are promoted
FloatFn(f, vals) ==
    LET xs   == [i \in DOMAIN vals |-> AsFloat(vals[i])]
        rest == IF Len(vals) = 1 THEN xs ELSE Tail(xs)
        \* with one argument the operation starts from its neutral element
        first(unit) == IF Len(vals) = 1 THEN <<unit, 1>> ELSE xs[1]
        flt(r) == Flt(r[1], r[2])
    IN  CASE \E v \in ToSet(vals) : ~IsNumeric(v) -> Err
          [] f = "float:plus" -> flt(FoldLeft(RatPlus, <<0, 1>>, xs))
          [] f = "float:mult" -> flt(FoldLeft(RatTimes, <<1, 1>>, xs))
          [] vals = <<>>      -> Err
          [] f = "float:minus" -> flt(FoldLeft(RatMinus, first(0), rest))
          [] f = "float:div"   -> IF \E r \in ToSet(rest) : r[1] = 0 THEN Err
                                  ELSE flt(FoldLeft(RatOver, first(1), rest))
          [] f = "sqrt" -> IF Len(vals) # 1 THEN Err ELSE IF xs[1][1] < 0 THEN NaN
                        ELSE Flt(Root(xs[1][1]), Root(xs[1][2]))

\* str::replacen, and str::replace when count is negative: occurrences from the
\* left that do not overlap.
RECURSIVE Replace(_, _, _, _)
Replace(s, old, new, count) ==
    IF count = 0 THEN s
    ELSE IF old = <<>>
    THEN new \o (IF s = <<>> THEN <<>> ELSE <<s[1]>> \o Replace(Tail(s), old, new, count - 1))
    ELSE IF IsPrefix(old, s)
    THEN new \o Replace(SubSeq(s, Len(old) + 1, Len(s)), old, new, count - 1)
    ELSE IF s = <<>> THEN s
    ELSE <<s[1]>> \o Replace(Tail(s), old, new, count)

StringFn(f, vals) ==
    CASE f = "string:concat" ->
           Str(FlattenSeq([i \in DOMAIN vals |-> ToText(vals[i])]))
      [] f = "string:replace" ->
           IF Kinds(vals) # <<"String", "String", "String", "Number">> THEN Err
           ELSE Str(Replace(Tokens(vals[1]), Tokens(vals[2]), Tokens(vals[3]), Payload(vals[4])))
      [] f = "number:to_string" ->
           IF Kinds(vals) = <<"Number">> THEN Str(Display(vals[1])) ELSE Err
      [] f = "float64:to_string" ->
           IF Kinds(vals) = <<"Float">> THEN Str(Display(vals[1])) ELSE Err
      [] f = "name:to_string" ->
           IF Kinds(vals) = <<"Name">> THEN Str(Display(vals[1])) ELSE Err

TruncTicks ==
    [nanosecond |-> 1, microsecond |-> Kilo, millisecond |-> Kilo * Kilo,
     second |-> Second, minute |-> Minute, hour |-> Hour, day |-> Day * Second]

\* Arithmetic, components and truncation of times
TimeFn(f, vals) ==
    LET ks == Kinds(vals)
        n(i) == Payload(vals[i])
        t == InstantOf(n(1))
        component(x) == IF ks = <<"Time">> THEN Num(x) ELSE Err
    IN  CASE f = "time:add" -> IF ks = <<"Time", "Duration">> THEN Tim(n(1) + n(2)) ELSE Err
          [] f = "time:sub" -> IF ks = <<"Time", "Time">> THEN Dur(n(1) - n(2))
                               ELSE IF ks = <<"Time", "Duration">> THEN Tim(n(1) - n(2))
                               ELSE Err
          [] f = "time:year"   -> component(Civil(t.days)[1])
          [] f = "time:month"  -> component(Civil(t.days)[2])
          [] f = "time:day"    -> component(Civil(t.days)[3])
          [] f = "time:hour"   -> component(Clock(t.tod)[1])
          [] f = "time:minute" -> component(Clock(t.tod)[2])
          [] f = "time:second" -> component(Clock(t.tod)[3])
          [] f = "time:from_unix_nanos" -> IF ks = <<"Number">> THEN Tim(n(1)) ELSE Err
          [] f = "time:to_unix_nanos"   -> component(n(1))
          [] f = "time:trunc" ->
               IF ks = <<"Time", "Name">> /\ Len(vals[2].name) = 1
                  /\ vals[2].name[1] \in DOMAIN TruncTicks
               THEN Tim(n(1) - (n(1) % TruncTicks[vals[2].name[1]])) ELSE Err

\* A string that is nothing but the text of a time ("T"), a duration ("D"), a
\* precision ("P") or a zone ("Z")
IsText(v, tag) ==
    v.kind = "String" /\ Len(v.name) = 2 /\ Len(v.name[2]) = 2 /\ v.name[2][1] = tag

\* fn:time:format, format_civil, parse_rfc3339 and parse_civil; a precision is a
\* string.
TimeTextFn(f, vals) ==
    LET ks == Kinds(vals)
        of(i) == vals[i].name[2][2]
        text(x) == Str(<<<<"T", x>>>>)
        read(t) == IF t = NoInstant THEN Err ELSE Tim(TicksOf(t))
    IN  CASE f = "time:format" ->
               IF ks = <<"Time", "String">> /\ IsText(vals[2], "P")
               THEN text(FormatPrecision(InstantOf(Payload(vals[1])), of(2))) ELSE Err
          [] f = "time:format_civil" ->
               IF ks = <<"Time", "String", "String">> /\ IsText(vals[2], "Z") /\ IsText(vals[3], "P")
               THEN text(FormatCivil(InstantOf(Payload(vals[1])), of(2), of(3))) ELSE Err
          [] f = "time:parse_rfc3339" ->
               IF Len(vals) = 1 /\ IsText(vals[1], "T") THEN read(ParseRfc3339(of(1))) ELSE Err
          [] f = "time:parse_civil" ->
               IF Len(vals) = 2 /\ IsText(vals[1], "T") /\ IsText(vals[2], "Z")
               THEN read(ParseCivil(of(1), of(2))) ELSE Err

\* fn:duration:parse rounds a fraction down or exactly; here exactly.
DurationFn(f, vals) ==
    LET ks == Kinds(vals)
        n(i) == Payload(vals[i])
        only(kind, v) == IF ks = <<kind>> THEN v ELSE Err
        exactly(text) == text.sign * Max({text.sign * d : d \in ParseDuration(text)})
    IN  CASE f = "duration:add" -> IF ks = <<"Duration", "Duration">> THEN Dur(n(1) + n(2)) ELSE Err
          [] f = "duration:mult" ->
               IF ks \in {<<"Duration", "Number">>, <<"Number", "Duration">>}
               THEN Dur(n(1) * n(2)) ELSE Err
          [] f = "duration:hours"   -> only("Duration", Flt(n(1), Hour))
          [] f = "duration:minutes" -> only("Duration", Flt(n(1), Minute))
          [] f = "duration:seconds" -> only("Duration", Flt(n(1), Second))
          [] f = "duration:nanos"   -> only("Duration", Num(n(1)))
          [] f = "duration:from_nanos"   -> only("Number", Dur(n(1)))
          [] f = "duration:from_hours"   -> only("Number", Dur(n(1) * Hour))
          [] f = "duration:from_minutes" -> only("Number", Dur(n(1) * Minute))
          [] f = "duration:from_seconds" -> only("Number", Dur(n(1) * Second))
          [] f = "duration:parse" ->
               IF Len(vals) = 1 /\ IsText(vals[1], "D")
               THEN Dur(exactly(vals[1].name[2][2])) ELSE Err

\* Constructors and accessors of compounds.  Most accessors take any compound,
\* whatever its kind.
CompoundFn(f, vals) ==
    LET n == Len(vals)
        c == vals[1]
        pairs == Len(c.args) \div 2
        at    == {i \in 1..pairs : c.args[2 * i - 1] = vals[2]}
    IN  CASE f = "list" -> Compound("List", vals)
          [] f = "pair" -> IF n = 2 THEN Compound("Pair", vals) ELSE Err
          [] f = "struct" -> IF n % 2 = 0 THEN Compound("Struct", vals) ELSE Err
          [] f = "map"    -> IF n % 2 = 0 THEN Compound("Map", vals) ELSE Err
          [] n = 0 \/ ~IsCompound(c) -> Err
          [] f = "list:get" ->
               IF n = 2 /\ vals[2].kind = "Number" /\ Payload(vals[2]) + 1 \in DOMAIN c.args
               THEN c.args[Payload(vals[2]) + 1] ELSE Err
          [] f = "list:append" ->
               IF n = 2 /\ c.kind = "List" THEN Compound("List", Append(c.args, vals[2])) ELSE Err
          [] f \in {"struct:get", "map:get"} ->
               IF n = 2 /\ at # {} THEN c.args[2 * Min(at)] ELSE Err
          [] n # 1 -> Err
          [] f \in {"list:len", "len"} -> Num(Len(c.args))
          [] f = "pair:first"  -> IF c.args # <<>> THEN c.args[1] ELSE Err
          [] f = "pair:second" -> IF Len(c.args) >= 2 THEN c.args[2] ELSE Err
          [] f \in {"map:len", "struct:len"} -> Num(pairs)
          [] f = "map:keys" -> Compound("List", Odds(c.args))
          [] f \in {"map:values", "struct:values"} -> Compound("List", Evens(c.args))

IntFns    == {"plus", "minus", "mult", "div"}
FloatFns  == {"float:plus", "float:minus", "float:mult", "float:div", "sqrt"}
StringFns == {"string:concat", "string:replace", "number:to_string", "float64:to_string",
              "name:to_string"}
TimeFns   == {"time:add", "time:sub", "time:year", "time:month", "time:day", "time:hour",
              "time:minute", "time:second", "time:from_unix_nanos", "time:to_unix_nanos",
              "time:trunc"}
TimeTextFns == {"time:format", "time:format_civil", "time:parse_rfc3339", "time:parse_civil"}
DurationFns == {"duration:add", "duration:mult", "duration:hours", "duration:minutes",
                "duration:seconds", "duration:nanos", "duration:from_nanos",
                "duration:from_hours", "duration:from_minutes", "duration:from_seconds",
                "duration:parse"}
CompoundFns == {"list", "pair", "struct", "map", "list:get", "list:append", "struct:get",
                "map:get", "list:len", "len", "pair:first", "pair:second", "map:len",
                "struct:len", "map:keys", "map:values", "struct:values"}

\* eval_function; the clock of fn:time:now is not modelled.
EvalFunction(f, vals) ==
    CASE f \in IntFns      -> IntFn(f, vals)
      [] f \in FloatFns    -> FloatFn(f, vals)
      [] f \in StringFns   -> StringFn(f, vals)
      [] f \in TimeFns     -> TimeFn(f, vals)
      [] f \in TimeTextFns -> TimeTextFn(f, vals)
      [] f \in DurationFns -> DurationFn(f, vals)
      [] f \in CompoundFns -> CompoundFn(f, vals)
      [] OTHER -> Err

----------------------------------------------------------------------------
(* eval_builtin_predicate and eval_aggregate *)

HasInfix(s, p) == \E i \in 0..Len(s) : IsPrefix(p, SubSeq(s, i + 1, Len(s)))

\* The answers of a predicate: none when it is an error.  :match_prefix looks at
\* the text, not at the segments.
EvalPredicate(pred, vals) ==
    LET ks == <<vals[1].kind, vals[2].kind>>
        s  == Tokens(vals[1])
        p  == Tokens(vals[2])
        text(i) == NameText(vals[i].name)
        strings(b) == IF ks = <<"String", "String">> THEN {b} ELSE {}
    IN  CASE pred = ":string:starts_with" -> strings(IsPrefix(p, s))
          [] pred = ":string:ends_with"   -> strings(IsSuffix(p, s))
          [] pred = ":string:contains"    -> strings(HasInfix(s, p))
          [] pred = ":match_prefix" ->
               IF ks = <<"Name", "Name">>
               THEN {IsPrefix(text(2), text(1)) /\ text(1) # text(2)} ELSE {}
          [] pred = ":list:member" -> {vals[2].kind = "List" /\ vals[1] \in ToSet(vals[2].args)}
          [] pred = ":match_field" ->
               {/\ ks = <<"Struct", "Name">>
                /\ \E i \in 1..Len(vals[1].args) \div 2 :
                     vals[1].args[2 * i - 1] = vals[2] /\ vals[1].args[2 * i] = vals[3]}
          [] OTHER -> {}

\* The value that beats all before it
Best(vals, sign) ==
    FoldLeft(LAMBDA m, v : IF Compare(v, m) = sign THEN v ELSE m, vals[1], Tail(vals))

\* eval_aggregate over the values that the argument has in the tuples of a group
EvalAggregate(f, vals) ==
    LET floats == [i \in DOMAIN vals |-> Flt(AsFloat(vals[i])[1], AsFloat(vals[i])[2])]
        numeric == \A v \in ToSet(vals) : IsNumeric(v)
    IN  CASE f = "count" -> Num(Len(vals))
          [] f = "sum"   -> IntFn("plus", vals)
          [] f = "float:sum" -> FloatFn("float:plus", vals)
          [] f \in {"collect", "collect_distinct"} ->
               Compound("List",
                 IF f = "collect" THEN vals
                 ELSE FoldLeft(LAMBDA out, v : IF v \in ToSet(out) THEN out ELSE Append(out, v),
                               <<>>, vals))
          [] vals = <<>> -> Err
          [] f = "max" -> Best(vals, 1)
          [] f = "min" -> Best(vals, -1)
          [] f = "float:max" -> IF numeric THEN Best(floats, 1) ELSE Err
          [] f = "float:min" -> IF numeric THEN Best(floats, -1) ELSE Err
          [] OTHER -> Err
=============================================================================
