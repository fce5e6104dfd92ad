------------------------------ MODULE ValueLaws ------------------------------
(***************************************************************************)
(* What the layers say about one value.  The checker types a call of a     *)
(* function that the evaluator then makes; the evaluator writes an instant *)
(* or a duration that the parser or the evaluator reads back; the checker  *)
(* joins and meets types that the values of both sides then have.          *)
(*                                                                         *)
(* A task is one of these; the actions do its steps one after the other.   *)
(***************************************************************************)
EXTENDS BoundsCheck

CONSTANTS
    Functions,   \* names of functions, without fn:
    Typed,       \* sequence of [type, value]: arguments of calls
    Long,        \* sequence of sequences of indexes of Typed: calls of more than two
    Instants,    \* instants
    Zones,       \* zones of fn:time:format_civil
    Durations,   \* durations, in ticks
    Types,       \* sequence of types, well-formed in Bounds
    Bounds,      \* bounds of the type variables in Types
    Values       \* set of values

VARIABLES task, step, found

lawVars == <<task, step, found>>

Tasks ==
    [kind : {"call"}, fn : Functions,
     args : {<<>>} \cup {<<i>> : i \in DOMAIN Typed}
            \cup ((DOMAIN Typed) \X (DOMAIN Typed)) \cup ToSet(Long)]
    \cup [kind : {"time"}, at : Instants, zone : Zones]
    \cup [kind : {"duration"}, ticks : Durations]
    \cup [kind : {"types"}, left : DOMAIN Types, right : DOMAIN Types]

LawInit ==
    /\ task \in Tasks
    /\ step = "start"
    /\ found = <<>>

----------------------------------------------------------------------------
(* A call in a rule whose variables have the types of the arguments *)

ArgVar(i) == Var(<<"X", "Y", "Z", "W">>[i])

CallTerm == Fn(task.fn, [i \in DOMAIN task.args |-> ArgVar(i)])
CallRanges ==
    [x \in {ArgVar(i).name : i \in DOMAIN task.args} |->
        Typed[task.args[CHOOSE i \in DOMAIN task.args : ArgVar(i).name = x]].type]
CallValues == [i \in DOMAIN task.args |-> Typed[task.args[i]].value]

\* BoundsChecker: the type of the call, when it accepts the arguments
TypeCall ==
    /\ task.kind = "call" /\ step = "start"
    /\ step' = "typed"
    /\ found' = [fits |-> ArgsFit({}, CallRanges, CallTerm),
                 type |-> BoundOf({}, CallRanges, CallTerm)]
    /\ UNCHANGED task

\* Interpreter::eval_function
EvalCall ==
    /\ task.kind = "call" /\ step = "typed"
    /\ step' = "done"
    /\ found' = [fits |-> found.fits, type |-> found.type,
                 result |-> EvalFunction(task.fn, CallValues)]
    /\ UNCHANGED task

----------------------------------------------------------------------------
(* Texts *)

\* Display of a value, and fn:time:format_civil to the nanosecond
WriteText ==
    /\ task.kind \in {"time", "duration"} /\ step = "start"
    /\ step' = "written"
    /\ found' = IF task.kind = "duration" THEN FormatDuration(task.ticks)
                ELSE [utc |-> FormatTime(task.at),
                      civil |-> FormatCivil(task.at, task.zone, "nanosecond"),
                      day |-> FormatCivil(task.at, task.zone, "day")]
    /\ UNCHANGED task

\* fn:time:parse_rfc3339, the scanner's timestamps and fn:time:parse_civil;
\* fn:duration:parse
ReadText ==
    /\ task.kind \in {"time", "duration"} /\ step = "written"
    /\ step' = "done"
    /\ found' = IF task.kind = "duration" THEN ParseDuration(found)
                ELSE [parsed |-> ParseRfc3339(found.utc), scanned |-> ScanTimestamp(found.utc),
                      civil |-> ParseCivil(found.civil, task.zone),
                      day |-> ParseCivil(found.day, task.zone)]
    /\ UNCHANGED task

----------------------------------------------------------------------------
(* Types *)

\* The operations of type_expr.rs on two types
Relate ==
    /\ task.kind = "types" /\ step = "start"
    /\ step' = "done"
    /\ LET l == Types[task.left]
           r == Types[task.right]
       IN  found' = [conforms |-> SetConforms(Bounds, l, r),
                     upper |-> UpperBound(Bounds, <<l, r>>),
                     lower |-> LowerBound(Bounds, <<l, r>>),
                     without |-> RemoveFromUnion(r, l)]
    /\ UNCHANGED task

LawNext == TypeCall \/ EvalCall \/ WriteText \/ ReadText \/ Relate

----------------------------------------------------------------------------
(* What a type means: HasType, with /any for everything, with the bounds   *)
(* of type variables and with other fields than the declared in a struct.  *)

Resolve(type) == ApplySubst(type, Bounds)

FieldValues(v, path) ==
    {v.args[2 * i] : i \in {j \in 1..Len(v.args) \div 2 : v.args[2 * j - 1].name = path}}

RECURSIVE Belongs(_, _)
BelongsStruct(fields, v) ==
    /\ IsStructValue(v)
    /\ \A f \in ToSet(fields) :
         LET vs == FieldValues(v, f.field.name)
         IN  IsName(f.field) => (vs = {} => f.optional) /\ \A x \in vs : Belongs(f.type, x)
Belongs(type, v) ==
    LET a == type.args
        each(vs) == Len(vs) = Len(a) /\ \A i \in DOMAIN a : Belongs(a[i], vs[i])
    IN  CASE IsBase(type, "any") -> TRUE
          [] IsFn(type, "Union") -> \E alt \in ToSet(a) : Belongs(alt, v)
          [] IsFn(type, "List")  -> IsListValue(v) /\ \A e \in ToSet(v.args) : Belongs(a[1], e)
          [] IsFn(type, "Map")   -> /\ IsMapValue(v)
                                    /\ \A k \in ToSet(Odds(v.args)) : Belongs(a[1], k)
                                    /\ \A x \in ToSet(Evens(v.args)) : Belongs(a[2], x)
          [] IsFn(type, "Pair")  -> /\ v.kind = "Pair" \/ IsFn(v, "pair") \/ IsListValue(v)
                                    /\ each(v.args)
          [] IsFn(type, "Tuple") -> (IsFn(v, "tuple") \/ IsFn(v, "pair")) /\ each(v.args)
          [] IsFn(type, "Struct") -> BelongsStruct(StructTypeFields(type), v)
          [] IsFn(type, "TaggedUnion") ->
               \E x \in ToSet(Variants(type)) :
                  /\ BelongsStruct(StructTypeFields(x.struct), v)
                  /\ x.tag \in FieldValues(v, TagField(type).name)
          [] IsFn(type, "Option") -> IsBase(v, "unit") \/ Belongs(a[1], v)
          [] OTHER -> HasType(type, v)

----------------------------------------------------------------------------
(* Properties *)

\* The type that the checker gives a call is the type of what the evaluator
\* returns: for every function that both know, whatever the arguments, and also
\* when the checker only knows that they may fit.
ResultsAreTyped ==
    (task.kind = "call" /\ step = "done" /\ found.fits /\ found.result # Err) =>
        Belongs(found.type, found.result)

\* A call that the checker refuses would have failed: when no value of the types of
\* the arguments can be taken, the evaluator returns an error.  fn:time:format_civil
\* is left out: the checker asks for a name where the evaluator wants a string.
RefusedCallsFail ==
    (task.kind = "call" /\ step = "done" /\ task.fn # "time:format_civil" /\ ~found.fits) =>
        found.result = Err

\* A written instant is read back as itself, by the evaluator and by the scanner and
\* in any zone; written to the day it is read back as the midnight before it.  A
\* duration is read back up to one tick, which a fraction loses in f64.
TextsComeBack ==
    step = "done" =>
        /\ task.kind = "time" =>
             /\ found.parsed = task.at /\ found.scanned = task.at /\ found.civil = task.at
             /\ LET local == Shift(found.day, TimezoneOffset(task.zone))
                IN  /\ local.tod = 0 /\ local.sub = 0
                    /\ local.days = Shift(task.at, TimezoneOffset(task.zone)).days
        /\ task.kind = "duration" =>
             /\ task.ticks \in found
             /\ \A d \in found : d - task.ticks \in {-1, 0, 1}

\* A field that may be missing conforms to one that may not, and a struct to a
\* tagged union whose tag it may not have: what the code does not look at.
RECURSIVE HasOptional(_)
HasOptional(type) == IsFn(type, "opt") \/ \E a \in ToSet(type.args) : HasOptional(a)

RECURSIVE HasTagged(_)
HasTagged(type) == IsFn(type, "TaggedUnion") \/ \E a \in ToSet(type.args) : HasTagged(a)

RECURSIVE HasStruct(_)
HasStruct(type) ==
    IsFn(type, "Struct") \/ (~IsFn(type, "TaggedUnion") /\ \E a \in ToSet(type.args) : HasStruct(a))

LooseFit(l, r) == HasOptional(l) \/ (HasStruct(l) /\ HasTagged(r))

\* What conforms is a subset: a value of a type is a value of every type that it
\* conforms to, so that a fact checked under the one can be read under the other.
ConformanceIsSound ==
    task.kind = "types" /\ step = "done" =>
        LET l == Resolve(Types[task.left])
            r == Resolve(Types[task.right])
        IN  (found.conforms /\ ~LooseFit(l, r)) =>
                \A v \in Values : HasType(l, v) => Belongs(r, v)

\* Joining loses no value of either side, meeting adds none that is not on both, and
\* taking a type out of a union only takes its values out.
BoundsAreBounds ==
    task.kind = "types" /\ step = "done" =>
        LET l == Resolve(Types[task.left])
            r == Resolve(Types[task.right])
            loose == LooseFit(l, r) \/ LooseFit(r, l)
            has(v, type) == HasType(Resolve(type), v)
        IN  ~loose =>
                \A v \in Values :
                    /\ has(v, l) \/ has(v, r) => Belongs(Resolve(found.upper), v)
                    /\ has(v, found.lower) => Belongs(l, v) /\ Belongs(r, v)
                    /\ has(v, l) => has(v, found.without) \/ Belongs(r, v)

\* The type of a field of a struct, a tagged union or a union of them is the type of
\* what :match_field and fn:struct:get find there.
FieldsAreTyped ==
    task.kind = "types" =>
        \A path \in {<<"f">>, <<"g">>, <<"k">>} :
            LET t == Resolve(Types[task.left])
                field == FieldDeep(t, path)
            IN  field # <<>> =>
                    \A v \in Values :
                        HasType(t, v) =>
                            \A x \in FieldValues(v, path) : Belongs(field[1], x)
=============================================================================
