------------------------------ MODULE TypeExpr ------------------------------
(***************************************************************************)
(* Type expressions and what they mean:                                    *)
(* crates/mangle-analysis/src/type_expr.rs and name_trie.rs.               *)
(*                                                                         *)
(* A term of the IR is a record: its kind, its name (a function's, a       *)
(* variable's, a constant's; a name constant is the path of its segments), *)
(* its arguments, and the slot of the arena it sits in.  Two slots may hold*)
(* the same instruction, and the code compares slots where it says         *)
(* left == right.  The terms that operators build have slot 0.  Keys and   *)
(* values of maps and structs are interleaved in args.                     *)
(***************************************************************************)
EXTENDS SequencesExt, Naturals

Term(kind, name, args) == [kind |-> kind, name |-> name, args |-> args, slot |-> 0]

Name(path)  == Term("Name", path, <<>>)
Var(v)      == Term("Var", <<v>>, <<>>)
Fn(f, args) == Term("ApplyFn", <<f>>, args)

IsFn(t, f)   == t.kind = "ApplyFn" /\ t.name = <<f>>
IsName(t)    == t.kind = "Name"
IsVar(t)     == t.kind = "Var"
IsBase(t, b) == IsName(t) /\ t.name = <<b>>

AnyType   == Name(<<"any">>)
EmptyType == Fn("EmptyType", <<>>)

BaseTypes == {"any", "bot", "number", "float64", "string", "bytes", "name",
              "bool", "time", "duration", "unit"}

IsBaseType(t) == IsName(t) /\ \E b \in BaseTypes : t.name = <<b>>

\* ir_eq: the constants that are compared by content, everything else by slot.
IrEq(a, b) ==
    \/ a = b
    \/ /\ a.kind = b.kind
       /\ a.kind \in {"Name", "Number", "Float", "String", "Bool"}
       /\ a.name = b.name

\* The constant arguments at the odd and at the even places.
Odds(args)  == [i \in 1..Len(args) \div 2 |-> args[2 * i - 1]]
Evens(args) == [i \in 1..Len(args) \div 2 |-> args[2 * i]]

----------------------------------------------------------------------------
(* Accessors *)

\* The fields of a fn:Struct: two arguments for a required one, a fn:opt for an
\* optional one.
RECURSIVE FieldsOf(_)
FieldsOf(args) ==
    IF args = <<>> THEN <<>>
    ELSE IF IsFn(args[1], "opt")
    THEN LET o == args[1].args
         IN  (IF Len(o) = 2
              THEN <<[field |-> o[1], type |-> o[2], optional |-> TRUE]>> ELSE <<>>)
             \o FieldsOf(Tail(args))
    ELSE IF Len(args) = 1 THEN <<>>
    ELSE <<[field |-> args[1], type |-> args[2], optional |-> FALSE]>>
         \o FieldsOf(SubSeq(args, 3, Len(args)))

StructTypeFields(t) == IF IsFn(t, "Struct") THEN FieldsOf(t.args) ELSE <<>>

\* The entries with a given field name; a map built from them keeps the last, a
\* search finds the first.
FieldsNamed(fields, path) ==
    SelectSeq(fields, LAMBDA f : IsName(f.field) /\ f.field.name = path)

\* tagged_union_variants: the tag field comes first, tags and structs follow.
IsTagged(t) == IsFn(t, "TaggedUnion") /\ Len(t.args) >= 3 /\ Len(t.args) % 2 = 1
TagField(t) == t.args[1]
Variants(t) ==
    IF ~IsTagged(t) THEN <<>>
    ELSE [i \in 1..Len(t.args) \div 2 |->
            [tag |-> t.args[2 * i], struct |-> t.args[2 * i + 1]]]

NewUnionOrSingle(alts) == IF Len(alts) = 1 THEN alts[1] ELSE Fn("Union", alts)

\* collect_vars
RECURSIVE TypeVars(_)
TypeVars(t) ==
    IF IsVar(t) THEN {t.name}
    ELSE IF t.kind = "ApplyFn" THEN UNION {TypeVars(a) : a \in ToSet(t.args)}
    ELSE {}

\* apply_subst, with a substitution from variable names to types
RECURSIVE ApplySubst(_, _)
ApplySubst(t, subst) ==
    IF IsVar(t) THEN (IF t.name \in DOMAIN subst THEN subst[t.name] ELSE t)
    ELSE IF t.kind = "ApplyFn"
    THEN LET args == [i \in DOMAIN t.args |-> ApplySubst(t.args[i], subst)]
         IN  IF args = t.args THEN t ELSE Term(t.kind, t.name, args)
    ELSE t

----------------------------------------------------------------------------
(* wellformed_type *)

Constant(t) ==
    t.kind \in {"Name", "Number", "String", "Float", "Bool", "Time", "Duration"}

RECURSIVE Wellformed(_, _)

\* check_struct_type_expr
WellformedStruct(vars, args) ==
    LET fields == FieldsOf(args)
    IN  /\ \A f \in ToSet(fields) : IsName(f.field) /\ Wellformed(vars, f.type)
        /\ IsInjective([i \in DOMAIN fields |-> fields[i].field.name])
        \* no fn:opt of another length, and no last field without a type
        /\ Len(args) = 2 * Len(fields)
                       - Len(SelectSeq(fields, LAMBDA f : f.optional))

\* check_tagged_union_type_expr
WellformedTagged(vars, t) ==
    LET vs == Variants(t)
    IN  /\ IsTagged(t) /\ IsName(TagField(t))
        /\ IsInjective([i \in DOMAIN vs |-> vs[i].tag.name])
        /\ \A v \in ToSet(vs) :
             /\ IsName(v.tag) /\ IsFn(v.struct, "Struct")
             /\ Wellformed(vars, v.struct)
             /\ FieldsNamed(StructTypeFields(v.struct), TagField(t).name) = <<>>

Wellformed(vars, t) ==
    LET parts == \A a \in ToSet(t.args) : Wellformed(vars, a)
        n     == Len(t.args)
        f     == t.name[1]
    IN  CASE IsName(t) -> TRUE
          [] IsVar(t)  -> t.name \in vars
          [] t.kind # "ApplyFn" -> FALSE
          [] f = "Struct"      -> WellformedStruct(vars, t.args)
          [] f = "TaggedUnion" -> WellformedTagged(vars, t)
          [] f = "Singleton"   -> n = 1 /\ Constant(t.args[1])
          [] f \in {"Union", "Tuple"} -> n >= 2 /\ parts
          [] f \in {"Map", "Pair"}    -> n = 2 /\ parts
          [] f \in {"List", "Option"} -> n = 1 /\ parts
          [] f \in {"Fun", "Rel"}     -> n >= 1 /\ parts
          [] f = "opt" -> n = 2 /\ IsName(t.args[1]) /\ Wellformed(vars, t.args[2])
          [] OTHER     -> FALSE

----------------------------------------------------------------------------
(* set_conforms and type_conforms.  A context gives type variables bounds. *)

\* /foo/bar is under /foo: a prefix of the name that ends at a slash.
Under(path, of) == IsPrefix(of, path)

\* const_has_base_type
ConstHasBaseType(c, type) ==
    /\ IsName(type)
    /\ LET is(b) == type.name \in {<<b>>, <<"any">>}
       IN  CASE c.kind = "Number"   -> is("number")
             [] c.kind = "Float"    -> is("float64")
             [] c.kind = "String"   -> is("string")
             [] c.kind = "Bool"     -> is("bool")
             [] c.kind = "Time"     -> is("time")
             [] c.kind = "Duration" -> is("duration")
             [] c.kind = "Bytes"    -> is("bytes")
             [] c.kind = "Name"     -> is("name") \/ Under(c.name, type.name)
             [] OTHER -> FALSE

RECURSIVE SetConforms(_, _, _)

\* struct_type_conforms: whether the field is optional on the left is not looked
\* at.
StructConforms(ctx, left, right) ==
    \A r \in ToSet(StructTypeFields(right)) :
        IsName(r.field) =>
            LET l == FieldsNamed(StructTypeFields(left), r.field.name)
            IN  IF l # <<>> THEN SetConforms(ctx, Last(l).type, r.type)
                ELSE r.optional

\* The arguments conform one by one.
ArgsConform(ctx, left, right) ==
    /\ Len(left.args) = Len(right.args)
    /\ \A i \in DOMAIN left.args : SetConforms(ctx, left.args[i], right.args[i])

\* A function type is covariant in its result, its first argument, and
\* contravariant in the others.
FunConforms(ctx, left, right) ==
    /\ Len(left.args) = Len(right.args) /\ left.args # <<>>
    /\ SetConforms(ctx, left.args[1], right.args[1])
    /\ \A i \in 2..Len(left.args) : SetConforms(ctx, right.args[i], left.args[i])

\* expanded_variant_conforms
RECURSIVE VariantConforms(_, _, _, _)
VariantConforms(ctx, tagField, v, right) ==
    CASE IsBase(right, "any")    -> TRUE
      [] IsFn(right, "Struct")   -> SetConforms(ctx, v.struct, right)
      [] IsFn(right, "TaggedUnion") ->
           /\ IsTagged(right) /\ IrEq(tagField, TagField(right))
           /\ \E r \in ToSet(Variants(right)) :
                IrEq(v.tag, r.tag) /\ SetConforms(ctx, v.struct, r.struct)
      [] IsFn(right, "Union") ->
           \E alt \in ToSet(right.args) : VariantConforms(ctx, tagField, v, alt)
      [] OTHER -> FALSE

\* type_conforms, for what is neither a union nor a tagged union
TypeConforms(ctx, left, right) ==
    CASE IsName(left) /\ IsName(right) ->
           \/ IsBase(right, "name") /\ ~IsBaseType(left)
           \/ Under(left.name, right.name)
      [] IsFn(left, "Singleton") /\ Len(left.args) = 1 ->
           ConstHasBaseType(left.args[1], right)
      [] IsVar(left) /\ left.name \in DOMAIN ctx -> SetConforms(ctx, ctx[left.name], right)
      [] IsVar(right) /\ right.name \in DOMAIN ctx -> SetConforms(ctx, left, ctx[right.name])
      [] left.kind # "ApplyFn" \/ right.kind # "ApplyFn" \/ left.name # right.name -> FALSE
      [] left.name[1] \in {"List", "Option"} ->
           Len(left.args) = 1 /\ ArgsConform(ctx, left, right)
      [] left.name[1] \in {"Map", "Pair"} ->
           Len(left.args) = 2 /\ ArgsConform(ctx, left, right)
      [] left.name[1] \in {"Tuple", "Rel"} -> ArgsConform(ctx, left, right)
      [] left.name[1] = "Struct" -> StructConforms(ctx, left, right)
      [] left.name[1] = "Fun"    -> FunConforms(ctx, left, right)
      [] OTHER -> FALSE

\* Mutant of ConformsSplit: the alternatives on the right are tried first.
ConformsSplitRight(ctx, left, right) ==
    CASE IsFn(left, "Union") -> \E alt \in ToSet(left.args) : SetConforms(ctx, alt, right)
      [] IsFn(right, "Union") -> \E alt \in ToSet(right.args) : SetConforms(ctx, left, alt)
      [] OTHER -> TypeConforms(ctx, left, right)

\* All alternatives on the left, some alternative on the right; the tag is not
\* asked of a left side that is no tagged union.
ConformsSplit(ctx, left, right) ==
    CASE IsFn(left, "TaggedUnion") ->
           IsTagged(left)
           /\ \A v \in ToSet(Variants(left)) :
                VariantConforms(ctx, TagField(left), v, right)
      [] IsFn(right, "TaggedUnion") ->
           \E v \in ToSet(Variants(right)) : SetConforms(ctx, left, v.struct)
      [] IsFn(left, "Union")  -> \A alt \in ToSet(left.args) : SetConforms(ctx, alt, right)
      [] IsFn(right, "Union") -> \E alt \in ToSet(right.args) : SetConforms(ctx, left, alt)
      [] OTHER -> TypeConforms(ctx, left, right)

SetConforms(ctx, left, right) ==
    left = right \/ IsBase(right, "any") \/ IsBase(left, "bot")
    \/ ConformsSplit(ctx, left, right)

----------------------------------------------------------------------------
(* upper_bound, intersect_type, lower_bound, remove_from_union_type *)

Flat(types) ==
    FlattenSeq([i \in DOMAIN types |->
        IF IsFn(types[i], "Union") THEN types[i].args ELSE <<types[i]>>])

ReduceAt(ctx, reduced, te, i) ==
    IF i = 0 THEN Append(reduced, te)
    ELSE IF SetConforms(ctx, te, reduced[i]) THEN reduced
    ELSE [reduced EXCEPT ![i] = te]

\* The first element of reduced that te is under, or that is under te, decides.
Reduce(ctx, reduced, te) ==
    ReduceAt(ctx, reduced, te,
             SelectInSeq(reduced, LAMBDA r : SetConforms(ctx, te, r) \/ SetConforms(ctx, r, te)))

UpperBound(ctx, types) ==
    LET flat == Flat(types)
    IN  IF \E t \in ToSet(types) : IsBase(t, "any") THEN AnyType
        ELSE IF flat = <<>> THEN EmptyType
        ELSE NewUnionOrSingle(
               FoldLeft(LAMBDA r, te : Reduce(ctx, r, te), <<flat[1]>>, Tail(flat)))

RECURSIVE Intersect(_, _, _)

\* Mutant of Intersect: of two types that conform, the wider one.
IntersectWider(ctx, a, b) ==
    CASE IrEq(a, b) -> a
      [] IsBase(a, "any") -> b
      [] IsBase(b, "any") -> a
      [] SetConforms(ctx, a, b) -> b
      [] SetConforms(ctx, b, a) -> a
      [] OTHER -> EmptyType

\* a or the alternative, whichever conforms to the other
Narrower(ctx, a, alt) ==
    IF SetConforms(ctx, a, alt) THEN a ELSE IF SetConforms(ctx, alt, a) THEN alt ELSE EmptyType

NonEmptyBound(ctx, types) ==
    UpperBound(ctx, SelectSeq(types, LAMBDA u : ~IsFn(u, "EmptyType")))

Met(met, otherwise) == IF IsFn(met, "EmptyType") THEN otherwise ELSE met

\* A union on the left is met alternative by alternative; one on the right only
\* keeps the alternatives that conform one way or the other.
Intersect(ctx, a, b) ==
    CASE IrEq(a, b) -> a
      [] IsBase(a, "any") -> b
      [] IsBase(b, "any") -> a
      [] IsVar(a) -> IF a.name \in DOMAIN ctx THEN Intersect(ctx, ctx[a.name], b) ELSE EmptyType
      [] IsVar(b) -> IF b.name \in DOMAIN ctx THEN Intersect(ctx, a, ctx[b.name]) ELSE EmptyType
      [] OTHER ->
           Met(Narrower(ctx, a, b),
               IF ~(IsFn(a, "Union") \/ IsFn(b, "Union")) THEN EmptyType
               ELSE NonEmptyBound(ctx, IF IsFn(a, "Union")
                                       THEN [i \in DOMAIN a.args |-> Intersect(ctx, a.args[i], b)]
                                       ELSE [i \in DOMAIN b.args |-> Narrower(ctx, a, b.args[i])]))

IsEmpty(t) == IsFn(t, "EmptyType")

LowerBound(ctx, types) ==
    FoldLeft(LAMBDA t, u : IF IsEmpty(t) THEN t ELSE Intersect(ctx, t, u), AnyType, types)

RemoveFromUnion(gone, type) ==
    LET left == SelectSeq(type.args, LAMBDA alt : ~SetConforms(<<>>, alt, gone))
    IN  IF IsFn(type, "Union")
        THEN IF left = <<>> THEN EmptyType ELSE NewUnionOrSingle(left)
        ELSE IF SetConforms(<<>>, type, gone) THEN EmptyType ELSE type

\* Mutant of FieldDeep: the field of the first variant that has it.
FieldDeepFirst(type, path) ==
    LET structs == IF IsFn(type, "Struct") THEN <<type>>
                   ELSE [i \in DOMAIN Variants(type) |-> Variants(type)[i].struct]
        found == FlattenSeq([i \in DOMAIN structs |->
                     FieldsNamed(StructTypeFields(structs[i]), path)])
    IN  IF found = <<>> THEN <<>> ELSE <<found[1].type>>

\* The bound of the types that were found
BoundOfFound(types) == IF types = <<>> THEN <<>> ELSE <<UpperBound(<<>>, types)>>

\* struct_type_field_deep: the type of a field, or <<>> when there is none.
RECURSIVE FieldDeep(_, _)
FieldDeep(type, path) ==
    LET own(s) == LET f == FieldsNamed(StructTypeFields(s), path)
                  IN  IF f = <<>> THEN <<>> ELSE <<f[1].type>>
        vs == Variants(type)
        inAll == [i \in DOMAIN type.args |-> FieldDeep(type.args[i], path)]
    IN  CASE IsFn(type, "Struct") -> own(type)
          [] IsTagged(type) /\ TagField(type).name = path ->
               <<NewUnionOrSingle([i \in DOMAIN vs |-> Fn("Singleton", <<vs[i].tag>>)])>>
          [] OTHER -> BoundOfFound(FlattenSeq(
               IF IsTagged(type) THEN [i \in DOMAIN vs |-> own(vs[i].struct)]
               ELSE IF IsFn(type, "Union") /\ <<>> \notin ToSet(inAll) THEN inAll ELSE <<>>))

----------------------------------------------------------------------------
(* has_type: the values of a type *)

\* list_value_elems, map_value_entries, struct_value_fields: both forms that a
\* list, a map or a struct has in the IR.
IsListValue(v)   == v.kind = "List" \/ IsFn(v, "list")
IsMapValue(v)    == v.kind = "Map" \/ (IsFn(v, "map") /\ Len(v.args) % 2 = 0)
IsStructValue(v) ==
    \/ v.kind = "Struct"
    \/ /\ IsFn(v, "struct") /\ Len(v.args) % 2 = 0
       /\ \A f \in ToSet(Odds(v.args)) : IsName(f)

RECURSIVE HasType(_, _)

\* has_type_struct, and has_type_tagged_variant for the fields other than the
\* tag's: required fields are there, no others are.
HasFields(fields, names, values) ==
    /\ \A f \in ToSet(fields) :
         IsName(f.field) =>
             LET at == {i \in DOMAIN names : names[i].name = f.field.name}
             IN  IF at = {} THEN f.optional
                 ELSE HasType(f.type, values[Max(at)])
    /\ \A n \in ToSet(names) : FieldsNamed(fields, n.name) # <<>>

HasVariant(tagField, v, value) ==
    LET names == Odds(value.args)
        vals  == Evens(value.args)
        rest  == SelectSeq([i \in DOMAIN names |-> i],
                           LAMBDA i : names[i].name # tagField.name)
        tags  == {i \in DOMAIN names : names[i].name = tagField.name}
    IN  /\ IsStructValue(value)
        /\ tags # {} /\ IrEq(vals[Min(tags)], v.tag)
        /\ HasFields(StructTypeFields(v.struct),
                     [i \in DOMAIN rest |-> names[rest[i]]],
                     [i \in DOMAIN rest |-> vals[rest[i]]])

\* The arguments of a constructor have the types of the arguments.
HaveTypes(types, values) ==
    Len(types) = Len(values) /\ \A i \in DOMAIN types : HasType(types[i], values[i])

HasType(type, v) ==
    LET f == type.name[1]
        a == type.args
        n == Len(a)
    IN  CASE IsName(type) -> ConstHasBaseType(v, type)
          [] IsVar(type)  -> TRUE
          [] type.kind # "ApplyFn" -> FALSE
          [] f = "Singleton"   -> n = 1 /\ IrEq(v, a[1])
          [] f = "Union"       -> \E alt \in ToSet(a) : HasType(alt, v)
          [] f = "TaggedUnion" ->
               \E x \in ToSet(Variants(type)) : HasVariant(TagField(type), x, v)
          [] f = "List" -> n = 1 /\ IsListValue(v) /\ \A e \in ToSet(v.args) : HasType(a[1], e)
          [] f = "Map"  -> /\ n = 2 /\ IsMapValue(v)
                           /\ \A k \in ToSet(Odds(v.args)) : HasType(a[1], k)
                           /\ \A x \in ToSet(Evens(v.args)) : HasType(a[2], x)
          [] f = "Pair" -> n = 2 /\ (IsFn(v, "pair") \/ IsListValue(v)) /\ HaveTypes(a, v.args)
          [] f = "Tuple" -> /\ IsFn(v, "tuple") \/ (IsFn(v, "pair") /\ n = 2)
                            /\ HaveTypes(a, v.args)
          [] f = "Struct" -> /\ IsStructValue(v)
                             /\ HasFields(StructTypeFields(type), Odds(v.args), Evens(v.args))
          [] f = "Option" -> n = 1 /\ (IsBase(v, "unit") \/ HasType(a[1], v))
          [] OTHER -> FALSE

----------------------------------------------------------------------------
(* NameTrie: a trie of the names that the declarations mention, here the   *)
(* set of its terminal paths.                                              *)

\* collect: the names of a type that are no base types; of a tagged union only
\* its structs.
RECURSIVE TrieNames(_)
TrieNames(t) ==
    IF IsName(t) THEN (IF IsBaseType(t) THEN {} ELSE {t.name})
    ELSE IF IsFn(t, "TaggedUnion") /\ Len(t.args) >= 3
    THEN UNION {TrieNames(t.args[i]) : i \in {j \in DOMAIN t.args : j > 1 /\ j % 2 = 1}}
    ELSE IF t.kind = "ApplyFn" THEN UNION {TrieNames(a) : a \in ToSet(t.args)}
    ELSE {}

\* prefix_name: the longest prefix of a name in the trie, /name when none is.
PrefixName(trie, path) ==
    LET at == {i \in 1..Len(path) : SubSeq(path, 1, i) \in trie}
    IN  IF at = {} THEN <<"name">> ELSE SubSeq(path, 1, Max(at))
=============================================================================
