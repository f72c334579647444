----------------------------- MODULE AgtypeEval -----------------------------
(***************************************************************************)
(* An expression of Cypher being evaluated: the executor calls one         *)
(* function of agtype after the other, the value of the last call being an *)
(* argument of the next, or it feeds rows to the aggregates.               *)
(***************************************************************************)
EXTENDS AgtypeMath

CONSTANTS Literals,   \* values an expression begins with, and takes as arguments
          Counts,     \* the numbers given to functions of three arguments
          Texts,      \* texts given to agtype_in
          SqlValues,  \* values of SQL types
          Graph,      \* the tables of the vertices
          Rows,       \* what the aggregates are fed with
          Percentiles,
          MaxCalls, MaxRows

VARIABLES call,   \* the function called last and its arguments
          value,  \* what it returned
          calls,  \* how many calls there were
          agg     \* the states of the aggregates, and the rows they were fed with

vars == <<call, value, calls, agg>>

SqlTypes == {"text", "json", "int4[]", "graphid", "wire"}
IsAgtype(v) == v # Error /\ v # SqlNull /\ Kind(v) \notin SqlTypes

NoRows == [rows |-> <<>>, sum |-> SqlNull, larger |-> SqlNull, smaller |-> SqlNull,
           collected |-> <<>>, spread |-> NoFloats, middle |-> SqlNull]

Init ==
    /\ value \in Literals
    /\ call = <<"literal">>
    /\ calls = 0
    /\ agg = NoRows

\* the call, and one of the values it may return; an error ends the evaluation,
\* and what is no agtype is converted back first
Usable == calls < MaxCalls /\ agg = NoRows /\ (IsAgtype(value) \/ value = SqlNull)
Returns(fn, args, results) ==
    /\ calls < MaxCalls /\ agg = NoRows /\ value # Error
    /\ value' \in results
    /\ call' = <<fn>> \o args
    /\ calls' = calls + 1
    /\ UNCHANGED agg

-----------------------------------------------------------------------------
(* One argument.                                                           *)
EntityFn(fn, v) ==
    CASE fn = "id" -> age_id(v)
      [] fn = "start_id" -> age_start_id(v)
      [] fn = "end_id" -> age_end_id(v)
      [] fn = "startNode" -> age_startnode(Graph, v)
      [] fn = "endNode" -> age_endnode(Graph, v)
      [] fn = "type" -> age_type(v)
      [] fn = "label" -> IF v = Array(<<>>) THEN Error ELSE age_label(v)
      [] fn = "labels" -> age_labels(v)
      [] fn = "properties" -> age_properties(v)
      [] fn = "length" -> age_length(v)
      [] fn = "nodes" -> age_nodes(v)
      [] fn = "relationships" -> age_relationships(v)
EntityFns == {"id", "start_id", "end_id", "startNode", "endNode", "type", "label", "labels",
              "properties", "length", "nodes", "relationships"}

ListFn(fn, v) ==
    CASE fn = "head" -> age_head(v)
      [] fn = "last" -> age_last(v)
      [] fn = "tail" -> age_tail(v)
      [] fn = "keys" -> age_keys(v)
      [] fn = "size" -> age_size(v)
      [] fn = "isEmpty" -> age_isempty(v)
      [] fn = "exists" -> age_exists(v)
      [] fn = "reverse" -> age_reverse(v)
      [] fn = "unnest" -> LET rows == age_unnest(v) IN IF rows = Error THEN Error ELSE Array(rows)
ListFns == {"head", "last", "tail", "keys", "size", "isEmpty", "exists", "reverse", "unnest"}

StringFn(fn, v) ==
    CASE fn = "toUpper" -> age_toupper(v)
      [] fn = "toLower" -> age_tolower(v)
      [] fn = "lTrim" -> age_ltrim(v)
      [] fn = "rTrim" -> age_rtrim(v)
      [] fn = "trim" -> age_trim(v)
StringFns == {"toUpper", "toLower", "lTrim", "rTrim", "trim"}

ConversionFn(fn, v) ==
    CASE fn = "toBoolean" -> age_toboolean(v)
      [] fn = "toFloat" -> age_tofloat(v)
      [] fn = "toInteger" -> age_tointeger(v)
      [] fn = "toString" -> age_tostring(v)
      [] fn = "toBooleanList" -> age_tobooleanlist(v)
      [] fn = "toFloatList" -> age_tofloatlist(v)
      [] fn = "toIntegerList" -> age_tointegerlist(v)
      [] fn = "toStringList" -> age_tostringlist(v)
      [] fn = "::numeric" -> agtype_typecast_numeric(v)
      [] fn = "::integer" -> agtype_typecast_int(v)
      [] fn = "::float" -> agtype_typecast_float(v)
      [] fn = "::boolean" -> agtype_typecast_bool(v)
      [] fn = "::vertex" -> agtype_typecast_vertex(v)
      [] fn = "::edge" -> agtype_typecast_edge(v)
      [] fn = "::path" -> agtype_typecast_path(v)
ConversionFns == {"toBoolean", "toFloat", "toInteger", "toString", "toBooleanList", "toFloatList",
                  "toIntegerList", "toStringList", "::numeric", "::integer", "::float", "::boolean",
                  "::vertex", "::edge", "::path"}

CastFn(fn, v) ==
    CASE fn = "int8" -> agtype_to_int8(v)
      [] fn = "int4" -> agtype_to_int4(v)
      [] fn = "int2" -> agtype_to_int2(v)
      [] fn = "bool" -> agtype_to_bool(v)
      [] fn = "float8" -> agtype_to_float8(v)
      [] fn = "text" -> agtype_to_text(v)
      [] fn = "json" -> agtype_to_json(v)
      [] fn = "int4[]" -> agtype_to_int4_array(v)
      [] fn = "graphid" -> agtype_to_graphid(v)
      [] fn = "send" -> <<"wire", agtype_send(v)>>
CastFns == {"int8", "int4", "int2", "bool", "float8", "text", "json", "int4[]", "graphid", "send"}

NumericFn(fn, v) ==
    CASE fn = "-" -> {agtype_neg(v)}
      [] fn = "ceil" -> {age_ceil(v)}
      [] fn = "floor" -> {age_floor(v)}
      [] fn = "round" -> {age_round(v, LeftOut)}
      [] fn = "abs" -> {age_abs(v)}
      [] fn = "sign" -> {age_sign(v)}
      [] fn = "sin" -> age_sin(v)
      [] fn = "cos" -> age_cos(v)
      [] fn = "tan" -> age_tan(v)
      [] fn = "cot" -> age_cot(v)
      [] fn = "asin" -> age_asin(v)
      [] fn = "acos" -> age_acos(v)
      [] fn = "atan" -> age_atan(v)
      [] fn = "degrees" -> age_degrees(v)
      [] fn = "radians" -> age_radians(v)
      [] fn = "log" -> age_log(v)
      [] fn = "log10" -> age_log10(v)
      [] fn = "exp" -> age_exp(v)
      [] fn = "sqrt" -> age_sqrt(v)
NumericFns == {"-", "ceil", "floor", "round", "abs", "sign", "sin", "cos", "tan", "cot", "asin",
               "acos", "atan", "degrees", "radians", "log", "log10", "exp", "sqrt"}
ConstantFn == [fn \in {"e", "pi", "rand", "timestamp"} |->
    CASE fn = "e" -> age_e [] fn = "pi" -> age_pi [] fn = "rand" -> age_rand [] OTHER -> age_timestamp]

\* agtype_neg is not called for NULL
CallEntity  == Usable /\ \E fn \in EntityFns : Returns(fn, <<value>>, {EntityFn(fn, value)})
CallList    == Usable /\ \E fn \in ListFns : Returns(fn, <<value>>, {ListFn(fn, value)})
CallString  == Usable /\ \E fn \in StringFns : Returns(fn, <<value>>, {StringFn(fn, value)})
Convert     == Usable /\ \E fn \in ConversionFns : Returns(fn, <<value>>, {ConversionFn(fn, value)})
CallNumeric == Usable /\ \E fn \in NumericFns : (fn = "-" => IsAgtype(value))
    /\ Returns(fn, <<value>>, NumericFn(fn, value))
CallConstant == \E fn \in DOMAIN ConstantFn : Returns(fn, <<>>, ConstantFn[fn])
CastTo      == Usable /\ \E fn \in CastFns : IsAgtype(value) /\ Returns(fn, <<value>>, {CastFn(fn, value)})
CastFrom ==
    CASE Kind(value) = "string" -> Returns("agtype", <<value>>, {text_to_agtype(value)})
      [] Kind(value) = "graphid" -> Returns("graphid", <<value>>, {graphid_to_agtype(Val(value))})
      [] Kind(value) = "wire" -> Returns("recv", <<value>>, {agtype_recv(Val(value))})
      [] OTHER -> FALSE

-----------------------------------------------------------------------------
(* Two arguments.                                                          *)
ArithmeticFn(fn, v, w) ==
    CASE fn = "+" -> agtype_add(v, w)
      [] fn = "-" -> agtype_sub(v, w)
      [] fn = "*" -> agtype_mul(v, w)
      [] fn = "/" -> agtype_div(v, w)
      [] fn = "%" -> agtype_mod(v, w)
      [] fn = "^" -> agtype_pow(v, w)
ArithmeticFns == {"+", "-", "*", "/", "%", "^"}
\* powers of small numbers only
IsSmall(v) == IsNumber(v) /\ Abs(AsNumeric(v)) <= 6
Allowed(fn, v, w) == fn = "^" /\ IsNumber(v) /\ IsNumber(w) =>
                       IsSmall(v) /\ IsSmall(w) /\ AsNumeric(w) % 2 = 0

OrderFn(fn, v, w) ==
    CASE fn = "=" -> Variadic(agtype_eq, v, w)
      [] fn = "<>" -> Variadic(agtype_ne, v, w)
      [] fn = "<" -> Variadic(agtype_lt, v, w)
      [] fn = ">" -> Variadic(agtype_gt, v, w)
      [] fn = "<=" -> Variadic(agtype_le, v, w)
      [] fn = ">=" -> Variadic(agtype_ge, v, w)
OrderFns == {"=", "<>", "<", ">", "<=", ">="}

Strings(v) == IF IsArray(v) THEN SelectSeq(Val(v), IsString) ELSE <<>>
ExistenceFn(fn, v, w) ==
    CASE fn = "?" -> agtype_exists_agtype(v, w)
      [] fn = "?|" -> agtype_exists_any_agtype(v, w)
      [] fn = "?&" -> agtype_exists_all_agtype(v, w)
      [] fn = "? text" -> agtype_exists(v, w)
      [] fn = "?| text[]" -> agtype_exists_any(v, Strings(w))
      [] fn = "?& text[]" -> agtype_exists_all(v, Strings(w))
      [] fn = "@>" -> agtype_contains(v, w)
      [] fn = "<@" -> agtype_contained_by(v, w)
      [] fn = "@>>" -> agtype_contains_top_level(v, w)
      [] fn = "<<@" -> agtype_contained_by_top_level(v, w)
ExistenceFns == {"?", "?|", "?&", "? text", "?| text[]", "?& text[]", "@>", "<@", "@>>", "<<@"}

AccessFn(fn, v, w) ==
    CASE fn = "[]" -> agtype_access_operator(v, <<w>>)
      [] fn = "||" -> agtype_concat(v, w)
      [] fn = "->" -> agtype_object_field_agtype(v, w)
      [] fn = "->>" -> agtype_object_field_text_agtype(v, w)
      [] fn = "#>" -> get_agtype_path_all(v, w, FALSE)
      [] fn = "#>>" -> get_agtype_path_all(v, w, TRUE)
      [] fn = "IN" -> agtype_in_operator(v, w)
      [] fn = "STARTS WITH" -> agtype_string_match_starts_with(v, w)
      [] fn = "ENDS WITH" -> agtype_string_match_ends_with(v, w)
      [] fn = "CONTAINS" -> agtype_string_match_contains(v, w)
AccessFns == {"[]", "||", "->", "->>", "#>", "#>>", "IN", "STARTS WITH", "ENDS WITH", "CONTAINS"}

PairFn(fn, v, w) ==
    CASE fn = "=~" -> {age_eq_tilde(v, w)}
      [] fn = "left" -> {age_left(v, w)}
      [] fn = "right" -> {age_right(v, w)}
      [] fn = "split" -> {age_split(v, w)}
      [] fn = "round" -> {age_round(v, w)}
      [] fn = "atan2" -> age_atan2(v, w)
      [] fn = "properties =" -> IF IsAgtype(w) THEN {alter_properties(v, w)} ELSE {Error}
PairFns == {"=~", "left", "right", "split", "round", "atan2", "properties ="}

First == calls = 0 /\ agg = NoRows
Second == IF First THEN Literals ELSE {}
Given(v) == v # SqlNull
Calculate == \E w \in Second, fn \in ArithmeticFns :
    Given(value) /\ Given(w) /\ Allowed(fn, value, w)
    /\ Returns(fn, <<value, w>>, {ArithmeticFn(fn, value, w)})
Compare == \E w \in Second, fn \in OrderFns : Returns(fn, <<value, w>>, {OrderFn(fn, value, w)})
Search == \E w \in Second, fn \in ExistenceFns :
    Given(value) /\ Given(w) /\ Returns(fn, <<value, w>>, {ExistenceFn(fn, value, w)})
AccessBy == \E w \in Second, fn \in AccessFns :
    Given(value) /\ Given(w) /\ Returns(fn, <<value, w>>, {AccessFn(fn, value, w)})
CallPair == \E w \in Second, fn \in PairFns : Returns(fn, <<value, w>>, PairFn(fn, value, w))

-----------------------------------------------------------------------------
(* More arguments, texts and SQL values.                                   *)
Third == IF First THEN Counts ELSE {}
CallTriple == \E i, j \in Third :
    \/ i # SqlNull /\ Returns("substring", <<value, i, j>>, {age_substring(value, i, j)})
    \/ Returns("substring", <<value, i>>, {age_substring(value, i, LeftOut)})
    \/ Returns("slice", <<value, i, j>>, {agtype_access_slice(value, i, j)})
    \/ Returns("range", <<value, i, j>>, {age_range(value, i, j)})
    \/ Given(value) /\ Given(i) /\ Given(j)
       /\ Returns("[][]", <<value, i, j>>, {agtype_access_operator(value, <<i, j>>)})
Replace == \E s, t \in Second :
    (IsString(s) \/ IsNull(s)) /\ IsString(t) /\ Returns("replace", <<value, s, t>>, {age_replace(value, s, t)})

\* SET and REMOVE of a property; a key is a string
AlterProperty == \E k \in Second, v \in Third, remove \in BOOLEAN :
    /\ IsString(k) /\ (IsAgtype(value) \/ value = SqlNull) /\ Len(Val(k)) <= 2
    /\ Returns("property =", <<value, k, v, remove>>, {alter_property_value(value, Val(k), v, remove)})

Build ==
    \/ \E v \in Second : Returns("list", <<value, v>>, {agtype_build_list(<<value, v>>)})
    \/ \E v, w \in Third : Returns("map", <<value, v, w>>, {agtype_build_map(<<value, v, String(IdKey), w>>)})
    \/ \E v \in Second : Returns("map", <<value, v>>, {agtype_build_map_nonull(<<value, v>>)})
    \/ \E v, w \in Second : Kind(v) \in {"edge", "path"}
                            /\ Returns("path", <<value, v, w>>, {_agtype_build_path(<<value, v, w>>)})
    \/ \E v \in Second : Returns("path", <<value, v>>, {_agtype_build_path(<<value, v>>)})
Parse == \E q \in Texts : First /\ Returns("agtype_in", <<q>>, {agtype_in(q)})
FromSql == \E d \in SqlValues : First /\
    (\/ Returns("agtype", <<d>>, {add_agtype(d)})
     \/ Returns("key", <<d>>, {key_of_datum(d)})
     \/ Kind(d) # "float4" /\ Returns("volatile", <<d>>, {agtype_volatile_wrapper(d)}))

-----------------------------------------------------------------------------
(* Aggregates, all of them over the same rows.                             *)
Accumulate == \E r \in Rows, p \in Percentiles :
    /\ calls = 0 /\ value = SqlNull /\ Len(agg.rows) < MaxRows
    /\ agg' = [rows |-> Append(agg.rows, r),
               sum |-> SumStep(agg.sum, r),
               larger |-> age_agtype_larger_aggtransfn(agg.larger, r),
               smaller |-> age_agtype_smaller_aggtransfn(agg.smaller, r),
               collected |-> age_collect_aggtransfn(agg.collected, r),
               spread |-> age_agtype_float8_accum(agg.spread, r),
               middle |-> age_percentile_aggtransfn(agg.middle, r, p)]
    /\ UNCHANGED <<call, value, calls>>

\* what the aggregates return
Finals == [sum |-> agg.sum,
           collect |-> age_collect_aggfinalfn(agg.collected),
           stDev |-> age_float8_stddev_samp_aggfinalfn(agg.spread),
           stDevP |-> age_float8_stddev_pop_aggfinalfn(agg.spread),
           percentileCont |-> age_percentile_cont_aggfinalfn(agg.middle),
           percentileDisc |-> age_percentile_disc_aggfinalfn(agg.middle)]

Next == \/ CallEntity \/ CallList \/ CallString \/ Convert \/ CallNumeric \/ CallConstant
        \/ CastTo \/ CastFrom
        \/ Calculate \/ Compare \/ Search \/ AccessBy \/ CallPair
        \/ CallTriple \/ Replace \/ AlterProperty \/ Build \/ Parse \/ FromSql
        \/ Accumulate

Spec == Init /\ [][Next]_vars

-----------------------------------------------------------------------------
(* Properties                                                              *)

RECURSIVE WellFormed(_)
WellFormed(v) ==
    CASE Kind(v) = "null" -> TRUE
      [] Kind(v) = "boolean" -> Val(v) \in BOOLEAN
      [] Kind(v) = "integer" -> Val(v) \in IntMin .. IntMax
      [] Kind(v) = "float" -> ~Finite(Val(v)) \/ (Val(v) \in -FloatMax .. FloatMax /\ RoundFloat(Val(v)) = Val(v))
      [] Kind(v) = "numeric" -> Val(v) \in Int
      [] Kind(v) = "string" -> Val(v) \in Seq(STRING)
      [] IsArray(v) -> Len(v) = 2 /\ \A i \in DOMAIN Val(v) : WellFormed(Val(v)[i])
      [] IsObject(v) -> \A k \in DOMAIN Val(v) : WellFormed(Val(v)[k])
      [] IsEntity(v) -> GraphId(v) \in Int /\ IsObject(Properties(v)) /\ WellFormed(Properties(v))
      [] IsPath(v) -> is_array_path(Val(v)) /\ \A i \in DOMAIN Val(v) : WellFormed(Val(v)[i])
      [] OTHER -> FALSE

\* Whatever the calls, a value is one the rest of the code takes: integers have
\* their width and floats their precision, a container holds values and no NULL
\* or error, an entity has a map of properties, a path alternates.
TypeOK ==
    /\ IsAgtype(value) => WellFormed(value)
    /\ \A r \in {Finals.sum, Finals.collect, Finals.percentileCont, Finals.percentileDisc}
               \cup Finals.stDev \cup Finals.stDevP :
          r \in {SqlNull, Error} \/ WellFormed(r)

\* A value that is printed (agtype_out, as pg_dump and the drivers see it) is
\* read back by agtype_in as the same value, whatever it nests and escapes.
TextRoundTrip == IsAgtype(value) => agtype_in(agtype_out(value)) = value

\* The iterator and push_agtype_value are inverse, so a value that is stored and
\* rebuilt is the same, and the length of every element, or of every key and
\* value of an object, is recovered from the mixture of lengths and offsets that
\* convert_agtype_array and convert_agtype_object write.
Size(v) == Len(agtype_out(v))
Recovers(es, lens) == \A i \in DOMAIN lens : get_agtype_length(es, i) = lens[i]
StoredAsBuilt ==
    IsAgtype(value) =>
        /\ ~IsScalar(value) => FromTokens(agtype_iterator_next(value)) = value
        /\ IsArray(value) => LET lens == [i \in DOMAIN Val(value) |-> Size(Val(value)[i])] IN
              Recovers(convert_agtype_array(lens), lens)
        /\ IsObject(value) =>
              LET keys == SortedKeys(Val(value))
                  keyLens == [i \in DOMAIN keys |-> Len(keys[i])]
                  valueLens == [i \in DOMAIN keys |-> Size(Val(value)[keys[i]])]
              IN  Recovers(convert_agtype_object(keyLens, valueLens), keyLens \o valueLens)

\* The ways to reach a part of a value agree: the search by halves of a.k with
\* the lookup of a -> k, and an element a[i] with a -> i, with the slice of
\* length one and with what a - i leaves.
Same(v, w) == OneOf(v) = OneOf(w)
ListIndex(i) == Kind(i) = "integer" /\ Val(i) \in -Int32Max .. Int32Max
AccessAgrees ==
    call[1] = "[]" /\ value # Error =>
        LET v == call[2]
            k == call[3]
            up == IF Val(k) = -1 THEN Null ELSE Integer(Val(k) + 1)
        IN  /\ IsString(k) /\ Val(k) # <<>> => Same(value, agtype_object_field_agtype(v, k))
            /\ IsList(v) /\ ListIndex(k) =>
                  /\ Same(value, agtype_object_field_agtype(v, k))
                  /\ Val(k) \in -Len(Val(v)) .. Len(Val(v)) - 1 =>
                        /\ agtype_access_slice(v, k, up) = Array(<<OrNull(value)>>)
                        /\ LET rest == agtype_sub(v, k) IN
                           Len(Val(rest)) = Len(Val(v)) - 1

\* A string is cut where it says: left and substring, and right, divide it, the
\* parts of split joined by the delimiter are the string, and replacing a
\* string by itself changes nothing.
Joined(q, t) == FoldLeft(LAMBDA s, p : s \o t \o p, Val(q[1]), Tail([i \in DOMAIN q |-> Val(q[i])]))
CutsRejoin ==
    IsAgtype(value) =>
        /\ call[1] = "left" => LET s == call[2]
                                   n == call[3]
                               IN  /\ Val(value) \o Val(age_substring(s, n, LeftOut)) = Val(s)
                                   /\ value = age_substring(s, Integer(0), n)
                                   /\ Same(age_reverse(age_right(age_reverse(s), n)), value)
        /\ call[1] = "split" /\ Val(call[3]) # <<>> => Joined(Val(value), Val(call[3])) = Val(call[2])
        /\ call[1] = "replace" /\ call[3] = call[4] => value = call[2]

\* Containment (@>) is an order on values without edges, paths and NaN: a value
\* contains itself and what its parts contain, and a list made of two lists
\* contains both.
ContainsIsOrder ==
    /\ call[1] = "@>" /\ call[2] = call[3] /\ call[2] # Float(NaN) => value # Bool(FALSE)
    /\ call[1] = "@>" /\ value = Bool(TRUE) =>
          \A w \in Literals \ {SqlNull} :
              agtype_contains(call[3], w) = Bool(TRUE) => agtype_contains(call[2], w) # Bool(FALSE)
    /\ call[1] = "||" /\ IsList(call[2]) /\ IsList(call[3]) =>
          \A i \in {2, 3} : agtype_contains(value, call[i]) # Bool(FALSE)

\* The aggregates agree with the rows, in whatever order the rows came: a sum of
\* integers is exact or refused, the larger and the smaller bound every row, as
\* many rows are collected as are not null, and a percentile lies among the rows.
Known == {i \in DOMAIN agg.rows : ~IsNull(agg.rows[i])}
Integers == \A i \in DOMAIN agg.rows : agg.rows[i] = SqlNull \/ Kind(agg.rows[i]) = "integer"
Total == FoldLeft(LAMBDA n, r : IF r = SqlNull THEN n ELSE n + Val(r), 0, agg.rows)
AggregatesAgree ==
    Known # {} =>
        /\ Integers => Finals.sum \in {Integer(Total), Error}
        /\ \A i \in Known : /\ agtype_ge(agg.larger, agg.rows[i]) = Bool(TRUE)
                            /\ agtype_le(agg.smaller, agg.rows[i]) = Bool(TRUE)
        /\ Len(Val(Finals.collect)) = Cardinality(Known)
        /\ agg.middle # Error =>
              /\ \E i \in Known : agtype_to_float8(agg.rows[i]) = Finals.percentileDisc
              /\ agtype_to_float8(agg.smaller) # Error =>
                    /\ agtype_le(agtype_to_float8(agg.smaller), Finals.percentileCont) = Bool(TRUE)
                    /\ agtype_ge(agtype_to_float8(agg.larger), Finals.percentileCont) = Bool(TRUE)

=============================================================================
