----------------------------- MODULE AgtypeOps -----------------------------
(***************************************************************************)
(* The operators of agtype: arithmetic, concatenation, deletion, order,    *)
(* existence, containment and path extraction of agtype_ops.c, and the     *)
(* field, element, slice, IN and string matching operators of agtype.c.    *)
(* Each takes whole values and yields a value, SqlNull or Error.  A text   *)
(* result is the string itself, or the value that is printed.              *)
(***************************************************************************)
EXTENDS Agtype

Outcome(x) == IF x = "error" THEN Error ELSE Bool(x = "yes")
IsNull(v)  == v \in {SqlNull, Null}
IsList(v)  == IsArray(v) /\ ~IsRaw(v)

\* an argument of a function that takes "any": an agtype null counts as NULL
get_one_agtype_from_variadic_args(v) == IF IsNull(v) THEN SqlNull ELSE v

-----------------------------------------------------------------------------
(* Text of scalars.                                                        *)
int8out(i) ==
    LET a == Abs(i)
        n == CHOOSE k \in 1 .. 9 : a < 10 ^ k /\ (k = 1 \/ a >= 10 ^ (k - 1))
    IN  (IF i < 0 THEN <<"-">> ELSE <<>>) \o [j \in 1 .. n |-> Digits[((a \div 10 ^ (n - j)) % 10) + 1]]
float8out(h) ==
    IF IsNaN(h) THEN <<"N">>
    ELSE (IF h < 0 THEN <<"-">> ELSE <<>>)
         \o (IF IsInf(h) THEN <<"I">>
             ELSE int8out(Abs(h) \div 2) \o (IF h % 2 = 1 THEN <<".", "5">> ELSE <<>>))
is_decimal_needed(s) == \A i \in DOMAIN s : IsDigit(s[i]) \/ s[i] = "-"

get_string_from_agtype_value(v) ==
    CASE Kind(v) = "integer" -> int8out(Val(v))
      [] Kind(v) = "float" -> LET s == float8out(Val(v)) IN
                              IF is_decimal_needed(s) THEN s \o <<".", "0">> ELSE s
      [] Kind(v) = "numeric" -> float8out(Val(v))
      [] Kind(v) = "string" -> Val(v)
      [] OTHER -> <<>>
concat_to_agtype_string(a, b) ==
    String(get_string_from_agtype_value(a) \o get_string_from_agtype_value(b))

-----------------------------------------------------------------------------
(* Arithmetic on halves, exact before it is rounded.                       *)
Finite(h) == Abs(h) < Infinity
\* a numeric keeps one digit after the point here, rounded away from zero
RoundNumeric(p, q) ==
    LET s == Sign(p) * Sign(q) IN s * ((2 * Abs(p) + Abs(q)) \div (2 * Abs(q)))
Remainder(h, k) == Sign(h) * (Abs(h) % Abs(k))

Opposite(h) == IF IsNaN(h) THEN NaN ELSE -h
\* with what is done to a finite result
Sum2(h, k, round(_, _)) ==
    IF IsNaN(h) \/ IsNaN(k) THEN NaN
    ELSE IF IsInf(h) THEN (IF k = -h THEN NaN ELSE h)
    ELSE IF IsInf(k) THEN k ELSE round(h + k, 1)
Product2(h, k, round(_, _)) ==
    IF IsNaN(h) \/ IsNaN(k) \/ (IsInf(h) /\ k = 0) \/ (IsInf(k) /\ h = 0) THEN NaN
    ELSE IF IsInf(h) \/ IsInf(k) THEN Sign(h) * Sign(k) * Infinity
    ELSE round(h * k, 2)
Quotient2(h, k, round(_, _)) ==
    IF IsNaN(h) \/ IsNaN(k) \/ (IsInf(h) /\ IsInf(k)) THEN NaN
    ELSE IF IsInf(h) THEN Sign(h) * Sign(k) * Infinity
    ELSE IF IsInf(k) THEN 0 ELSE round(Sign(k) * 2 * h, Abs(k))
FloatSum(h, k) == Sum2(h, k, RoundRatio)
FloatProduct(h, k) == Product2(h, k, RoundRatio)
FloatQuotient(h, k) == Quotient2(h, k, RoundRatio)
NumericSum(h, k) == Sum2(h, k, RoundNumeric)
NumericProduct(h, k) == Product2(h, k, RoundNumeric)
NumericQuotient(h, k) == Quotient2(h, k, RoundNumeric)
fmod(h, k) ==
    IF IsNaN(h) \/ IsNaN(k) \/ IsInf(h) \/ k = 0 THEN NaN
    ELSE IF IsInf(k) THEN h ELSE Remainder(h, k)
\* for finite operands and whole exponents
Power(h, k, round(_, _)) ==
    LET e == Abs(k) \div 2 IN
    IF k = 0 THEN 2
    ELSE IF k > 0 THEN round(2 * h ^ e, 2 ^ e)
    ELSE IF h = 0 THEN Infinity ELSE round(Sign(h ^ e) * 2 * 2 ^ e, Abs(h ^ e))
pow(h, k) == Power(h, k, RoundRatio)
numeric_power(h, k) == Power(h, k, RoundNumeric)

is_numeric_result(a, b) == IsNumber(a) /\ IsNumber(b) /\ "numeric" \in {Kind(a), Kind(b)}
get_numeric_datum_from_agtype_value(v) == AsNumeric(v)

\* the four pairs of integers and floats, then numerics; anything else errs
Arithmetic(a, b, onInts, onFloats, onNumerics) ==
    IF ~IsScalar(a) \/ ~IsScalar(b) THEN Error
    ELSE IF Kind(a) = "integer" /\ Kind(b) = "integer" THEN onInts
    ELSE IF {Kind(a), Kind(b)} \subseteq {"integer", "float"} THEN onFloats
    ELSE IF is_numeric_result(a, b) THEN onNumerics ELSE Error

NA(v) == get_numeric_datum_from_agtype_value(v)

-----------------------------------------------------------------------------
(* Concatenation.  Objects are merged, the right one winning; what is      *)
(* neither two objects nor two arrays becomes an array.                    *)
Elements(v) == IF IsArray(v) THEN Val(v) ELSE <<v>>
PairsOf(f, ks) == [i \in DOMAIN ks |-> <<ks[i], f[ks[i]]>>]
Pairs(f) == PairsOf(f, SortedKeys(f))

iterator_concat(a, b) ==
    LET elements == Elements(a) \o Elements(b)
        other == IF IsObject(a) THEN b ELSE a
    IN  IF IsObject(a) /\ IsObject(b)
        THEN Object(uniqueify_agtype_object(Pairs(Val(a)) \o Pairs(Val(b))))
        ELSE IF (IsObject(a) \/ IsObject(b)) /\ IsScalar(other)
                /\ Kind(other) \notin {"vertex", "edge", "path"} THEN Error
        ELSE Array(elements)
agtype_concat_impl(a, b) == iterator_concat(a, b)
agtype_concat(a, b) == agtype_concat_impl(a, b)

agtype_add(a, b) ==
    IF ~IsScalar(a) \/ ~IsScalar(b) THEN agtype_concat_impl(a, b)
    ELSE IF "string" \in {Kind(a), Kind(b)} THEN concat_to_agtype_string(a, b)
    ELSE IF IsNumber(a) /\ IsNumber(b)
    THEN Arithmetic(a, b, Integer(Wrap(Val(a) + Val(b))), Float(FloatSum(AsFloat(a), AsFloat(b))),
                    Numeric(NumericSum(NA(a), NA(b))))
    ELSE agtype_concat_impl(a, b)

-----------------------------------------------------------------------------
(* Deletion: of the elements whose index, or index from the end, is among  *)
(* the indexes; of keys.                                                   *)
KeptIndexes(n, indexes) ==
    SelectSeq([i \in 1 .. n |-> i],
              LAMBDA i : \A j \in {i - 1, i - 1 - n} : DeepContains(indexes, Integer(j), FALSE) # "yes")
At(q, places) == [i \in DOMAIN places |-> q[places[i]]]
delete_from_array(a, indexes) ==
    IF ~IsList(a) THEN Error ELSE Array(At(Val(a), KeptIndexes(Len(Val(a)), indexes)))
delete_from_object(o, keys) == Object([k \in DOMAIN Val(o) \ keys |-> Val(o)[k]])

agtype_sub(a, b) ==
    LET all(kind) == \A v \in Range(Val(b)) : Kind(v) = kind
        keys == IF IsList(b) THEN {Val(v) : v \in Range(Val(b))} ELSE {Val(b)}
    IN
    IF IsList(b) \/ ~IsScalar(a)
    THEN CASE IsObject(a) /\ (IF IsList(b) THEN all("string") ELSE Kind(b) = "string") -> delete_from_object(a, keys)
           [] IsArray(a) /\ (IF IsList(b) THEN IsList(a) /\ all("integer") ELSE Kind(b) = "integer") -> delete_from_array(a, b)
           [] OTHER -> Error
    ELSE Arithmetic(a, b, Integer(Wrap(Val(a) - Val(b))),
                    Float(FloatSum(AsFloat(a), Opposite(AsFloat(b)))), Numeric(NumericSum(NA(a), Opposite(NA(b)))))

agtype_neg(a) ==
    CASE Kind(a) = "integer" -> Integer(Wrap(-Val(a)))
      [] Kind(a) = "float" -> Float(Opposite(Val(a)))
      [] Kind(a) = "numeric" -> Numeric(Opposite(Val(a)))
      [] OTHER -> Error

agtype_mul(a, b) ==
    Arithmetic(a, b, Integer(Wrap(Val(a) * Val(b))), Float(FloatProduct(AsFloat(a), AsFloat(b))),
               Numeric(NumericProduct(NA(a), NA(b))))

\* the quotient of the least integer and -1 does not fit: a trap, an error
agtype_div(a, b) ==
    LET q == Sign(Val(a)) * Sign(Val(b)) * (Abs(Val(a)) \div Abs(Val(b))) IN
    IF IsNumber(a) /\ IsNumber(b) /\ Val(b) = 0 THEN Error
    ELSE Arithmetic(a, b, IF q > IntMax THEN Error ELSE Integer(q),
                    Float(FloatQuotient(AsFloat(a), AsFloat(b))),
                    Numeric(NumericQuotient(NA(a), NA(b))))

\* a zero divisor is not tested: integers trap, floats give NaN
agtype_mod(a, b) ==
    Arithmetic(a, b,
        IF Val(b) = 0 \/ (Val(a) = IntMin /\ Val(b) = -1) THEN Error
        ELSE Integer(Remainder(Val(a), Val(b))),
        Float(fmod(AsFloat(a), AsFloat(b))),
        IF Val(b) = 0 THEN Error ELSE Numeric(fmod(NA(a), NA(b))))

agtype_pow(a, b) ==
    Arithmetic(a, b, Float(pow(AsFloat(a), AsFloat(b))), Float(pow(AsFloat(a), AsFloat(b))),
               IF NA(a) = 0 /\ NA(b) < 0 THEN Error ELSE Numeric(numeric_power(NA(a), NA(b))))

-----------------------------------------------------------------------------
(* Order and existence.                                                    *)
agtype_eq(a, b) == Bool(compare_agtype_containers_orderability(a, b) = 0)
agtype_ne(a, b) == Bool(compare_agtype_containers_orderability(a, b) # 0)
agtype_lt(a, b) == Bool(compare_agtype_containers_orderability(a, b) < 0)
agtype_gt(a, b) == Bool(compare_agtype_containers_orderability(a, b) > 0)
agtype_le(a, b) == Bool(compare_agtype_containers_orderability(a, b) <= 0)
agtype_ge(a, b) == Bool(compare_agtype_containers_orderability(a, b) >= 0)

Variadic(op(_, _), a, b) ==
    LET x == get_one_agtype_from_variadic_args(a)
        y == get_one_agtype_from_variadic_args(b)
    IN  IF SqlNull \in {x, y} THEN SqlNull ELSE op(x, y)

extract_entity_properties(v, errorOnScalar) ==
    IF ~IsScalar(v) THEN Error
    ELSE IF IsEntity(v) THEN Properties(v)
    ELSE IF Kind(v) = "path" \/ errorOnScalar THEN Error
    ELSE IF v = Null THEN SqlNull ELSE v

\* a key of an object or an element of an array
Exists(v, k) ==
    CASE IsObject(v) /\ Kind(k) = "string" -> IF HasKey(v, Val(k)) THEN "yes" ELSE "no"
      [] IsArray(v) -> find_agtype_value_from_array(Val(v), k)
      [] OTHER -> "no"
agtype_exists(v, k) == Outcome(Exists(AsRoot(v), k))
agtype_exists_any(v, ks) == Outcome(FirstThatHolds([i \in DOMAIN ks |-> Exists(AsRoot(v), ks[i])]))
agtype_exists_all(v, ks) == Outcome(Decide([i \in DOMAIN ks |-> Exists(AsRoot(v), ks[i])]))

\* the same for a key given as agtype: a scalar must be an entity
Opened(v, errorOnScalar) == IF IsScalar(v) THEN extract_entity_properties(v, errorOnScalar) ELSE v
agtype_exists_agtype(v, k) ==
    LET o == Opened(v, FALSE) IN
    IF o \in {Error, SqlNull} THEN Error
    ELSE IF ~IsScalar(k) \/ (k = Null) THEN Bool(FALSE) ELSE Outcome(Exists(AsRoot(o), k))
agtype_exists_any_agtype(v, ks) ==
    LET o == Opened(v, TRUE)
        found(k) == IF ~IsScalar(k) THEN "stop" ELSE IF k = Null THEN "no" ELSE Exists(o, k)
    IN  IF o = Error \/ ~IsList(ks) THEN Error
        ELSE Outcome(FirstThatHolds([i \in DOMAIN Val(ks) |-> found(Val(ks)[i])]))
agtype_exists_all_agtype(v, ks) ==
    LET o == Opened(v, TRUE)
        found(k) == IF ~IsScalar(k) THEN "no" ELSE IF k = Null THEN "yes" ELSE Exists(o, k)
    IN  IF o = Error \/ ~IsList(ks) THEN Error
        ELSE Outcome(Decide([i \in DOMAIN Val(ks) |-> found(Val(ks)[i])]))

(* Containment; of an entity, of its properties.                           *)
Contained(v) == IF IsEntity(v) \/ Kind(v) = "path" THEN extract_entity_properties(v, FALSE) ELSE v
ContainsOf(v, w, skip) ==
    LET p == Contained(v)
        c == Contained(w)
    IN  IF Error \in {p, c} THEN Error
        ELSE IF IsObject(p) # IsObject(c) THEN Bool(FALSE) ELSE Outcome(DeepContains(p, c, skip))
agtype_contains(v, w) == ContainsOf(v, w, FALSE)
agtype_contains_top_level(v, w) == ContainsOf(v, w, TRUE)
agtype_contained_by(v, w) == ContainsOf(w, v, FALSE)
agtype_contained_by_top_level(v, w) == ContainsOf(w, v, TRUE)

-----------------------------------------------------------------------------
(* Fields and elements.  The properties of an entity that has been read    *)
(* are searched by halves, the keys of a stored object by the container.   *)
RECURSIVE Halving(_, _, _, _, _)
Halving(ks, key, left, right, middle) ==
    LET c == length_compare_agtype_string_value(key, ks[middle + 1])
        low == middle - 1
        high == middle + 1
    IN  IF middle < left \/ middle > right THEN FALSE
        ELSE IF c = 0 THEN TRUE
        ELSE IF c < 0 THEN Halving(ks, key, left, low, (low - left) \div 2 + left)
        ELSE Halving(ks, key, high, right, (right - high) \div 2 + high)
\* without the last key
LastKeyLeftOut(f, key) ==
    LET ks == SortedKeys(f)
        n == Len(ks)
    IN  IF key # <<>> /\ Halving(ks, key, 0, n - 2, n \div 2) THEN f[key] ELSE SqlNull
\* the empty key is never found
get_agtype_value_object_value(f, key) ==
    LET ks == SortedKeys(f)
        n == Len(ks)
    IN  IF key # <<>> /\ Halving(ks, key, 0, n - 1, n \div 2) THEN f[key] ELSE SqlNull

FieldOf(f, key) == IF key \in DOMAIN f THEN f[key] ELSE SqlNull

execute_map_access_operator(f, key, searched) ==
    IF key = Null THEN SqlNull
    ELSE IF Kind(key) # "string" THEN Error
    ELSE IF searched THEN get_agtype_value_object_value(f, Val(key)) ELSE FieldOf(f, Val(key))

execute_array_access_operator_internal(q, i) ==
    LET j == IF i < 0 THEN Len(q) + i ELSE i IN
    IF j >= Len(q) \/ j < 0 THEN SqlNull ELSE q[j + 1]
execute_array_access_operator(q, i) ==
    IF i = Null THEN SqlNull
    ELSE IF Kind(i) # "integer" THEN Error ELSE execute_array_access_operator_internal(q, Val(i))

(* container.key.key: the state is what was reached and whether it came    *)
(* out of an entity.                                                       *)
AccessStep(at, key) ==
    LET v == IF IsEntity(at.value) THEN Properties(at.value) ELSE at.value
        next == IF ~IsScalar(key) THEN Error
                ELSE IF IsObject(v)
                THEN execute_map_access_operator(Val(v), key, at.read \/ IsEntity(at.value))
                ELSE IF IsArray(v) THEN execute_array_access_operator(Val(v), key)
                ELSE Error
    IN  IF at.value \in {SqlNull, Error} THEN at
        ELSE [value |-> IF next = Null THEN SqlNull ELSE next, read |-> at.read \/ IsEntity(at.value)]
agtype_access_operator(v, keys) ==
    IF SqlNull \in {v} \cup Range(keys) THEN SqlNull
    ELSE IF IsScalar(v) /\ ~IsEntity(v) THEN Error
    ELSE FoldLeft(AccessStep, [value |-> v, read |-> FALSE], keys).value

(* -> and ->>: no error, and element 0 of a scalar is the scalar.          *)
Text(v) == IF IsNull(v) THEN SqlNull ELSE IF Kind(v) = "string" THEN v ELSE <<"text", v>>
process_access_operator_result(v, asText) == IF asText THEN Text(v) ELSE v
agtype_array_element_impl(v, i, asText) ==
    IF IsArray(AsRoot(v))
    THEN process_access_operator_result(
           execute_array_access_operator_internal(Val(AsRoot(v)), Wrap32(i)), asText)
    ELSE SqlNull
agtype_object_field_impl(v, key, asText) ==
    LET o == Opened(v, FALSE) IN
    IF o = Error THEN Error
    ELSE IF ~IsObject(o) THEN SqlNull
    ELSE process_access_operator_result(FieldOf(Val(o), key), asText)
FieldOrElement(v, key, asText) ==
    CASE Kind(key) = "integer" -> agtype_array_element_impl(v, Val(key), asText)
      [] Kind(key) = "string" -> agtype_object_field_impl(v, Val(key), asText)
      [] OTHER -> SqlNull
agtype_object_field_agtype(v, key) == FieldOrElement(v, key, FALSE)
agtype_object_field_text_agtype(v, key) == FieldOrElement(v, key, TRUE)

(* #> and #>>.  A string is an index when all of it is a number; the empty *)
(* string is 0.                                                            *)
IsIndex(s) == s = <<>> \/ (Unsigned(s) # <<>> /\ AllDigits(Unsigned(s)))

PathStep(v, key) ==
    LET index == IF Kind(key) = "integer" THEN Val(key) ELSE SignedValue(Val(key))
        indexed == Kind(key) = "integer" \/ (Kind(key) = "string" /\ IsIndex(Val(key)))
    IN  IF v \in {SqlNull, Error} THEN v
        ELSE IF IsObject(v) /\ Kind(key) = "string" THEN FieldOf(Val(v), Val(key))
        ELSE IF IsArray(v) /\ indexed /\ index \in (-Int32Max - 1) .. Int32Max
        THEN execute_array_access_operator_internal(Val(v), index)
        ELSE SqlNull
get_agtype_path_all(v, path, asText) ==
    LET r == FoldLeft(PathStep, Opened(v, TRUE), Val(path)) IN
    IF ~IsList(path) THEN Error ELSE IF asText /\ r # Error THEN Text(r) ELSE r

(* Slices, IN and string matching.                                         *)
Clamped(i, n) == LET j == IF i < 0 THEN n + i ELSE i IN
                 IF j < 0 THEN 0 ELSE IF j > n THEN n ELSE j
agtype_access_slice(v, lower, upper) ==
    LET n == Len(Val(v))
        l == IF IsNull(lower) THEN 0 ELSE Clamped(Val(lower), n)
        u == IF IsNull(upper) THEN n ELSE Clamped(Val(upper), n)
        badIndex(i) == ~IsNull(i) /\ Kind(i) # "integer"
    IN  IF v = SqlNull THEN SqlNull
        ELSE IF ~IsList(v) \/ (IsNull(lower) /\ IsNull(upper)) \/ badIndex(lower) \/ badIndex(upper)
        THEN Error
        ELSE Array(SubSeq(Val(v), l + 1, u))

agtype_in_operator(v, item) ==
    LET same(e) == IF IsScalar(item)
                   THEN Kind(e) = Kind(item) /\ compare_agtype_scalar_values(item, e) = 0
                   ELSE ~IsScalar(e) /\ compare_agtype_containers_orderability(item, e) = 0
    IN  IF v = SqlNull THEN SqlNull
        ELSE IF ~IsList(v) THEN Error
        ELSE IF IsNull(item) THEN SqlNull
        ELSE Bool(\E i \in DOMAIN Val(v) : same(Val(v)[i]))

\* a string matches nothing but a string
StringMatch(matches(_, _), v, w) ==
    IF ~IsScalar(v) \/ ~IsScalar(w) THEN Error
    ELSE Bool(Kind(v) = "string" /\ Kind(w) = "string" /\ matches(Val(v), Val(w)))
StartsWith(s, t) == Len(s) >= Len(t) /\ SubSeq(s, 1, Len(t)) = t
EndsWith(s, t) == Len(s) >= Len(t) /\ SubSeq(s, Len(s) - Len(t) + 1, Len(s)) = t
Includes(s, t) == \E i \in 0 .. (Len(s) - Len(t)) : SubSeq(s, i + 1, i + Len(t)) = t
agtype_string_match_starts_with(v, w) == StringMatch(StartsWith, v, w)
agtype_string_match_ends_with(v, w) == StringMatch(EndsWith, v, w)
agtype_string_match_contains(v, w) == StringMatch(Includes, v, w)

=============================================================================
