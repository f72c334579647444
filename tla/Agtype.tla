------------------------------- MODULE Agtype -------------------------------
(***************************************************************************)
(* The values of Apache AGE (agtype) and what agtype_util.c does with them: *)
(* the token stream of a container and its inverse, the B-tree order,      *)
(* equality, hashing, containment and the on-disk entries.                 *)
(*                                                                         *)
(* A value is a pair <<type, content>>.  Integers have IntMax as largest   *)
(* value and wrap as int64 does.  A float is a number of halves, exact up  *)
(* to 2^Mantissa of them and rounded to even beyond, or one of the codes   *)
(* Infinity, -Infinity and NaN; a numeric is a number of halves, exact,    *)
(* but one made of a float keeps fewer digits than the float has.          *)
(* Strings are sequences of characters; objects are functions from keys.   *)
(***************************************************************************)
EXTENDS Integers, Sequences, FiniteSets, SequencesExt

CONSTANTS IntMax,     \* PG_INT64_MAX
          Int32Max,   \* INT_MAX
          Mantissa,   \* significant bits of a float8
          FloatMax,   \* largest finite float8, in halves
          Stride      \* AGT_OFFSET_STRIDE

ASSUME AgtypeConstants ==
    /\ IntMax \in Nat /\ Int32Max \in 0 .. IntMax
    /\ Mantissa \in Nat \ {0, 1} /\ FloatMax \in (2 * (IntMax + 1)) .. (2 ^ 20 - 1)
    /\ Stride \in Nat \ {0}

IntMin == -IntMax - 1
Wrap(i) == ((i - IntMin) % (2 * (IntMax + 1))) + IntMin
Wrap32(i) == ((i + Int32Max + 1) % (2 * (Int32Max + 1))) - Int32Max - 1

\* codes beyond every number of the model
Infinity == 2 ^ 20
NaN      == 2 ^ 20 + 1

\* what a call may return beside a value: no row's worth, or an error
SqlNull == <<"SQL NULL">>
Error   == <<"error">>

Null       == <<"null">>
Bool(b)    == <<"boolean", b>>
Integer(i) == <<"integer", i>>
Float(h)   == <<"float", h>>
Numeric(h) == <<"numeric", h>>
String(s)  == <<"string", s>>
Array(q)   == <<"array", q>>
Object(f)  == <<"object", f>>
Vertex(id, label, props) == <<"vertex", <<id, label, props>>>>
Edge(id, label, end, start, props) == <<"edge", <<id, label, end, start, props>>>>
Path(q)    == <<"path", q>>

Kind(v) == v[1]
Val(v)  == v[2]
IsArray(v)  == Kind(v) = "array"
IsObject(v) == Kind(v) = "object"
IsScalar(v) == Kind(v) \notin {"array", "object", "error", "SQL NULL"}
IsNumber(v) == Kind(v) \in {"integer", "float", "numeric"}
IsEntity(v) == Kind(v) \in {"vertex", "edge"}
GraphId(v)  == Val(v)[1]
Label(v)    == Val(v)[2]
Properties(v) == Val(v)[Len(Val(v))]

-----------------------------------------------------------------------------
(* Floats: rounding to Mantissa bits, ties to even; the least subnormal is *)
(* one half.                                                               *)
Abs(i) == IF i < 0 THEN -i ELSE i
Sign(i) == IF i < 0 THEN -1 ELSE IF i = 0 THEN 0 ELSE 1

\* a / u to the nearest, ties to even
Nearest(a, u) == (a \div u) + IF 2 * (a % u) > u \/ (2 * (a % u) = u /\ (a \div u) % 2 = 1)
                              THEN 1 ELSE 0
\* how far a / q goes beyond so many bits
Excess(a, q, bits) ==
    CHOOSE j \in 0 .. a : a < q * 2 ^ (bits + j) /\ (j = 0 \/ a >= q * 2 ^ (bits + j - 1))
RoundedBy(a, q, k) == Nearest(a, q * 2 ^ k) * 2 ^ k
OrInfinity(h) == IF h > FloatMax THEN Infinity ELSE h
\* p / q, rounded to so many bits
RoundBits(p, q, bits) == Sign(p) * OrInfinity(RoundedBy(Abs(p), q, Excess(Abs(p), q, bits)))
RoundRatio(p, q) == RoundBits(p, q, Mantissa)
RoundFloat(h) == RoundRatio(h, 1)

IsNaN(h) == h = NaN
IsInf(h) == Abs(h) = Infinity
IntToFloat(i) == RoundFloat(2 * i)

\* (int64) f: truncation; of a float out of range, what x86 does
Truncate(h) == Sign(h) * (Abs(h) \div 2)
FloatToInt(h) == IF Abs(h) >= Infinity \/ Truncate(h) \notin IntMin .. IntMax
                 THEN IntMin ELSE Truncate(h)

-----------------------------------------------------------------------------
(* Characters, in the order of the collation; ^A is a control character.   *)
(* In the text of a number I stands for Infinity and N for NaN.            *)
Digits == <<"0", "1", "2", "3", "4", "5", "6", "7", "8", "9">>
Alphabet == <<"^A", "\n", " ", "\"", "'", "+", "-", ".">> \o Digits \o
            <<"A", "B", "E", "F", "I", "L", "N", "R", "S", "T", "U", "\\", "a", "b", "e", "f", "i", "l", "n", "r", "s", "t", "u", "y">>
Rank(c) == CHOOSE i \in DOMAIN Alphabet : Alphabet[i] = c
IsDigit(c) == \E i \in DOMAIN Digits : Digits[i] = c
DigitValue(c) == (CHOOSE i \in DOMAIN Digits : Digits[i] = c) - 1
IsSign(c) == c \in {"+", "-"}
Unsigned(s) == IF s # <<>> /\ IsSign(s[1]) THEN Tail(s) ELSE s
AllDigits(s) == \A i \in DOMAIN s : IsDigit(s[i])
DecimalValue(s) == FoldLeft(LAMBDA n, c : 10 * n + DigitValue(c), 0, s)
SignOf(s) == IF s # <<>> /\ s[1] = "-" THEN -1 ELSE 1
SignedValue(s) == SignOf(s) * DecimalValue(Unsigned(s))

FirstDifference(s, t) ==
    {i \in (DOMAIN s) \cap (DOMAIN t) : s[i] # t[i] /\ \A j \in 1 .. (i - 1) : s[j] = t[j]}
varstr_cmp(s, t) ==
    LET d == FirstDifference(s, t) IN
    IF d = {} THEN Sign(Len(s) - Len(t))
    ELSE LET i == CHOOSE j \in d : TRUE IN Sign(Rank(s[i]) - Rank(t[i]))

\* keys of an object are sorted by length first
length_compare_agtype_string_value(s, t) ==
    IF Len(s) = Len(t) THEN varstr_cmp(s, t) ELSE Sign(Len(s) - Len(t))
KeyBefore(s, t) == length_compare_agtype_string_value(s, t) < 0
SortedKeys(f) == SetToSortSeq(DOMAIN f, KeyBefore)

(* Pairs in the order they were given become an object: of equal keys the  *)
(* one given last is first in the sorted array, and the first is kept.     *)
KeepFirstOfEqual(pairs) ==
    [k \in {pairs[i][1] : i \in DOMAIN pairs} |->
       pairs[CHOOSE i \in DOMAIN pairs :
               pairs[i][1] = k /\ \A j \in 1 .. (i - 1) : pairs[j][1] # k][2]]
uniqueify_agtype_object(pairs) ==
    [k \in {pairs[i][1] : i \in DOMAIN pairs} |->
       pairs[CHOOSE i \in DOMAIN pairs :
               pairs[i][1] = k /\ \A j \in (i + 1) .. Len(pairs) : pairs[j][1] # k][2]]

-----------------------------------------------------------------------------
(* The iterator, as the stream of tokens agtype_iterator_next returns when *)
(* nested containers are entered.  A scalar is stored as an array of one,  *)
(* marked raw by a third component.                                        *)
IsRaw(v) == Len(v) = 3
AsRoot(v) == IF IsScalar(v) THEN <<"array", <<v>>, "raw">> ELSE v

RECURSIVE TokensOf(_, _)
TokensOf(v, role) ==
    IF IsArray(v)
    THEN <<<<"BEGIN_ARRAY", v>>>> \o FlattenSeq([i \in DOMAIN Val(v) |-> TokensOf(Val(v)[i], "ELEM")])
         \o <<<<"END_ARRAY", v>>>>
    ELSE IF IsObject(v)
    THEN LET ks == SortedKeys(Val(v)) IN
         <<<<"BEGIN_OBJECT", v>>>>
         \o FlattenSeq([i \in DOMAIN ks |->
                <<<<"KEY", String(ks[i])>>>> \o TokensOf(Val(v)[ks[i]], "VALUE")])
         \o <<<<"END_OBJECT", v>>>>
    ELSE <<<<role, v>>>>
agtype_iterator_next(v) == TokensOf(AsRoot(v), "ELEM")
IsEnd(t) == t[1] \in {"END_ARRAY", "END_OBJECT"}

(* The inverse: a stack of open containers, each a list of what was pushed; *)
(* an object's list holds keys and values in turn.                         *)
append_element(stack, v) ==
    LET top == Last(stack) IN [stack EXCEPT ![Len(stack)] = <<top[1], Append(top[2], v)>>]
Closed(top) ==
    IF top[1] = "array" THEN Array(top[2])
    ELSE Object(uniqueify_agtype_object(
           [i \in 1 .. (Len(top[2]) \div 2) |-> <<Val(top[2][2 * i - 1]), top[2][2 * i]>>]))

push_agtype_value(stack, t) ==
    IF t[1] = "BEGIN_ARRAY" THEN Append(stack, <<"array", <<>>>>)
    ELSE IF t[1] = "BEGIN_OBJECT" THEN Append(stack, <<"object", <<>>>>)
    ELSE IF ~IsEnd(t) THEN append_element(stack, t[2])
    ELSE LET v == Closed(Last(stack)) IN
         IF Len(stack) = 1 THEN <<v>> ELSE append_element(Front(stack), v)

FromTokens(q) == FoldLeft(push_agtype_value, <<>>, q)[1]

-----------------------------------------------------------------------------
(* The order of the B-tree.                                                *)
get_type_sort_priority(k) ==
    [path |-> 0, edge |-> 1, vertex |-> 2, object |-> 3, array |-> 4, string |-> 5,
     boolean |-> 6, numeric |-> 7, integer |-> 7, float |-> 7, null |-> 8][k]
ByPriority(j, k) == IF get_type_sort_priority(j) < get_type_sort_priority(k) THEN -1 ELSE 1

\* NaN is the largest code, so that the comparison of the codes is the order
compare_two_floats_orderability(h, k) == Sign(h - k)
\* DBL_DIG digits are fewer than Mantissa bits
float8_numeric(h) == IF Abs(h) >= Infinity THEN h ELSE RoundBits(h, 1, Mantissa - 1)
AsNumeric(v) == CASE Kind(v) = "integer" -> 2 * Val(v)
                  [] Kind(v) = "float" -> float8_numeric(Val(v))
                  [] Kind(v) = "numeric" -> Val(v)
AsFloat(v) == IF Kind(v) = "integer" THEN IntToFloat(Val(v)) ELSE Val(v)

\* the first of the outcomes that is not the neutral one decides
FirstOther(neutral, q) ==
    LET other == {i \in DOMAIN q : q[i] # neutral} IN
    IF other = {} THEN neutral ELSE q[CHOOSE i \in other : \A j \in other : i <= j]

RECURSIVE compare_agtype_scalar_values(_, _)
compare_agtype_scalar_values(a, b) ==
    LET k == Kind(a) IN
    IF k = Kind(b) THEN
        CASE k = "null" -> 0
          [] k = "string" -> varstr_cmp(Val(a), Val(b))
          [] k = "boolean" -> IF Val(a) = Val(b) THEN 0 ELSE IF Val(a) THEN 1 ELSE -1
          [] k \in {"integer", "numeric"} -> Sign(Val(a) - Val(b))
          [] k = "float" -> compare_two_floats_orderability(Val(a), Val(b))
          [] k \in {"vertex", "edge"} -> Sign(GraphId(a) - GraphId(b))
          [] k = "path" ->
               IF Len(Val(a)) # Len(Val(b)) THEN Sign(Len(Val(a)) - Len(Val(b)))
               ELSE FirstOther(0, [i \in DOMAIN Val(a) |->
                                     compare_agtype_scalar_values(Val(a)[i], Val(b)[i])])
    ELSE IF "numeric" \in {k, Kind(b)} THEN Sign(AsNumeric(a) - AsNumeric(b))
    ELSE compare_two_floats_orderability(AsFloat(a), AsFloat(b))

\* two tokens at the same place of their streams; the next one of each is
\* what an array that meets an object, or a raw scalar that meets an array, is
\* advanced to
SameToken(x, y, nx, ny) ==
    LET a == x[2]
        b == y[2]
    IN
    IF IsEnd(x) THEN 0
    ELSE IF Kind(a) # Kind(b) /\ ~(IsNumber(a) /\ IsNumber(b)) THEN ByPriority(Kind(a), Kind(b))
    ELSE IF IsScalar(a) THEN compare_agtype_scalar_values(a, b)
    ELSE IF IsArray(a) /\ IsRaw(a) # IsRaw(b)
    THEN IF IsRaw(a) THEN ByPriority(Kind(nx[2]), "array") ELSE ByPriority("array", Kind(ny[2]))
    ELSE 0

OtherToken(x, y, nx, ny) ==
    LET a == x[2]
        b == y[2]
    IN
    IF IsEnd(x) THEN -1
    ELSE IF IsEnd(y) THEN 1
    ELSE IF IsArray(a) /\ IsObject(b) THEN ByPriority(Kind(nx[2]), "object")
    ELSE IF IsObject(a) /\ IsArray(b) THEN ByPriority("object", Kind(ny[2]))
    ELSE ByPriority(Kind(a), Kind(b))

NextOf(s, i) == IF i < Len(s) THEN s[i + 1] ELSE s[i]
\* what each two tokens of the streams say
TokensCompared(p, q) ==
    [i \in (DOMAIN p) \cap (DOMAIN q) |->
       IF p[i][1] = q[i][1] THEN SameToken(p[i], q[i], NextOf(p, i), NextOf(q, i))
       ELSE OtherToken(p[i], q[i], NextOf(p, i), NextOf(q, i))]
compare_agtype_containers_orderability(a, b) ==
    FirstOther(0, TokensCompared(agtype_iterator_next(a), agtype_iterator_next(b)))

-----------------------------------------------------------------------------
(* Equality of scalars of one kind, in containment.  Of edges and paths it *)
(* is an error.                                                            *)
NoEquality == {"edge", "path"}
equals_agtype_scalar_value(a, b) ==
    IF Kind(a) = "vertex" THEN GraphId(a) = GraphId(b)
    ELSE IF Kind(a) = "float" THEN Val(a) = Val(b) /\ ~IsNaN(Val(a))
    ELSE a = b

\* without the last element
LastElementLeftOut(q, key) ==
    IF \E i \in 1 .. Len(q) - 1 : q[i] = key THEN "yes" ELSE "no"

\* "yes", "no" or "error": is the key in the array; the value of an object's key
find_agtype_value_from_array(q, key) ==
    LET same == {i \in DOMAIN q : Kind(q[i]) = Kind(key)} IN
    IF Kind(key) \in NoEquality /\ same # {} THEN "error"
    ELSE IF \E i \in same : equals_agtype_scalar_value(key, q[i]) THEN "yes" ELSE "no"

HasKey(o, k) == k \in DOMAIN Val(o)

Decide(q) == FirstOther("yes", q)
FirstThatHolds(q) == FirstOther("no", q)

(* agtype_deep_contains.  skip: the values of a top object must be equal.  *)
RECURSIVE agtype_deep_contains(_, _, _)
ObjectContains(a, b, skip) ==
    LET ks == SortedKeys(Val(b))
        type(v) == IF IsScalar(v) THEN Kind(v) ELSE "binary"
        equal(v, w) == IF Kind(v) \in NoEquality THEN "error"
                       ELSE IF equals_agtype_scalar_value(v, w) THEN "yes" ELSE "no"
        same(v, w) == IF compare_agtype_containers_orderability(v, w) = 0 THEN "yes" ELSE "no"
        matches(v, w) == IF type(v) # type(w) THEN "no"
                         ELSE IF IsScalar(v) THEN equal(v, w)
                         ELSE IF skip THEN same(v, w)
                         ELSE agtype_deep_contains(v, w, FALSE)
        holds(k) == IF HasKey(a, k) THEN matches(Val(a)[k], Val(b)[k]) ELSE "no"
    IN  IF Cardinality(DOMAIN Val(a)) < Cardinality(DOMAIN Val(b)) THEN "no"
        ELSE Decide([i \in DOMAIN ks |-> holds(ks[i])])

ArrayContains(a, b) ==
    LET nested == SelectSeq(Val(a), LAMBDA v : ~IsScalar(v))
        holds(v) == IF IsScalar(v) THEN find_agtype_value_from_array(Val(a), v)
                    ELSE FirstThatHolds([i \in DOMAIN nested |->
                                          agtype_deep_contains(nested[i], v, FALSE)])
    IN  IF IsRaw(a) /\ ~IsRaw(b) THEN "no"
        ELSE Decide([i \in DOMAIN Val(b) |-> holds(Val(b)[i])])

agtype_deep_contains(a, b, skip) ==
    IF Kind(a) # Kind(b) THEN "no"
    ELSE IF IsObject(a) THEN ObjectContains(a, b, skip) ELSE ArrayContains(a, b)

DeepContains(a, b, skip) == agtype_deep_contains(AsRoot(a), AsRoot(b), skip)

-----------------------------------------------------------------------------
(* Hashes, as the term that is hashed: two values hash alike when their    *)
(* terms are equal.  An entity is hashed by its id, as an integer is.      *)
RECURSIVE agtype_hash_scalar_value_extended(_)
agtype_hash_scalar_value_extended(v) ==
    CASE Kind(v) \in {"vertex", "edge"} -> Integer(GraphId(v))
      [] Kind(v) = "path" -> Array([i \in DOMAIN Val(v) |->
                                      agtype_hash_scalar_value_extended(Val(v)[i])])
      [] OTHER -> v

HashedToken(t) == IF t[1] \in {"KEY", "VALUE", "ELEM"}
                  THEN <<t[1], agtype_hash_scalar_value_extended(t[2])>> ELSE <<t[1]>>
HashedTokens(q) == [i \in DOMAIN q |-> HashedToken(q[i])]
agtype_hash_cmp(v) == HashedTokens(agtype_iterator_next(v))

-----------------------------------------------------------------------------
(* The entries of a container on disk: the length of an element's data, or, *)
(* at every Stride-th, the offset of its end; both are found again.        *)
Sums(lens, i) == FoldLeft(LAMBDA x, y : x + y, 0, SubSeq(lens, 1, i))
\* with the offset of the beginning in place of that of the end
OffsetOfBeginning(lens) ==
    [i \in DOMAIN lens |-> IF (i - 1) % Stride = 0 THEN [off |-> TRUE, n |-> Sums(lens, i - 1)]
                           ELSE [off |-> FALSE, n |-> lens[i]]]
convert_agtype_array(lens) ==
    [i \in DOMAIN lens |-> IF (i - 1) % Stride = 0 THEN [off |-> TRUE, n |-> Sums(lens, i)]
                           ELSE [off |-> FALSE, n |-> lens[i]]]
\* the keys, in their order, and then the values, counted on from the keys
convert_agtype_object(keys, values) == convert_agtype_array(keys \o values)

get_agtype_offset(es, i) ==
    LET offs == {j \in 1 .. (i - 1) : es[j].off}
        from == IF offs = {} THEN 1 ELSE CHOOSE j \in offs : \A k \in offs : k <= j
    IN  Sums([j \in DOMAIN es |-> IF j < from THEN 0 ELSE es[j].n], i - 1)

get_agtype_length(es, i) ==
    IF es[i].off THEN es[i].n - get_agtype_offset(es, i) ELSE es[i].n

=============================================================================
