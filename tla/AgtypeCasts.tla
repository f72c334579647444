---------------------------- MODULE AgtypeCasts ----------------------------
(***************************************************************************)
(* Conversions of agtype: the SQL casts, the typecasts "::" of Cypher, the *)
(* functions to...() and their list forms, and the builders of values from *)
(* arguments.  Each of the three families has rules of its own.            *)
(***************************************************************************)
EXTENDS AgtypeText

\* PG_INT16_MAX, narrower than INT_MAX
Int16Max == Int32Max \div 2

\* the outcomes of the elements, or Error when one of them is
AllOrError(q, build(_)) == IF Error \in Range(q) THEN Error ELSE build(q)

-----------------------------------------------------------------------------
(* Numbers into integers of a width: floats to the nearest, ties to even;  *)
(* numerics to the nearest, ties away from zero.                           *)
RoundEven(h) == IF h % 2 = 0 THEN h \div 2
                ELSE LET low == h \div 2 IN IF low % 2 = 0 THEN low ELSE low + 1
IntegerUpTo(i, max) == IF i \in (-max - 1) .. max THEN Integer(i) ELSE Error
dtoi(h, max) == IF ~Finite(h) THEN Error ELSE IntegerUpTo(RoundEven(h), max)
numeric_int(h, max) == IF ~Finite(h) THEN Error ELSE IntegerUpTo(RoundNumeric(h, 2), max)
ToWidth(v, max) ==
    CASE Kind(v) = "integer" -> IntegerUpTo(Val(v), max)
      [] Kind(v) = "float" -> dtoi(Val(v), max)
      [] Kind(v) = "numeric" -> numeric_int(Val(v), max)
      [] Kind(v) = "boolean" -> Integer(IF Val(v) THEN 1 ELSE 0)
      [] OTHER -> Error

(* The SQL casts: a string is read as the text of an agtype scalar.        *)
CastToInteger(arg, max) ==
    LET v == get_one_agtype_from_variadic_args(arg) IN
    IF v = SqlNull THEN SqlNull
    ELSE ToWidth(IF Kind(v) = "string" THEN ScalarFromString(Val(v)) ELSE v, max)
agtype_to_int8(v) == CastToInteger(v, IntMax)
agtype_to_int4(v) == CastToInteger(v, Int32Max)
agtype_to_int2(v) == CastToInteger(v, Int16Max)

agtype_to_bool(v) == IF v = SqlNull THEN SqlNull ELSE IF Kind(v) = "boolean" THEN v ELSE Error

\* an integer goes through its text, so that it is rounded once
NumberToFloat(v) ==
    CASE Kind(v) = "integer" -> float8in(int8out(Val(v)))
      [] Kind(v) = "float" -> v
      [] Kind(v) = "numeric" -> IF Finite(RoundFloat(Val(v))) THEN Float(RoundFloat(Val(v))) ELSE Error
      [] Kind(v) = "string" -> float8in(Val(v))
      [] OTHER -> Error
agtype_to_float8(v) == IF v = SqlNull THEN SqlNull ELSE NumberToFloat(v)

agtype_to_text(arg) ==
    LET v == get_one_agtype_from_variadic_args(arg) IN
    IF v = SqlNull THEN SqlNull
    ELSE IF ~IsScalar(v) THEN <<"text", agtype_out(v)>> ELSE agtype_value_to_text(v)
text_to_agtype(s) == IF s = SqlNull THEN SqlNull ELSE String(Val(s))

\* json_in refuses infinities and NaN
agtype_to_json(v) ==
    LET q == agtype_to_cstring_worker(v, FALSE)
        refused == {<<"WORD", <<"N">>>>, <<"WORD", <<"I">>>>, <<"WORD", <<"-", "I">>>>}
    IN  IF v = SqlNull THEN SqlNull
        ELSE IF IsNumber(v) \/ Kind(v) = "boolean" \/ Range(q) \cap refused # {} THEN Error
        ELSE <<"json", q>>

bool_to_agtype(b) == Bool(b)
float8_to_agtype(h) == Float(h)
int8_to_agtype(i) == Integer(i)
int4_to_agtype(i) == Integer(i)

\* what is no number and no string is 0
int4in(s) == LET i == int8in(s) IN IF i = Error THEN Error ELSE IntegerUpTo(Val(i), Int32Max)
ToInt4(v) ==
    CASE IsNumber(v) -> ToWidth(v, Int32Max)
      [] Kind(v) = "string" -> int4in(Val(v))
      [] OTHER -> Integer(0)
agtype_to_int4_array(v) ==
    IF v = SqlNull THEN SqlNull
    ELSE IF IsObject(v) THEN Error
    ELSE AllOrError([i \in DOMAIN Val(AsRoot(v)) |-> ToInt4(Val(AsRoot(v))[i])],
                    LAMBDA q : <<"int4[]", q>>)

-----------------------------------------------------------------------------
(* The typecasts of Cypher.                                                *)
Typecast(arg, cast(_)) ==
    LET v == get_one_agtype_from_variadic_args(arg) IN IF v = SqlNull THEN SqlNull ELSE cast(v)
\* int4_bool: an integer loses its upper half
int4_bool(i) == Wrap32(i) # 0

agtype_typecast_numeric(arg) == Typecast(arg, LAMBDA v :
    CASE Kind(v) = "integer" -> Numeric(2 * Val(v))
      [] Kind(v) = "float" -> Numeric(float8_numeric(Val(v)))
      [] Kind(v) = "numeric" -> v
      [] Kind(v) = "string" -> numeric_in(Val(v))
      [] OTHER -> Error)
agtype_typecast_int(arg) == Typecast(arg, LAMBDA v :
    IF Kind(v) = "string" THEN int8in(Val(v)) ELSE ToWidth(v, IntMax))
agtype_typecast_bool(arg) == Typecast(arg, LAMBDA v :
    CASE Kind(v) = "boolean" -> v
      [] Kind(v) = "integer" -> Bool(int4_bool(Val(v)))
      [] OTHER -> Error)
agtype_typecast_float(arg) == Typecast(arg, NumberToFloat)

-----------------------------------------------------------------------------
(* Builders.  args is the sequence of arguments, each a value or SqlNull.  *)
PropertiesOf(props, build(_)) ==
    IF props = SqlNull THEN build(Object([k \in {} |-> Null]))
    ELSE IF IsObject(props) THEN build(props) ELSE Error
\* a label is a string of characters
_agtype_build_vertex(id, label, props) ==
    IF id = SqlNull THEN SqlNull
    ELSE IF label = SqlNull THEN Error
    ELSE PropertiesOf(props, LAMBDA p : Vertex(Val(id), Val(label), p))
_agtype_build_edge(id, start, end, label, props) ==
    IF id = SqlNull THEN SqlNull
    ELSE IF SqlNull \in {label, start, end} THEN Error
    ELSE PropertiesOf(props, LAMBDA p : Edge(Val(id), Val(label), Val(end), Val(start), p))
agtype_value_build_vertex(id, label, props) == Vertex(id, label, props)
agtype_value_build_edge(id, label, end, start, props) == Edge(id, label, end, start, props)

\* the casts to an entity: all the keys, in lower case, and no other
agtype_typecast_vertex(arg) == Typecast(arg, LAMBDA v :
    IF IsObject(v) /\ Cardinality(DOMAIN Val(v)) = 3
       /\ \A k \in {IdKey, LabelKey} : HasKey(v, k) /\ Kind(Val(v)[k]) = VertexTypes[k]
       /\ HasKey(v, PropertiesKey) /\ ~IsScalar(Val(v)[PropertiesKey])
    THEN _agtype_build_vertex(Val(v)[IdKey], Val(v)[LabelKey], Val(v)[PropertiesKey])
    ELSE Error)
agtype_typecast_edge(arg) == Typecast(arg, LAMBDA v :
    IF IsObject(v) /\ Cardinality(DOMAIN Val(v)) = 5
       /\ \A k \in {IdKey, LabelKey, EndKey, StartKey} :
             HasKey(v, k) /\ Kind(Val(v)[k]) = EdgeTypes[k]
       /\ HasKey(v, PropertiesKey) /\ ~IsScalar(Val(v)[PropertiesKey])
    THEN _agtype_build_edge(Val(v)[IdKey], Val(v)[StartKey], Val(v)[EndKey], Val(v)[LabelKey],
                            Val(v)[PropertiesKey])
    ELSE Error)
\* unlike the annotation, not a path of a single vertex
agtype_typecast_path(arg) == Typecast(arg, LAMBDA v :
    IF IsArray(v) /\ Len(Val(v)) >= 3 /\ is_array_path(Val(v)) THEN Path(Val(v)) ELSE Error)

(* A path from its vertices and edges; what a variable length match bound  *)
(* is a path already: it stands alone, or between its two ends gives its   *)
(* inner elements, of which a path of no edge has none and one end only.   *)
PathPart(at, arg) ==
    LET odd == at.place % 2 = 1
        next == [at EXCEPT !.place = @ + 1]
    IN
    CASE at.failed \/ arg = SqlNull -> [next EXCEPT !.failed = TRUE]
      [] ~at.failed /\ odd /\ Kind(arg) = "vertex" ->
            IF at.skip THEN [next EXCEPT !.skip = FALSE] ELSE [next EXCEPT !.built = Append(@, arg)]
      [] ~at.failed /\ ~odd /\ Kind(arg) = "edge" -> [next EXCEPT !.built = Append(@, arg)]
      [] ~at.failed /\ ~odd /\ Kind(arg) = "path" ->
            IF Len(Val(arg)) = 1 THEN [next EXCEPT !.skip = TRUE]
            ELSE [next EXCEPT !.built = @ \o SubSeq(Val(arg), 2, Len(Val(arg)) - 1)]
      [] OTHER -> [next EXCEPT !.failed = TRUE]
_agtype_build_path(args) ==
    LET nulls == {i \in DOMAIN args : args[i] = SqlNull}
        whole == {i \in DOMAIN args : Kind(args[i]) = "path" /\ \A j \in nulls : i < j}
        r == FoldLeft(PathPart, [built |-> <<>>, place |-> 1, skip |-> FALSE, failed |-> FALSE], args)
    IN  IF args = <<>> THEN Error
        ELSE IF Len(args) <= 3 /\ whole # {} THEN args[CHOOSE i \in whole : \A j \in whole : i <= j]
        ELSE IF Len(args) % 2 = 0 \/ r.failed THEN Error
        ELSE Path(r.built)
make_path(q) == IF is_array_path(q) THEN Path(q) ELSE Error

(* Maps and lists.  The text of a key must not be null; of equal keys the  *)
(* last one given stays; the form without nulls drops them at the end.     *)
tostring_helper(v) ==
    CASE v = SqlNull -> SqlNull
      [] v # SqlNull /\ IsScalar(v) -> agtype_value_to_text(v)
      [] OTHER -> Error
OrNull(v) == IF v = SqlNull THEN Null ELSE v
agtype_build_map_as_agtype_value(args) ==
    LET n == Len(args) \div 2
        keys == [i \in 1 .. n |-> tostring_helper(args[2 * i - 1])]
        pairs == [i \in 1 .. n |-> <<Val(keys[i]), OrNull(args[2 * i])>>]
    IN  IF Len(args) % 2 = 1 \/ Range(keys) \cap {SqlNull, Error} # {} THEN Error
        ELSE Object(uniqueify_agtype_object(pairs))
agtype_build_map(args) == agtype_build_map_as_agtype_value(args)
remove_null_from_agtype_object(o) ==
    IF ~IsObject(o) THEN Error
    ELSE Object([k \in {j \in DOMAIN Val(o) : Val(o)[j] # Null} |-> Val(o)[k]])
agtype_build_map_nonull(args) ==
    LET o == agtype_build_map_as_agtype_value(args) IN
    IF o = Error THEN Error ELSE remove_null_from_agtype_object(o)
\* with the NULL of SQL as an element
ListWithNulls(args) == Array(args)
agtype_build_list(args) == Array([i \in DOMAIN args |-> OrNull(args[i])])


-----------------------------------------------------------------------------
(* to...(): a value that does not convert is null, one of a wrong type,    *)
(* the null of agtype among them, is an error.                             *)
Function(v, f(_)) == IF v = SqlNull THEN SqlNull ELSE f(v)
IsWord(s, word) == Lower(s) = word

age_toboolean(arg) == Function(arg, LAMBDA v :
    CASE Kind(v) = "boolean" -> v
      [] Kind(v) = "integer" -> Bool(int4_bool(Val(v)))
      [] Kind(v) = "string" -> IF IsWord(Val(v), WordTrue) THEN Bool(TRUE)
                               ELSE IF IsWord(Val(v), WordFalse) THEN Bool(FALSE) ELSE SqlNull
      [] OTHER -> Error)

OrSqlNull(v) == IF v = Error THEN SqlNull ELSE v
age_tofloat(arg) == Function(arg, LAMBDA v :
    CASE Kind(v) = "numeric" -> Float(RoundFloat(Val(v)))
      [] Kind(v) \in {"integer", "float", "string"} -> OrSqlNull(NumberToFloat(v))
      [] OTHER -> Error)

(* A float is truncated.  The largest int64 is no float: the float next to *)
(* it passes the test and overflows the conversion.                        *)
FloatToInteger(h) ==
    IF ~Finite(h) \/ h < IntToFloat(IntMin) \/ h > IntToFloat(IntMax) THEN SqlNull
    ELSE Integer(FloatToInt(h))
\* strtoi64 stops at the first character that is no digit and saturates
Saturated(i) == IF i > IntMax THEN IntMax ELSE IF i < IntMin THEN IntMin ELSE i
age_tointeger(arg) == Function(arg, LAMBDA v :
    LET s == StripLeft(Val(v))
        f == float8in(Val(v))
    IN
    CASE Kind(v) = "integer" -> v
      [] Kind(v) = "float" -> FloatToInteger(Val(v))
      [] Kind(v) = "numeric" -> FloatToInteger(RoundFloat(Val(v)))
      [] Kind(v) = "string" ->
            IF Val(v) = <<>> THEN Integer(0)
            ELSE IF IsInteger(s) THEN Integer(Saturated(SignedValue(s)))
            ELSE IF f = Error THEN SqlNull ELSE FloatToInteger(Val(f))
      [] OTHER -> Error)

age_tostring(v) == tostring_helper(v)

-----------------------------------------------------------------------------
(* The list forms: an element that does not convert, or of a wrong type,   *)
(* is null; so is an empty list.                                           *)
ListFunction(v, f(_)) ==
    IF v = SqlNull THEN SqlNull
    ELSE IF ~IsList(v) THEN Error
    ELSE IF Val(v) = <<>> THEN SqlNull
    ELSE Array([i \in DOMAIN Val(v) |-> f(Val(v)[i])])

ElementToBoolean(v) ==
    CASE Kind(v) = "boolean" -> v
      [] Kind(v) = "integer" -> Bool(int4_bool(Val(v)))
      [] Kind(v) = "string" -> IF IsWord(Val(v), WordTrue) THEN Bool(TRUE)
                               ELSE IF IsWord(Val(v), WordFalse) THEN Bool(FALSE) ELSE Null
      [] OTHER -> Null
age_tobooleanlist(arg) == ListFunction(arg, ElementToBoolean)

\* atof: the number a string begins with, 0 if none
Beginnings(s) == {SubSeq(s, 1, n) : n \in 1 .. Len(s)}
atof(s) ==
    LET t == StripLeft(s)
        numbers == {p \in Beginnings(t) : IsInteger(p) \/ IsDecimal(p)}
    IN  CASE float8in(t) \in {Float(Infinity), Float(-Infinity), Float(NaN)} -> Val(float8in(t))
          [] numbers # {} -> Halves(CHOOSE p \in numbers : \A q \in numbers : Len(q) <= Len(p))
          [] OTHER -> 0
\* a number followed by something else becomes 0, and 0 becomes null
ElementToFloat(v) ==
    CASE Kind(v) = "float" -> v
      [] Kind(v) = "string" ->
            IF atof(Val(v)) = 0 THEN Null
            ELSE IF float8in(Val(v)) = Error THEN Float(0) ELSE float8in(Val(v))
      [] OTHER -> Null
age_tofloatlist(arg) == ListFunction(arg, ElementToFloat)

\* atoi, and everything through an int: the upper half is lost
Int32Of(h) == IF Finite(h) /\ Truncate(h) \in (-Int32Max - 1) .. Int32Max THEN Truncate(h)
              ELSE -Int32Max - 1
\* a sign or a digit, then digits and at most one point
LooksInteger(s) ==
    /\ s # <<>> /\ (IsSign(s[1]) \/ IsDigit(s[1]))
    /\ \A i \in 2 .. Len(s) : IsDigit(s[i]) \/ s[i] = "."
    /\ Cardinality({i \in DOMAIN s : s[i] = "."}) <= 1
WholePart(s) == LET p == Point(s) IN IF p = 0 THEN s ELSE SubSeq(s, 1, p - 1)
ElementToInteger(v) ==
    CASE Kind(v) = "integer" -> Integer(Wrap32(Val(v)))
      [] Kind(v) = "float" -> Integer(Int32Of(Val(v)))
      [] Kind(v) = "string" -> IF LooksInteger(Val(v))
                               THEN Integer(Wrap32(Saturated(SignedValue(WholePart(Val(v))))))
                               ELSE Null
      [] OTHER -> Null
age_tointegerlist(arg) == ListFunction(arg, ElementToInteger)

ElementToString(v) ==
    IF Kind(v) \in {"string", "float", "integer"} THEN agtype_value_to_text(v) ELSE Null
age_tostringlist(arg) == ListFunction(arg, ElementToString)

=============================================================================
