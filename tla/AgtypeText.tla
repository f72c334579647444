----------------------------- MODULE AgtypeText -----------------------------
(***************************************************************************)
(* The text of agtype: agtype_out and the parser of agtype_in.  A text is  *)
(* a sequence of tokens: punctuation, <<"STRING", escaped characters>>,    *)
(* <<"WORD", characters>> (a number, true, false or null) and              *)
(* <<"NAME", word>> (what follows "::").  Spaces and indentation, and the  *)
(* exponents of numbers, are left out.                                     *)
(***************************************************************************)
EXTENDS AgtypeOps

WordTrue  == <<"t", "r", "u", "e">>
WordFalse == <<"f", "a", "l", "s", "e">>
WordNull  == <<"n", "u", "l", "l">>

\* the keys of an entity, by an initial of their own
IdKey         == <<"i">>
LabelKey      == <<"l">>
EndKey        == <<"e">>
StartKey      == <<"s">>
PropertiesKey == <<"r">>

-----------------------------------------------------------------------------
(* Numbers in text: float8in, numeric_in and int8in of PostgreSQL, for     *)
(* fractions of one digit, 0 or 5.                                         *)
StripLeft(s) ==
    LET i == SelectInSeq(s, LAMBDA c : c # " ") IN
    IF i = 0 THEN <<>> ELSE SubSeq(s, i, Len(s))
StripRight(s) == Reverse(StripLeft(Reverse(s)))
Stripped(s) == StripLeft(StripRight(s))

Point(s) == SelectInSeq(s, LAMBDA c : c = ".")
IsInteger(s) == Unsigned(s) # <<>> /\ AllDigits(Unsigned(s))
IsDecimal(s) ==
    LET u == Unsigned(s)
        p == Point(u)
    IN  p > 0 /\ Len(u) > 1 /\ AllDigits(SubSeq(u, 1, p - 1) \o SubSeq(u, p + 1, Len(u)))
\* the number in halves
Halves(s) ==
    LET u == Unsigned(s)
        p == Point(u)
    IN  IF p = 0 THEN 2 * SignedValue(s)
        ELSE SignOf(s) * (2 * DecimalValue(SubSeq(u, 1, p - 1))
                          + IF p < Len(u) /\ u[p + 1] = "5" THEN 1 ELSE 0)

float8in(s) ==
    LET t == Stripped(s) IN
    CASE Unsigned(t) = <<"I">> -> Float(SignOf(t) * Infinity)
      [] t = <<"N">> -> Float(NaN)
      [] IsInteger(t) \/ IsDecimal(t) ->
            IF Finite(RoundFloat(Halves(t))) THEN Float(RoundFloat(Halves(t))) ELSE Error
      [] OTHER -> Error
numeric_in(s) ==
    LET t == Stripped(s) IN
    CASE Unsigned(t) = <<"I">> -> Numeric(SignOf(t) * Infinity)
      [] t = <<"N">> -> Numeric(NaN)
      [] IsInteger(t) \/ IsDecimal(t) -> Numeric(Halves(t))
      [] OTHER -> Error
int8in(s) ==
    LET t == Stripped(s) IN
    IF IsInteger(t) /\ SignedValue(t) \in IntMin .. IntMax THEN Integer(SignedValue(t)) ELSE Error

-----------------------------------------------------------------------------
(* Output.  Inside a string, quotes, backslashes and control characters    *)
(* are escaped.                                                            *)
BackslashKept(c) ==
    CASE c = "\"" -> <<"\\", c>>
      [] c = "\n" -> <<"\\", "n">>
      [] c = "^A" -> <<"\\", "u", "0001">>
      [] OTHER -> <<c>>

Escaped(c) ==
    CASE c \in {"\"", "\\"} -> <<"\\", c>>
      [] c = "\n" -> <<"\\", "n">>
      [] c = "^A" -> <<"\\", "u", "0001">>
      [] OTHER -> <<c>>

escape_agtype(s) == <<"STRING", FlattenSeq([i \in DOMAIN s |-> Escaped(s[i])])>>

\* an entity is printed as the object of its pairs
EntityPairs(v) ==
    LET c == Val(v) IN
    IF Kind(v) = "vertex"
    THEN << <<IdKey, Integer(c[1])>>, <<LabelKey, String(c[2])>>, <<PropertiesKey, c[3]>> >>
    ELSE << <<IdKey, Integer(c[1])>>, <<LabelKey, String(c[2])>>, <<EndKey, Integer(c[3])>>,
            <<StartKey, Integer(c[4])>>, <<PropertiesKey, c[5]>> >>

Separated(q) == \* q: the tokens of each element
    FlattenSeq([i \in DOMAIN q |-> (IF i = 1 THEN <<>> ELSE << <<",">> >>) \o q[i]])
Braced(open, q, close) == << <<open>> >> \o Separated(q) \o << <<close>> >>

RECURSIVE agtype_to_cstring_worker(_, _)
Annotated(v, extend, q) ==
    q \o IF extend THEN << <<"::">>, <<"NAME", Kind(v)>> >> ELSE <<>>
PairTokens(ps, extend) ==
    [i \in DOMAIN ps |-> <<escape_agtype(ps[i][1]), <<":">> >>
                         \o agtype_to_cstring_worker(ps[i][2], extend)]
agtype_put_escaped_value(v, extend) ==
    CASE Kind(v) = "null" -> << <<"WORD", WordNull>> >>
      [] Kind(v) = "string" -> <<escape_agtype(Val(v))>>
      [] Kind(v) = "boolean" -> << <<"WORD", IF Val(v) THEN WordTrue ELSE WordFalse>> >>
      [] Kind(v) \in {"integer", "float"} -> << <<"WORD", get_string_from_agtype_value(v)>> >>
      [] Kind(v) = "numeric" ->
            Annotated(v, extend, << <<"WORD", get_string_from_agtype_value(v)>> >>)
      [] IsEntity(v) -> Annotated(v, extend, Braced("{", PairTokens(EntityPairs(v), extend), "}"))
      [] Kind(v) = "path" -> Annotated(v, extend, agtype_to_cstring_worker(Array(Val(v)), extend))

agtype_to_cstring_worker(v, extend) ==
    IF IsArray(v)
    THEN Braced("[", [i \in DOMAIN Val(v) |-> agtype_to_cstring_worker(Val(v)[i], extend)], "]")
    ELSE IF IsObject(v) THEN Braced("{", PairTokens(Pairs(Val(v)), extend), "}")
    ELSE agtype_put_escaped_value(v, extend)

agtype_out(v) == agtype_to_cstring_worker(v, TRUE)
agtype_send(v) == <<1, agtype_to_cstring_worker(v, TRUE)>>

-----------------------------------------------------------------------------
(* Lexing.  Of a string the state is what was read, the escape that is     *)
(* open and a high surrogate that waits for its low one.                   *)
HexEscapes == [x \in {"0000", "0001", "0041", "d83d", "de00"} |->
    CASE x = "0000" -> "refused" [] x = "0001" -> "^A" [] x = "0041" -> "A"
      [] x = "d83d" -> "high" [] OTHER -> "low"]
ControlOf == [c \in {"\"", "\\", "/", "b", "f", "n", "r", "t"} |->
                IF c = "n" THEN "\n" ELSE IF c \in {"b", "f", "r", "t"} THEN "^" \o c ELSE c]

LexStep(at, c) ==
    LET put(x) == [at EXCEPT !.read = Append(@, x), !.mode = "text"]
        refuse == [at EXCEPT !.mode = "refused"]
        hex == IF c \in DOMAIN HexEscapes THEN HexEscapes[c] ELSE "refused"
    IN
    CASE at.mode = "refused" -> at
      [] at.mode = "text" /\ c = "\\" -> [at EXCEPT !.mode = "escape"]
      [] at.mode = "text" /\ c # "\\" ->
            IF c \in {"\"", "\n", "^A"} \/ at.high THEN refuse ELSE put(c)
      [] at.mode = "escape" /\ c = "u" -> [at EXCEPT !.mode = "hex"]
      [] at.mode = "escape" /\ c # "u" ->
            IF at.high \/ c \notin DOMAIN ControlOf THEN refuse ELSE put(ControlOf[c])
      [] at.mode = "hex" ->
            IF hex = "high"
            THEN IF at.high THEN refuse ELSE [at EXCEPT !.mode = "text", !.high = TRUE]
            ELSE IF hex = "refused" \/ (hex = "low") # at.high THEN refuse
            ELSE [put(IF hex = "low" THEN "pair" ELSE hex) EXCEPT !.high = FALSE]

agtype_lex_string(q) ==
    LET r == FoldLeft(LexStep, [read |-> <<>>, mode |-> "text", high |-> FALSE], q) IN
    IF r.mode # "text" \/ r.high THEN Error ELSE String(r.read)

\* no sign but "-", no leading zero, digits on both sides of the point
agtype_lex_number(s) ==
    LET u == IF s # <<>> /\ s[1] = "-" THEN Tail(s) ELSE s
        p == Point(u)
        whole == IF p = 0 THEN u ELSE SubSeq(u, 1, p - 1)
        part == IF p = 0 THEN <<>> ELSE SubSeq(u, p + 1, Len(u))
    IN  IF whole = <<>> \/ ~AllDigits(whole \o part) \/ (whole[1] = "0" /\ Len(whole) > 1)
           \/ (p > 0 /\ part = <<>>) THEN "INVALID"
        ELSE IF p = 0 THEN "INTEGER" ELSE "FLOAT"

agtype_lex(s) ==
    CASE s = WordTrue -> "TRUE"
      [] s = WordFalse -> "FALSE"
      [] s = WordNull -> "NULL"
      [] s \in {<<"N">>, <<"I">>, <<"-", "I">>} -> "FLOAT"
      [] OTHER -> agtype_lex_number(s)

-----------------------------------------------------------------------------
(* Scalars: what is read and the annotation that follows it.               *)
agtype_in_scalar(type, chars, annotation) ==
    LET t == IF annotation = "" \/ type \in {"NULL", "INVALID"} THEN type
             ELSE CASE annotation = "numeric" -> "NUMERIC" [] annotation = "integer" -> "INTEGER"
                    [] annotation = "float" -> "FLOAT" [] OTHER -> "INVALID"
    IN  CASE t = "STRING" -> String(chars)
          [] t = "INTEGER" -> int8in(chars)
          [] t = "FLOAT" -> float8in(chars)
          [] t = "NUMERIC" -> numeric_in(chars)
          [] t = "TRUE" -> Bool(TRUE)
          [] t = "FALSE" -> Bool(FALSE)
          [] t = "NULL" -> Null
          [] OTHER -> Error

(* Annotations of containers.  The keys of an entity are compared without  *)
(* regard to case; the values are taken by place.                          *)
Capitals == <<"A", "B", "E", "F", "I", "L", "N", "R", "S", "T", "U">>
Smalls   == <<"a", "b", "e", "f", "i", "l", "n", "r", "s", "t", "u">>
Lowered(c) == LET i == SelectInSeq(Capitals, LAMBDA d : d = c) IN IF i = 0 THEN c ELSE Smalls[i]
Lower(s) == [i \in DOMAIN s |-> Lowered(s[i])]
ByName(f) == [n \in {Lower(k) : k \in DOMAIN f} |-> f[CHOOSE k \in DOMAIN f : Lower(k) = n]]

HasTypes(f, types) ==
    /\ Cardinality(DOMAIN f) = Cardinality(DOMAIN types)
    /\ DOMAIN ByName(f) = DOMAIN types
    /\ \A n \in DOMAIN types : Kind(ByName(f)[n]) = types[n]
VertexTypes == (IdKey :> "integer") @@ (LabelKey :> "string") @@ (PropertiesKey :> "object")
EdgeTypes == VertexTypes @@ (EndKey :> "integer") @@ (StartKey :> "integer")
is_object_vertex(f) == HasTypes(f, VertexTypes)
is_object_edge(f) == HasTypes(f, EdgeTypes)
VertexOf(f) == Vertex(Val(f[IdKey]), Val(f[LabelKey]), f[PropertiesKey])
EdgeOf(f) ==
    Edge(Val(f[IdKey]), Val(f[LabelKey]), Val(f[EndKey]), Val(f[StartKey]), f[PropertiesKey])

\* an odd number of elements, vertices and edges in turn
Alternates(q) ==
    \A i \in DOMAIN q : Kind(q[i]) = IF i % 2 = 1 THEN "vertex" ELSE "edge"
is_array_path(q) == Len(q) % 2 = 1 /\ Alternates(q)

agtype_typecast_object(v, annotation) ==
    CASE annotation = "vertex" /\ is_object_vertex(Val(v)) -> VertexOf(ByName(Val(v)))
      [] annotation = "edge" /\ is_object_edge(Val(v)) -> EdgeOf(ByName(Val(v)))
      [] OTHER -> Error
agtype_typecast_array(v, annotation) ==
    IF annotation = "path" /\ is_array_path(Val(v)) THEN Path(Val(v)) ELSE Error
agtype_in_agtype_annotation(v, annotation) ==
    IF IsObject(v) THEN agtype_typecast_object(v, annotation) ELSE agtype_typecast_array(v, annotation)

-----------------------------------------------------------------------------
(* Recursive descent.  Each parser yields the value and the tokens left; a *)
(* refused text yields Error.                                              *)
Parsed(v, rest) == [value |-> v, rest |-> rest]
Refused == Parsed(Error, <<>>)
lex_peek(q) == IF q = <<>> THEN "END" ELSE q[1][1]
Failed(r) == r.value = Error

\* an annotation is "::" and a name
Annotation(q) == IF Len(q) > 1 /\ lex_peek(Tail(q)) = "NAME" THEN q[2][2] ELSE "invalid"
parse_annotation(v, q) ==
    IF lex_peek(q) # "::" THEN Parsed(v, q)
    ELSE Parsed(agtype_in_agtype_annotation(v, Annotation(q)), SubSeq(q, 3, Len(q)))

parse_scalar(q) ==
    LET string == lex_peek(q) = "STRING"
        rest == Tail(q)
        annotated == lex_peek(rest) = "::"
        annotation == IF annotated THEN Annotation(rest) ELSE ""
        chars == IF string THEN agtype_lex_string(q[1][2]) ELSE String(q[1][2])
    IN  IF lex_peek(q) \notin {"STRING", "WORD"} \/ chars = Error THEN Refused
        ELSE Parsed(agtype_in_scalar(IF string THEN "STRING" ELSE agtype_lex(q[1][2]),
                                     Val(chars), annotation),
                    IF annotated THEN SubSeq(rest, 3, Len(rest)) ELSE rest)

RECURSIVE parse_value(_), parse_array_element(_, _), parse_object_field(_, _)

\* after the element r
parse_array_rest(r, all) ==
    CASE Failed(r) -> Refused
      [] ~Failed(r) /\ lex_peek(r.rest) = "," -> parse_array_element(Tail(r.rest), all)
      [] ~Failed(r) /\ lex_peek(r.rest) = "]" -> parse_annotation(Array(all), Tail(r.rest))
      [] OTHER -> Refused
parse_array_with(r, got) == parse_array_rest(r, Append(got, r.value))
parse_array_element(q, got) == parse_array_with(parse_value(q), got)
parse_array(q) ==
    IF lex_peek(Tail(q)) = "]" THEN parse_annotation(Array(<<>>), SubSeq(q, 3, Len(q)))
    ELSE parse_array_element(Tail(q), <<>>)

\* after the value r of the key
parse_object_rest(key, r, got) ==
    LET all == Append(got, <<Val(key), r.value>>) IN
    CASE key = Error \/ Failed(r) -> Refused
      [] key # Error /\ ~Failed(r) /\ lex_peek(r.rest) = "," -> parse_object_field(Tail(r.rest), all)
      [] key # Error /\ ~Failed(r) /\ lex_peek(r.rest) = "}" ->
            parse_annotation(Object(uniqueify_agtype_object(all)), Tail(r.rest))
      [] OTHER -> Refused
parse_object_field(q, got) ==
    IF lex_peek(q) # "STRING" \/ lex_peek(Tail(q)) # ":" THEN Refused
    ELSE parse_object_rest(agtype_lex_string(q[1][2]), parse_value(SubSeq(q, 3, Len(q))), got)
parse_object(q) ==
    IF lex_peek(Tail(q)) = "}"
    THEN parse_annotation(Object(uniqueify_agtype_object(<<>>)), SubSeq(q, 3, Len(q)))
    ELSE parse_object_field(Tail(q), <<>>)

parse_value(q) ==
    CASE lex_peek(q) = "{" -> parse_object(q)
      [] lex_peek(q) = "[" -> parse_array(q)
      [] OTHER -> parse_scalar(q)

Complete(r) == IF r.rest # <<>> THEN Error ELSE r.value
parse_agtype(q) == Complete(parse_value(q))
agtype_value_from_cstring(q) == parse_agtype(q)
agtype_in(q) == agtype_value_from_cstring(q)
agtype_recv(message) == IF message[1] # 1 THEN Error ELSE agtype_in(message[2])

\* the text of a scalar, and a string read as the text of one
agtype_value_to_text(v) ==
    CASE Kind(v) \in {"integer", "numeric"} -> String(get_string_from_agtype_value(v))
      [] Kind(v) = "float" -> String(float8out(Val(v)))
      [] Kind(v) = "string" -> v
      [] Kind(v) = "boolean" -> String(IF Val(v) THEN WordTrue ELSE WordFalse)
      [] Kind(v) = "null" -> SqlNull
      [] OTHER -> Error
ScalarFromString(s) == agtype_value_from_cstring(<< <<"WORD", Stripped(s)>> >>)

=============================================================================
