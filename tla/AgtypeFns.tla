----------------------------- MODULE AgtypeFns -----------------------------
(***************************************************************************)
(* The functions of Cypher on entities, paths, lists and strings, and the  *)
(* conversion of SQL values to agtype.  Each function has its own rule for *)
(* the NULL of SQL and for the null of agtype: SqlNull, or an error.       *)
(***************************************************************************)
EXTENDS AgtypeCasts

CONSTANTS EntryIds,   \* entry ids of one label, 2^48
          OidMod,     \* values of an Oid, 2^32
          ListMax     \* elements a list has room for

ASSUME AgtypeFnsConstants ==
    EntryIds \in Nat \ {0} /\ OidMod \in 1 .. EntryIds /\ ListMax \in 0 .. IntMax

\* an argument that was not given
LeftOut == <<"left out">>
FirstOf(set) == CHOOSE i \in set : \A j \in set : i <= j

\* the null of agtype stands for NULL; what fails the test is an error
OfScalar(v, test(_), f(_)) ==
    CASE IsNull(v) -> SqlNull
      [] ~IsNull(v) /\ test(v) -> f(v)
      [] OTHER -> Error

-----------------------------------------------------------------------------
(* Entities and paths.                                                     *)
IsEdge(v)   == Kind(v) = "edge"
IsVertex(v) == Kind(v) = "vertex"
IsPath(v)   == Kind(v) = "path"
age_id(v)       == OfScalar(v, IsEntity, LAMBDA e : Integer(GraphId(e)))
age_end_id(v)   == OfScalar(v, IsEdge, LAMBDA e : Integer(Val(e)[3]))
age_start_id(v) == OfScalar(v, IsEdge, LAMBDA e : Integer(Val(e)[4]))
age_type(v)     == OfScalar(v, IsEdge, LAMBDA e : String(Label(e)))
age_labels(v)   == OfScalar(v, IsVertex, LAMBDA e : Array(<<String(Label(e))>>))
age_properties(v) == IF IsObject(v) THEN v ELSE OfScalar(v, IsEntity, Properties)
\* a list that begins with null passes for null, null itself does not.  The
\* first element of an empty list, which is none, is looked at: not asked here
age_label(v) ==
    CASE v = SqlNull -> SqlNull
      [] IsEntity(v) -> String(Label(v))
      [] IsArray(v) /\ Val(v) # <<>> /\ Val(v)[1] = Null -> SqlNull
      [] OTHER -> Error
age_length(v) == OfScalar(v, IsPath, LAMBDA p : Integer((Len(Val(p)) - 1) \div 2))
EveryOther(q, first) == [i \in 1 .. ((Len(q) - first) \div 2) + 1 |-> q[2 * (i - 1) + first]]
age_nodes(v) == OfScalar(v, IsPath, LAMBDA p : Array(EveryOther(Val(p), 1)))
age_relationships(v) == OfScalar(v, IsPath, LAMBDA p : Array(EveryOther(Val(p), 2)))

\* a graph: the name of each label id, and the rows <<id, properties>> of a table
get_graphid_label_id(id) == id \div EntryIds
get_label_name(g, id) ==
    LET l == get_graphid_label_id(id) IN
    IF l \in DOMAIN g.name THEN String(g.name[l]) ELSE Error
(* The scan compares graphids with the equality of Oids, which sees the    *)
(* lower half of them only; the first row of the table that matches is it. *)
SameOid(i, j) == i % OidMod = j % OidMod
get_vertex(g, label, id) ==
    LET rows == g.rows[label]
        i == SelectInSeq(rows, LAMBDA r : SameOid(r[1], id))
    IN  IF i = 0 THEN Error ELSE _agtype_build_vertex(Integer(rows[i][1]), String(label), rows[i][2])
NodeOf(g, id) ==
    LET label == get_label_name(g, id) IN
    IF label = Error THEN Error ELSE get_vertex(g, Val(label), id)
age_startnode(g, v) == OfScalar(v, IsEdge, LAMBDA e : NodeOf(g, Val(e)[4]))
age_endnode(g, v)   == OfScalar(v, IsEdge, LAMBDA e : NodeOf(g, Val(e)[3]))

graphid_to_agtype(id) == Integer(id)
agtype_to_graphid(v) ==
    CASE v = SqlNull -> SqlNull
      [] Kind(v) = "integer" -> <<"graphid", Val(v)>>
      [] OTHER -> Error

-----------------------------------------------------------------------------
(* Lists and maps.                                                         *)
OfList(v, f(_)) == CASE v = SqlNull -> SqlNull [] IsArray(v) -> f(Val(v)) [] OTHER -> Error
\* an agtype null that is returned is returned as NULL
OneOf(v) == IF v = Null THEN SqlNull ELSE v
age_head(v) == OfList(v, LAMBDA q : IF q = <<>> THEN SqlNull ELSE OneOf(q[1]))
age_last(v) == OfList(v, LAMBDA q : IF q = <<>> THEN SqlNull ELSE OneOf(q[Len(q)]))
age_tail(v) == OfList(v, LAMBDA q : IF Len(q) <= 1 THEN SqlNull ELSE Array(Tail(q)))

get_next_object_key(o, i) == LET ks == SortedKeys(Val(o)) IN IF i \in DOMAIN ks THEN ks[i] ELSE SqlNull
age_keys(v) ==
    LET o == age_properties(v) IN
    IF o \in {SqlNull, Error} THEN o
    ELSE Array([i \in 1 .. Cardinality(DOMAIN Val(o)) |-> String(get_next_object_key(o, i))])

\* the length of a string is that of its encoding, in bytes
Bytes(c) == IF c = "pair" THEN 4 ELSE 1
ByteLength(s) == FoldLeft(LAMBDA n, c : n + Bytes(c), 0, s)
age_size(v) ==
    CASE v = SqlNull -> SqlNull
      [] Kind(v) = "string" -> Integer(ByteLength(Val(v)))
      [] IsArray(v) -> Integer(Len(Val(v)))
      [] OTHER -> Error
age_isempty(v) ==
    CASE v = SqlNull -> SqlNull
      [] Kind(v) \in {"string", "array"} -> Bool(Val(v) = <<>>)
      [] IsObject(v) -> Bool(DOMAIN Val(v) = {})
      [] OTHER -> Error
age_exists(v) == Bool(v # SqlNull)

get_next_list_element(v, i) == IF i \in DOMAIN Val(v) THEN Val(v)[i] ELSE SqlNull
age_reverse(v) ==
    CASE IsNull(v) -> SqlNull
      [] Kind(v) = "string" -> String(Reverse(Val(v)))
      [] IsArray(v) -> LET n == Len(Val(v)) IN
                       Array([i \in 1 .. n |-> get_next_list_element(v, n + 1 - i)])
      [] OTHER -> Error

\* the rows of UNWIND; of a scalar, the scalar
age_unnest(v) ==
    CASE v = SqlNull -> <<>>
      [] IsObject(v) -> Error
      [] OTHER -> Val(AsRoot(v))

(* The loop ends when the index has passed the end.  The index is an int64 *)
(* that wraps: an end too close to the limit may never be passed, and the  *)
(* list grows until it can grow no more.                                   *)
get_int64_from_int_datums(v) == IF Kind(v) = "integer" THEN Val(v) ELSE 0
age_range(from, to, by) ==
    LET a == get_int64_from_int_datums(from)
        b == get_int64_from_int_datums(to)
        step == IF IsNull(by) THEN 1 ELSE get_int64_from_int_datums(by)
        at(n) == Wrap(a + n * step)
        ends == {n \in 0 .. ListMax : IF step > 0 THEN at(n) > b ELSE at(n) < b}
    IN  IF Kind(from) # "integer" \/ Kind(to) # "integer" \/ step = 0 THEN Error
        ELSE IF ends = {} THEN Error
        ELSE Array([n \in 1 .. FirstOf(ends) |-> Integer(at(n - 1))])

-----------------------------------------------------------------------------
(* Strings.                                                                *)
IsString(v) == Kind(v) = "string"
OfString(v, f(_)) == OfScalar(v, IsString, LAMBDA w : String(f(Val(w))))
Raised(c) == LET i == SelectInSeq(Smalls, LAMBDA d : d = c) IN IF i = 0 THEN c ELSE Capitals[i]
age_toupper(v) == OfString(v, LAMBDA s : [i \in DOMAIN s |-> Raised(s[i])])
age_tolower(v) == OfString(v, Lower)
age_ltrim(v) == OfString(v, StripLeft)
age_rtrim(v) == OfString(v, StripRight)
age_trim(v)  == OfString(v, Stripped)

\* a count: an integer that is an int and is not negative
IsCount(v) == Kind(v) = "integer" /\ Val(v) \in 0 .. Int32Max
\* NULL for the string comes first, then NULL for the last count; an agtype
\* null in place of a count is an error
Cut(v, counts, f(_)) ==
    CASE v = SqlNull -> SqlNull
      [] v # SqlNull /\ Last(counts) = SqlNull -> Error
      [] v = Null /\ Last(counts) # SqlNull -> SqlNull
      [] OTHER -> IF IsString(v) /\ \A i \in DOMAIN counts : IsCount(counts[i])
                  THEN String(f(Val(v))) ELSE Error
FirstChars(s, n) == SubSeq(s, 1, IF n < Len(s) THEN n ELSE Len(s))
age_left(v, n)  == Cut(v, <<n>>, LAMBDA s : FirstChars(s, Val(n)))
age_right(v, n) == Cut(v, <<n>>, LAMBDA s : Reverse(FirstChars(Reverse(s), Val(n))))
\* counted from 1
CountedFromOne(v, start, len) ==
    IF len = LeftOut THEN Cut(v, <<start>>, LAMBDA s : SubSeq(s, IF Val(start) = 0 THEN 1 ELSE Val(start), Len(s)))
    ELSE Cut(v, <<start, len>>, LAMBDA s : FirstChars(s, Val(len)))
\* start is counted from 0; len is the rest of the string when it is left out.
\* NULL for the start is not looked for when there is a len, and not given here
age_substring(v, start, len) ==
    LET from(s) == SubSeq(s, Val(start) + 1, Len(s)) IN
    IF len = LeftOut THEN Cut(v, <<start>>, from)
    ELSE Cut(v, <<start, len>>, LAMBDA s : FirstChars(from(s), Val(len)))


(* Every part that matches the delimiter is dropped; an empty delimiter    *)
(* matches between any two characters.  Delimiters have no special         *)
(* characters here.                                                        *)
Matches(s, t) == {i \in 1 .. (Len(s) - Len(t) + 1) : SubSeq(s, i, i + Len(t) - 1) = t}
RECURSIVE regexp_split(_, _)
regexp_split(s, t) ==
    LET at == Matches(s, t) IN
    IF t = <<>> THEN IF s = <<>> THEN <<s>> ELSE [i \in DOMAIN s |-> <<s[i]>>]
    ELSE IF at = {} THEN <<s>>
    ELSE <<SubSeq(s, 1, FirstOf(at) - 1)>> \o regexp_split(SubSeq(s, FirstOf(at) + Len(t), Len(s)), t)
RECURSIVE replace_text(_, _, _)
replace_text(s, t, u) ==
    LET at == Matches(s, t) IN
    IF t = <<>> \/ at = {} THEN s
    ELSE SubSeq(s, 1, FirstOf(at) - 1) \o u
         \o replace_text(SubSeq(s, FirstOf(at) + Len(t), Len(s)), t, u)

\* the arguments are looked at in turn: a NULL of SQL first
OfStrings(args, result) ==
    LET decided == {i \in DOMAIN args : ~IsString(args[i])} IN
    IF SqlNull \in Range(args) THEN SqlNull
    ELSE IF decided = {} THEN result
    ELSE IF args[FirstOf(decided)] = Null THEN SqlNull ELSE Error
age_split(v, t) ==
    OfStrings(<<v, t>>, LET parts == regexp_split(Val(v), Val(t)) IN
                        Array([i \in DOMAIN parts |-> String(parts[i])]))
age_replace(v, t, u) == OfStrings(<<v, t, u>>, String(replace_text(Val(v), Val(t), Val(u))))

\* =~ for a pattern without special characters: it is found anywhere
age_eq_tilde(v, pattern) ==
    CASE SqlNull \in {v, pattern} -> SqlNull
      [] SqlNull \notin {v, pattern} /\ ~(IsScalar(v) /\ IsScalar(pattern)) -> Error
      [] OTHER -> IF Null \in {v, pattern} THEN SqlNull
                  ELSE IF IsString(v) /\ IsString(pattern) THEN Bool(Includes(Val(v), Val(pattern)))
                  ELSE Error

-----------------------------------------------------------------------------
(* SQL values, as pairs <<SQL type, value>>, and the agtype made of them.  *)
(* A value that serves as a key is a string.                               *)
agtype_categorize_type(d) ==
    CASE d = SqlNull -> "NULL"
      [] Kind(d) \in {"int2", "int4", "int8", "graphid"} -> "INTEGER"
      [] Kind(d) = "float8" -> "FLOAT"
      [] Kind(d) \in {"float4", "numeric"} -> "NUMERIC"
      [] Kind(d) \in {"bool", "array", "composite", "json", "agtype"} -> Kind(d)
      [] OTHER -> "OTHER"

NotNumbers == {<<"N">>, <<"I">>, <<"-", "I">>}
DatumText(d) ==
    CASE agtype_categorize_type(d) = "INTEGER" -> int8out(Val(d))
      [] agtype_categorize_type(d) \in {"FLOAT", "NUMERIC"} -> float8out(Val(d))
      [] Kind(d) = "bool" -> IF Val(d) THEN WordTrue ELSE WordFalse
      [] OTHER -> Val(d)

RECURSIVE datum_to_agtype(_), array_dim_to_agtype(_)
\* the elements of an array, or of one of its dimensions
array_dim_to_agtype(q) ==
    Array([i \in DOMAIN q |-> IF Kind(q[i]) = "dimension" THEN array_dim_to_agtype(Val(q[i]))
                              ELSE datum_to_agtype(q[i])])
array_to_agtype_internal(d) == array_dim_to_agtype(Val(d))
agtype_array_to_agtype(d) == array_to_agtype_internal(d)
\* a row: <<name, is the column dropped, value>> of each column
composite_to_agtype(d) ==
    LET columns == SelectSeq(Val(d), LAMBDA c : ~c[2]) IN
    Object(uniqueify_agtype_object([i \in DOMAIN columns |->
                                      <<columns[i][1], datum_to_agtype(columns[i][3])>>]))
datum_to_agtype(d) ==
    LET c == agtype_categorize_type(d) IN
    CASE c = "NULL" -> Null
      [] c = "bool" -> Bool(Val(d))
      [] c = "INTEGER" -> int8in(DatumText(d))
      [] c = "FLOAT" -> Float(Val(d))
      [] c = "NUMERIC" -> IF DatumText(d) \in NotNumbers THEN String(DatumText(d))
                          ELSE numeric_in(DatumText(d))
      [] c = "agtype" -> Val(d)
      [] c = "json" -> parse_agtype(Val(d))
      [] c = "array" -> array_to_agtype_internal(d)
      [] c = "composite" -> composite_to_agtype(d)
      [] OTHER -> String(DatumText(d))
add_agtype(d) == datum_to_agtype(d)
key_of_datum(d) ==
    IF agtype_categorize_type(d) \in {"NULL", "array", "composite", "json", "agtype"} THEN Error
    ELSE String(DatumText(d))

\* the wrapper of volatile functions knows fewer types, a float4 is a float
agtype_volatile_wrapper(d) ==
    CASE d = SqlNull -> SqlNull
      [] Kind(d) = "agtype" -> Val(d)
      [] Kind(d) = "bool" -> Bool(Val(d))
      [] Kind(d) \in {"int2", "int4", "int8"} -> Integer(Val(d))
      [] Kind(d) \in {"float4", "float8"} -> Float(Val(d))
      [] Kind(d) = "numeric" -> Numeric(Val(d))
      [] Kind(d) \in {"cstring", "text"} -> String(Val(d))
      [] OTHER -> Error

=============================================================================
