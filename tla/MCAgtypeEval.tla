---------------------------- MODULE MCAgtypeEval ----------------------------
(* Instances of AgtypeEval for TLC: a few values of every kind, those at    *)
(* the limits of the widths among them.                                    *)
EXTENDS AgtypeEval, TLC

Empty == Object(<<>>)
S(x) == String(x)
a == <<"a">>
Props == Object((a :> Integer(1)) @@ (<<"b">> :> Null) @@ (<<"b", "a">> :> S(a)) @@ (<<"t">> :> Array(<<Float(1)>>)))
V == Vertex(9, a, Props)
W == Vertex(10, a, Empty)
E == Edge(17, <<"b">>, 10, 9, Empty)
VertexLike == Object((IdKey :> Integer(1)) @@ (LabelKey :> S(a)) @@ (PropertiesKey :> Empty))

MCLiterals ==
    {SqlNull, Null, Bool(TRUE), Bool(FALSE)}
    \cup {Integer(i) : i \in {-32, -1, 0, 1, 7, 16, 31}}
    \cup {Float(h) : h \in {-3, 1, 64, Infinity, NaN}}
    \cup {Numeric(h) : h \in {-1, 62}}
    \cup {S(s) : s \in {<<>>, a, <<"b", "a">>, <<"A", "b">>, <<"1">>, WordTrue, <<" ", "1", ".", "5", " ">>,
                        <<"\"", "\\", "\n", "a">>}}
    \cup {Array(q) : q \in {<<>>, <<Integer(1)>>, <<Null, S(a)>>, <<Integer(1), S(a), Array(<<Integer(1), Empty>>)>>,
                            <<Float(2), Bool(TRUE)>>, <<V, E, W>>}}
    \cup {Empty, Props, VertexLike, Object(a :> Integer(1)), V, E, Path(<<V, E, W>>)}

MCCounts == {SqlNull, Null, Integer(-1), Integer(0), Integer(1), Integer(3), Integer(31), S(a)}
MCTexts == {
    << <<"[">>, <<"WORD", <<"0", "1">>>>, <<"]">> >>,
    << <<"[">>, <<"WORD", WordTrue>>, <<",">>, <<"WORD", <<"N">>>>, <<"]">> >>,
    << <<"[">>, <<"]">>, <<"]">> >>,
    << <<"{">>, <<"STRING", a>>, <<":">>, <<"WORD", <<"1">>>>, <<",">>, <<"STRING", a>>, <<":">>, <<"WORD", WordNull>>, <<"}">> >>,
    << <<"{">>, <<"STRING", a>>, <<"}">> >>,
    << <<"STRING", <<"\\", "u", "d83d", "\\", "u", "de00">>>> >>,
    << <<"STRING", <<"\\", "u", "de00">>>> >>,
    << <<"STRING", <<"\\", "y">>>> >>,
    << <<"STRING", <<"1", "2">>>>, <<"::">>, <<"NAME", "integer">> >>,
    << <<"WORD", <<"1">>>>, <<"::">>, <<"NAME", "vertex">> >>,
    << <<"[">>, <<"]">>, <<"::">>, <<"NAME", "path">> >>,
    << <<"{">>, <<"STRING", <<"I">>>>, <<":">>, <<"WORD", <<"1">>>>, <<",">>, <<"STRING", LabelKey>>, <<":">>, <<"STRING", a>>,
       <<",">>, <<"STRING", PropertiesKey>>, <<":">>, <<"{">>, <<"}">>, <<"}">>, <<"::">>, <<"NAME", "vertex">> >> }
MCSqlValues == {SqlNull, <<"int2", 3>>, <<"int8", -32>>, <<"float8", 3>>, <<"float4", 1>>, <<"numeric", 3>>, <<"numeric", NaN>>,
                <<"bool", TRUE>>, <<"text", a>>, <<"agtype", Props>>, <<"json", << <<"WORD", WordNull>> >> >>,
                <<"array", << <<"dimension", << <<"int4", 1>> >> >>, <<"dimension", << SqlNull >> >> >> >>,
                <<"composite", << <<a, FALSE, <<"int4", 1>> >>, <<a, FALSE, <<"bool", TRUE>> >>, <<<<"b">>, TRUE, SqlNull>> >> >>}
MCGraph == [name |-> (1 :> a), rows |-> (a :> << <<9, Props>>, <<10, Empty>> >>)]
MCRows == {SqlNull, Null, Integer(31), Integer(1), Integer(-3), Float(3), Numeric(1), S(a)}
MCPercentiles == {Float(1)}
=============================================================================
