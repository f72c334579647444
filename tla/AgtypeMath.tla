----------------------------- MODULE AgtypeMath -----------------------------
(***************************************************************************)
(* The numeric functions of Cypher and the aggregates.  What the C library *)
(* or the numerics of PostgreSQL compute is external: a set of the values  *)
(* that may come out.                                                      *)
(***************************************************************************)
EXTENDS AgtypeFns

\* the argument as a float, for the functions of the C library
get_float_compatible_arg(v) == IF Kind(v) = "numeric" THEN RoundFloat(Val(v)) ELSE AsFloat(v)
\* the argument as a numeric, for those of PostgreSQL
get_numeric_compatible_arg(v) == AsNumeric(v)

OfNumber(v, f(_)) == OfScalar(v, IsNumber, f)
NumericResult(h) == Float(RoundFloat(h))
OrSpecial(h, k) == IF Finite(h) THEN k ELSE h

-----------------------------------------------------------------------------
(* Rounding and sign.  All but abs and sign give a float.                  *)
Whole(h) == 2 * (h \div 2)
Ceiling(h) == -Whole(-h)
age_ceil(v) == OfNumber(v, LAMBDA n : LET h == get_numeric_compatible_arg(n) IN
                                      NumericResult(OrSpecial(h, Ceiling(h))))
age_floor(v) == OfNumber(v, LAMBDA n : LET h == get_numeric_compatible_arg(n) IN
                                       NumericResult(OrSpecial(h, Whole(h))))
\* one digit of precision or more changes nothing here, less than none is tens
numeric_round(h, precision) ==
    IF precision > 0 THEN h
    ELSE 2 * (10 ^ (-precision)) * RoundNumeric(h, 2 * 10 ^ (-precision))
Rounded(v, precision) == OfNumber(v, LAMBDA n : LET h == get_numeric_compatible_arg(n) IN
                                     NumericResult(OrSpecial(h, numeric_round(h, precision))))
\* the precision: left out, or NULL, is 0; an agtype null is an error, unless
\* what is rounded is null
age_round(v, by) ==
    LET p == numeric_int(get_numeric_compatible_arg(by), IntMax) IN
    IF by \in {LeftOut, SqlNull} THEN Rounded(v, 0)
    ELSE IF IsNull(v) THEN SqlNull
    ELSE IF ~IsNumber(v) \/ ~IsNumber(by) THEN Error
    ELSE IF p = Error THEN Error ELSE Rounded(v, Wrap32(Val(p)))
\* the least integer has no absolute value
age_abs(v) == OfNumber(v, LAMBDA n : LET h == get_numeric_compatible_arg(n)
                                         a == IF IsNaN(h) THEN h ELSE Abs(h) IN
    CASE Kind(n) = "integer" -> numeric_int(a, IntMax)
      [] Kind(n) = "float" -> NumericResult(a)
      [] Kind(n) = "numeric" -> Numeric(a))
age_sign(v) == OfNumber(v, LAMBDA n : LET h == get_numeric_compatible_arg(n) IN
                                      IF IsNaN(h) THEN Error ELSE Integer(Sign(h)))

-----------------------------------------------------------------------------
(* Functions whose values are external: a set of outcomes.                 *)
Reals      == {Float(h) : h \in -4 .. 4}
Positive   == {Float(h) : h \in 0 .. 4}
\* of a number f, of NULL or of something else: the one outcome
Outcomes(v, f(_)) ==
    CASE IsNull(v) -> {SqlNull}
      [] ~IsNull(v) /\ IsNumber(v) -> f(v)
      [] OTHER -> {Error}

\* an infinite angle is out of range
Trigonometric(v) == Outcomes(v, LAMBDA n : LET x == get_float_compatible_arg(n) IN
    IF IsNaN(x) THEN {Float(NaN)} ELSE IF IsInf(x) THEN {Error} ELSE Reals)
age_sin(v) == Trigonometric(v) \ {Float(h) : h \in {-4, -3, 3, 4}}
age_cos(v) == Trigonometric(v) \ {Float(h) : h \in {-4, -3, 3, 4}}
age_tan(v) == Trigonometric(v)
age_cot(v) == Trigonometric(v)
\* the domain is tested, before null is: 0 stands for it
ArcOf(v, range) == Outcomes(v, LAMBDA n : LET x == get_float_compatible_arg(n) IN
    IF IsNaN(x) THEN {Float(NaN)} ELSE IF x < -2 \/ x > 2 THEN {SqlNull} ELSE range)
age_asin(v) == ArcOf(v, Reals)
age_acos(v) == ArcOf(v, Positive)
Angle(x) == IF IsNaN(x) THEN {Float(NaN)} ELSE Reals
age_atan(v) == Outcomes(v, LAMBDA n : Angle(get_float_compatible_arg(n)))
\* NULL for either comes first, then the arguments are looked at in turn
age_atan2(v, w) ==
    IF SqlNull \in {v, w} THEN {SqlNull}
    ELSE IF Outcomes(v, LAMBDA n : {n}) \cap {SqlNull, Error} # {} THEN Outcomes(v, LAMBDA n : {n})
    ELSE Outcomes(w, LAMBDA n : IF NaN \in {get_float_compatible_arg(v), get_float_compatible_arg(n)}
                                THEN {Float(NaN)} ELSE Reals)
Scaled(x) == IF Finite(x) THEN Reals ELSE {Float(x)}
age_degrees(v) == Outcomes(v, LAMBDA n : Scaled(get_float_compatible_arg(n)))
age_radians(v) == Outcomes(v, LAMBDA n : Scaled(get_float_compatible_arg(n)))

\* logarithms of what is not positive, roots of what is negative: NULL
Logarithm(v) == Outcomes(v, LAMBDA n : LET x == get_numeric_compatible_arg(n) IN
    IF x <= 0 THEN {SqlNull} ELSE IF Finite(x) THEN Reals ELSE {Float(x)})
age_log(v)   == Logarithm(v)
age_log10(v) == Logarithm(v)
age_sqrt(v) == Outcomes(v, LAMBDA n : LET x == get_numeric_compatible_arg(n) IN
    IF x < 0 THEN {SqlNull} ELSE IF ~Finite(x) THEN {Float(x)}
    ELSE {Float(RoundFloat(k)) : k \in {j \in 0 .. x + 1 : (j - 1) * (j - 1) <= 2 * x /\ 2 * x <= (j + 1) * (j + 1)}})
age_exp(v) == Outcomes(v, LAMBDA n : LET x == get_numeric_compatible_arg(n) IN
    IF x = -Infinity THEN {Float(0)} ELSE IF Finite(x) THEN Positive ELSE {Float(x)})
age_e  == {Float(5), Float(6)}
age_pi == {Float(6), Float(7)}
age_rand == {Float(0), Float(1)}
\* milliseconds since 1970
age_timestamp == {Integer(i) : i \in 0 .. 1}

-----------------------------------------------------------------------------
(* Aggregates: a transition function from a state and a row, and a final   *)
(* one.  Those that are strict leave the state as it is for a NULL row.    *)
\* wrapping, as + does
WrappedSum(a, b) == agtype_add(a, b)
\* the precision of the result is the greater; an integer that does not fit
\* is an error
float8pl(h, k) == LET f == FloatSum(h, k) IN
                  IF IsInf(f) /\ Finite(h) /\ Finite(k) THEN Error ELSE Float(f)
age_agtype_sum(a, b) ==
    IF ~IsScalar(a) \/ ~IsScalar(b) \/ ~IsNumber(a) \/ ~IsNumber(b) THEN Error
    ELSE IF "numeric" \in {Kind(a), Kind(b)} THEN Numeric(NumericSum(AsNumeric(a), AsNumeric(b)))
    ELSE IF "float" \in {Kind(a), Kind(b)} THEN float8pl(AsFloat(a), AsFloat(b))
    ELSE IntegerUpTo(Val(a) + Val(b), IntMax)
\* the first row that is not NULL is the first state, whatever it is
SumStep(state, row) ==
    IF row = SqlNull THEN state
    ELSE IF state = SqlNull THEN row ELSE age_agtype_sum(state, row)

age_agtype_larger_aggtransfn(s, r) ==
    LET a == get_one_agtype_from_variadic_args(s)
        b == get_one_agtype_from_variadic_args(r)
    IN  IF a = SqlNull THEN b ELSE IF b = SqlNull THEN a
        ELSE IF compare_agtype_containers_orderability(a, b) >= 0 THEN a ELSE b
age_agtype_smaller_aggtransfn(s, r) ==
    LET a == get_one_agtype_from_variadic_args(s)
        b == get_one_agtype_from_variadic_args(r)
    IN  IF a = SqlNull THEN b ELSE IF b = SqlNull THEN a
        ELSE IF compare_agtype_containers_orderability(a, b) <= 0 THEN a ELSE b

\* nulls are not collected
age_collect_aggtransfn(state, row) == IF IsNull(row) THEN state ELSE Append(state, row)
age_collect_aggfinalfn(state) == Array(state)

\* count, sum and sum of squares stand for the state of float8_accum
Floats(n, sum, squares, special) == <<"floats", [n |-> n, sum |-> sum, squares |-> squares, special |-> special]>>
NoFloats == Floats(0, 0, 0, FALSE)
WithFloat(s, f) ==
    IF f = Error THEN Error
    ELSE IF ~Finite(Val(f)) THEN Floats(s.n + 1, s.sum, s.squares, TRUE)
    ELSE Floats(s.n + 1, s.sum + Val(f), s.squares + Val(f) * Val(f), s.special)
age_agtype_float8_accum(state, row) ==
    IF row = SqlNull \/ state = Error THEN state ELSE WithFloat(Val(state), agtype_to_float8(row))
\* the deviations, to the next half; no deviation where there is none is 0
Deviation(s, rows) ==
    LET d == s.n * s.squares - s.sum * s.sum
        m == s.n * rows
    IN  IF rows <= 0 THEN {Float(0)}
        ELSE IF s.special THEN {Float(NaN)}
        ELSE {Float(RoundFloat(k)) : k \in {j \in 0 .. d + 1 : (j - 1) * (j - 1) * m <= d /\ d <= (j + 1) * (j + 1) * m}}
age_float8_stddev_samp_aggfinalfn(state) ==
    IF state = Error THEN {Error} ELSE Deviation(Val(state), Val(state).n - 1)
age_float8_stddev_pop_aggfinalfn(state) ==
    IF state = Error THEN {Error} ELSE Deviation(Val(state), Val(state).n)

(* Percentiles: the floats seen, sorted when they are asked for.  The      *)
(* percentile is taken with the first row, whatever comes with the others. *)
\* the state of the percentile p, and one with a row
NewPercentile(p) ==
    IF p \in {SqlNull, Error} THEN Error
    ELSE IF Val(p) \in 0 .. 2 THEN <<"percentile", Val(p), <<>>>> ELSE Error
WithRow(opened, f) ==
    IF Error \in {opened, f} THEN Error
    ELSE IF f = SqlNull THEN opened ELSE [opened EXCEPT ![3] = Append(@, Val(f))]
age_percentile_aggtransfn(state, row, percentile) ==
    WithRow(IF state # SqlNull THEN state ELSE NewPercentile(agtype_to_float8(percentile)),
            IF row = SqlNull THEN SqlNull ELSE agtype_to_float8(row))
float8_lerp(lo, hi, part) == FloatSum(lo, FloatProduct(part, FloatSum(hi, Opposite(lo))))
Sorted(q) == SortSeq(q, LAMBDA h, k : h < k)
OfRows(state, f(_, _)) ==
    IF state \in {SqlNull, Error} THEN state
    ELSE IF state[3] = <<>> THEN SqlNull
    ELSE Float(f(Sorted(state[3]), state[2]))
age_percentile_cont_aggfinalfn(state) == OfRows(state, LAMBDA q, p :
    LET place == p * (Len(q) - 1)
        first == place \div 2
    IN  IF place % 2 = 0 THEN q[first + 1] ELSE float8_lerp(q[first + 1], q[first + 2], place % 2))
age_percentile_disc_aggfinalfn(state) == OfRows(state, LAMBDA q, p :
    LET row == Ceiling(p * Len(q)) \div 2 IN q[IF row > 1 THEN row ELSE 1])

-----------------------------------------------------------------------------
(* Changing properties, for SET and REMOVE: of one key, or of all the keys *)
(* of a map.  What is no map is an error.                                  *)
alter_property_value(o, key, new, remove) ==
    LET others == DOMAIN Val(o) \ {key} IN
    IF o = SqlNull THEN SqlNull
    ELSE IF ~IsObject(o) THEN Error
    ELSE IF remove \/ new = SqlNull THEN Object([k \in others |-> Val(o)[k]])
    ELSE Object([k \in others \cup {key} |-> IF k = key THEN new ELSE Val(o)[k]])
alter_properties(o, new) ==
    IF ~IsObject(new) \/ (o # SqlNull /\ ~IsObject(o)) THEN Error
    ELSE Object(uniqueify_agtype_object((IF o = SqlNull THEN <<>> ELSE Pairs(Val(o))) \o Pairs(Val(new))))

=============================================================================
