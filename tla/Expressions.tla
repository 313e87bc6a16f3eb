---------------------------- MODULE Expressions ----------------------------
(* The expressions of projections, filters and aggregations (expr, types).  *)
(* A constructor (NewXxx) checks the number and the types of its operands    *)
(* and fixes the result type; EvalXxx computes a value, null or an error     *)
(* for a row.  An expression is modelled by its result type and by what it   *)
(* evaluates to on one row; operands holds the expressions under             *)
(* construction, so every tree of operators over the leaves is reached from  *)
(* the bottom up.  An operator that maps operands to the set of expressions  *)
(* it can make stands for a constructor together with the Eval methods: the  *)
(* set is empty when the constructor returns an error, and has several       *)
(* members where the computed data (formatting, parsing, json, regular       *)
(* expressions, rounding of floats) is abstracted to any value of its type.  *)
EXTENDS Integers, Sequences, SequencesExt

CONSTANTS
    Leaves,      \* Leaves[i]: the columns and literals that can be operand i
    MaxInt,      \* the largest int64
    MaxScale,    \* the largest precision and scale of a decimal: 38 in the code
    Uint64Len,   \* the bytes of a uint64: 8 in the code
    MaxNum,      \* bound: decimals beyond it are not operated on further
    MaxLen,      \* bound: longer strings are not operated on further
    Unchecked    \* the calls accepted by a constructor that does not check enough

VARIABLE operands

ASSUME IntAssumption == MaxInt \in Nat /\ MaxLen <= MaxInt
ASSUME ScaleAssumption == MaxScale \in Nat /\ Uint64Len \in Nat \ {0}

\* Values are sequences of integers: one for an int, a float, a bool or a timestamp,
\* the bytes of a string, and <<number, precision, scale>> for a decimal.
Numeric == {"int", "float", "decimal", "timestamp"}
Texts == {"string", "bytes"}
TypeIDs == Numeric \cup Texts \cup {"bool"}
MinInt == -MaxInt - 1
NaN == 99
Floats == {<<-1>>, <<0>>, <<1>>, <<NaN>>}
SomeText == {<<>>, <<1>>}
SomeTime == {<<0>>, <<1>>}

Val(v) == [k |-> "val", v |-> v]
Null == [k |-> "null", v |-> <<>>]
Error == [k |-> "err", v |-> <<>>]
Panic == [k |-> "panic", v |-> <<>>]
Bool(b) == Val(IF b THEN <<1>> ELSE <<0>>)
Vals(S) == {Val(v) : v \in S}
OutcomeOf(e) == [k |-> e.k, v |-> e.v]

New(id, p, s, lit, o) == [id |-> id, prec |-> p, scale |-> s, lit |-> lit, k |-> o.k, v |-> o.v]
Fn(ok, id, outs) == IF ok THEN {New(id, 0, 0, FALSE, o) : o \in outs} ELSE {}
FnDec(ok, p, s, outs) == IF ok THEN {New("decimal", p, s, FALSE, o) : o \in outs} ELSE {}
FnLike(ok, e, outs) == IF ok THEN {New(e.id, e.prec, e.scale, FALSE, o) : o \in outs} ELSE {}

\* Numbers and types of operands, as the constructors test them.
Is(e, ids) == e.id \in ids
SameID(e, f) == e.id = f.id
ColumnTypesEqual(e, f) == SameID(e, f) /\ e.prec = f.prec /\ e.scale = f.scale
Signature(a, ids) == Len(a) = Len(ids) /\ \A i \in 1..Len(ids) : Is(a[i], ids[i])

\* Operands are evaluated in order: the first that is not a value is the outcome.
Strict(a, outs) ==
    IF \A i \in 1..Len(a) : a[i].k = "val" THEN outs
    ELSE {OutcomeOf(a[CHOOSE i \in 1..Len(a) : a[i].k # "val" /\ \A j \in 1..(i-1) : a[j].k = "val"])}

----------------------------------------------------------------------------
(* Integers and decimals *)

Wrap(n) == ((n - MinInt) % (MaxInt - MinInt + 1)) + MinInt
Quo(x, y) == LET q == (IF x < 0 THEN -x ELSE x) \div (IF y < 0 THEN -y ELSE y)
             IN  IF (x < 0) = (y < 0) THEN q ELSE -q
Larger(x, y) == IF x > y THEN x ELSE y
FitsInPrecision(n, p) == n < 10^p /\ n > -(10^p)
IncreaseScaleBy(n, by) == n * 10^by
ReduceScaleBy(n, by, round) ==
    LET q == Quo(n, 10^by)
        r == n - q * 10^by
    IN  IF round /\ 2 * (IF r < 0 THEN -r ELSE r) >= 10^by /\ by > 0 THEN q + (IF n < 0 THEN -1 ELSE 1) ELSE q
\* IncreaseScaleBy indexes a table of the powers up to MaxScale.
ScalePanics(x, y) == x[3] - y[3] > MaxScale \/ y[3] - x[3] > MaxScale
\* The numbers of two decimals at the larger of their scales.
Rescale(x, y) ==
    CASE x[2] = y[2] /\ x[3] = y[3] -> <<x[1], y[1]>>
      [] x[3] > y[3] -> <<x[1], IncreaseScaleBy(y[1], x[3] - y[3])>>
      [] OTHER -> <<IncreaseScaleBy(x[1], y[3] - x[3]), y[1]>>
DecGreaterThan(x, y) == Rescale(x, y)[1] > Rescale(x, y)[2]
DecLessThan(x, y) == Rescale(x, y)[1] < Rescale(x, y)[2]
DecEquals(x, y) == Rescale(x, y)[1] = Rescale(x, y)[2]
CheckResultFits(n, p, s) == IF FitsInPrecision(n, p) THEN {Val(<<n, p, s>>)} ELSE {Error}
DecAdd(x, y) == CheckResultFits(Rescale(x, y)[1] + Rescale(x, y)[2], Larger(x[2], y[2]), Larger(x[3], y[3]))
DecSubtract(x, y) == CheckResultFits(Rescale(x, y)[1] - Rescale(x, y)[2], Larger(x[2], y[2]), Larger(x[3], y[3]))
DecMultiply(x, y) == CheckResultFits(x[1] * y[1], Larger(x[2], y[2]), x[3] + y[3])
DecDivideUnscaled(x, y) == {Val(<<Quo(x[1], y[1]), x[2], x[3]>>)}
DecDivide(x, y) == {Val(<<Quo(IncreaseScaleBy(x[1], y[3]), y[1]), x[2], x[3]>>)}
ShiftPlaces(x, places, round) ==
    IF places > MaxScale \/ -places > MaxScale THEN {Error}
    ELSE {Val(<<IF places > 0 THEN IncreaseScaleBy(x[1], places) ELSE ReduceScaleBy(x[1], -places, round), x[2], x[3]>>)}
ConvertPrecisionAndScale(x, p, s) ==
    <<IF s > x[3] THEN IncreaseScaleBy(x[1], s - x[3]) ELSE ReduceScaleBy(x[1], x[3] - s, TRUE), p, s>>
ToInt64(x) == Wrap(x[1] \div 10^x[3])

\* An operation on decimals that brings both to the same scale.
Scaled(a, outs) == IF ScalePanics(a[1].v, a[2].v) THEN {Panic} ELSE outs

(* Arithmetic *)

getAddSubtractResultType(a) ==
    IF a[1].id = "decimal" THEN <<Larger(a[1].prec, a[2].prec), Larger(a[1].scale, a[2].scale)>> ELSE <<0, 0>>
Arithmetic(a, ps, ints, decs) ==
    IF ~(Len(a) = 2 /\ SameID(a[1], a[2]) /\ Is(a[1], Numeric)) THEN {}
    ELSE LET id == a[1].id
             outs == CASE id = "float" -> Vals(Floats) [] id = "decimal" -> decs [] OTHER -> ints
         IN  {New(id, ps[1], ps[2], FALSE, o) : o \in Strict(a, outs)}
AddOperator(a) ==
    Arithmetic(a, getAddSubtractResultType(a), {Val(<<Wrap(a[1].v[1] + a[2].v[1])>>)},
               Scaled(a, DecAdd(a[1].v, a[2].v)))
SubtractOperator(a) ==
    Arithmetic(a, getAddSubtractResultType(a), {Val(<<Wrap(a[1].v[1] - a[2].v[1])>>)},
               Scaled(a, DecSubtract(a[1].v, a[2].v)))
MultiplyOperator(a) ==
    Arithmetic(a, IF a[1].id = "decimal" THEN <<Larger(a[1].prec, a[2].prec), a[1].scale + a[2].scale>> ELSE <<0, 0>>,
               {Val(<<Wrap(a[1].v[1] * a[2].v[1])>>)}, DecMultiply(a[1].v, a[2].v))
DivideOperator(a) ==
    LET ints == IF a[2].v[1] = 0 THEN {Error} ELSE {Val(<<Wrap(Quo(a[1].v[1], a[2].v[1]))>>)}
        decs == IF a[2].v[1] = 0 THEN {Error} ELSE IF a[2].v[3] > MaxScale THEN {Panic} ELSE DecDivide(a[1].v, a[2].v)
    IN  IF Len(a) = 2 /\ a[1].id = "float" /\ a[2].id = "float" /\ a[1].k = "val" /\ a[2].k = "val" /\ a[2].v = <<0>>
        THEN Fn(TRUE, "float", {Error}) ELSE Arithmetic(a, <<a[1].prec, a[1].scale>>, ints, decs)
ModulusOperator(a) ==
    Fn(Signature(a, <<{"int"}, {"int"}>>), "int",
       Strict(a, LET x == a[1].v[1]
                     y == a[2].v[1]
                 IN  IF y = 0 THEN {Error} ELSE {Val(<<x - y * Quo(x, y)>>)}))
AbsFunction(a) ==
    FnLike(Signature(a, <<{"int", "float", "decimal"}>>), a[1],
           Strict(a, {Val(IF a[1].v[1] >= 0 THEN a[1].v ELSE [a[1].v EXCEPT ![1] = IF a[1].id = "int" THEN Wrap(-@) ELSE -@])}))

(* Comparison *)

LexLess(x, y) ==
    \E i \in 1..Len(y) : /\ \A j \in 1..(i-1) : j <= Len(x) /\ x[j] = y[j]
                         /\ i = Len(x) + 1 \/ (i <= Len(x) /\ x[i] < y[i])
HasNaN(id, x, y) == id = "float" /\ NaN \in {x[1], y[1]}
Less(id, x, y) ==
    CASE id = "decimal" -> DecLessThan(x, y)
      [] id \in Texts -> LexLess(x, y)
      [] OTHER -> ~HasNaN(id, x, y) /\ x[1] < y[1]
Greater(id, x, y) ==
    CASE id = "decimal" -> DecGreaterThan(x, y)
      [] id \in Texts -> LexLess(y, x)
      [] OTHER -> ~HasNaN(id, x, y) /\ x[1] > y[1]
Equal(id, x, y) ==
    CASE id = "decimal" -> DecEquals(x, y)
      [] id = "float" -> ~HasNaN(id, x, y) /\ x = y
      [] OTHER -> x = y
NotEqual(id, x, y) == ~Equal(id, x, y)
GreaterOrEqualStrict(id, x, y) == Greater(id, x, y)
GreaterOrEqual(id, x, y) == ~HasNaN(id, x, y) /\ ~Less(id, x, y)
LessOrEqual(id, x, y) == ~HasNaN(id, x, y) /\ ~Greater(id, x, y)

Comparison(a, ids, holds) ==
    Fn(Len(a) = 2 /\ SameID(a[1], a[2]) /\ Is(a[1], ids), "bool",
       Strict(a, IF a[1].id = "decimal" /\ ScalePanics(a[1].v, a[2].v) THEN {Panic} ELSE {Bool(holds)}))
Ordered == Numeric \cup Texts
EqualsOperator(a) == Comparison(a, TypeIDs, Equal(a[1].id, a[1].v, a[2].v))
NotEqualsOperator(a) == Comparison(a, TypeIDs, NotEqual(a[1].id, a[1].v, a[2].v))
GreaterThanOperator(a) == Comparison(a, Ordered, Greater(a[1].id, a[1].v, a[2].v))
GreaterOrEqualsOperator(a) == Comparison(a, Ordered, GreaterOrEqual(a[1].id, a[1].v, a[2].v))
LessThanOperator(a) == Comparison(a, Ordered, Less(a[1].id, a[1].v, a[2].v))
LessOrEqualsOperator(a) == Comparison(a, Ordered, LessOrEqual(a[1].id, a[1].v, a[2].v))

(* Logic, conditions *)

IsTrue(e) == e.k = "val" /\ e.v = <<1>>
LogicalNotOperator(a) == Fn(Signature(a, <<{"bool"}>>), "bool", Strict(a, {Bool(~IsTrue(a[1]))}))
LogicalAndOperator(a) ==
    Fn(Signature(a, <<{"bool"}, {"bool"}>>), "bool", Strict(a, {Bool(IsTrue(a[1]) /\ IsTrue(a[2]))}))
LogicalOrOperator(a) ==
    Fn(Signature(a, <<{"bool"}, {"bool"}>>), "bool", IF IsTrue(a[1]) THEN {Bool(TRUE)} ELSE Strict(a, {Bool(IsTrue(a[2]))}))
IfTypes(a) == Len(a) = 3 /\ Is(a[1], {"bool"}) /\ ColumnTypesEqual(a[2], a[3])
IfFunction(a) ==
    FnLike(IfTypes(a), a[2],
           Strict(<<a[1]>>, {OutcomeOf(IF IsTrue(a[1]) THEN a[2] ELSE a[3])}))
IsNullFunction(a) == Fn(Len(a) = 1, "bool", {IF a[1].k \in {"err", "panic"} THEN OutcomeOf(a[1]) ELSE Bool(a[1].k = "null")})
IsNotNullFunction(a) == Fn(Len(a) = 1, "bool", {IF a[1].k \in {"err", "panic"} THEN OutcomeOf(a[1]) ELSE Bool(a[1].k # "null")})

\* The search of in and case: the operands are compared with the test in order up to a
\* match or an error; null operands do not match.
Stops(test, e) ==
    \/ e.k \in {"err", "panic"}
    \/ /\ e.k = "val"
       /\ (e.id = "decimal" /\ ScalePanics(test.v, e.v)) \/ Equal(e.id, test.v, e.v)
FirstStop(test, cs) == SelectInSeq(cs, LAMBDA e : Stops(test, e))
StopOutcome(test, e) ==
    CASE e.k # "val" -> OutcomeOf(e)
      [] e.id = "decimal" /\ ScalePanics(test.v, e.v) -> Panic
      [] OTHER -> Bool(TRUE)
InTypes(a) == Len(a) >= 3 /\ \A i \in 2..Len(a) : SameID(a[i], a[1])
InFunction(a) ==
    Fn(InTypes(a), "bool",
       Strict(<<a[1]>>, LET i == FirstStop(a[1], Tail(a))
                        IN  {IF i = 0 THEN Bool(FALSE) ELSE StopOutcome(a[1], a[i + 1])}))
getMatchingIndex(a) == FirstStop(a[1], [i \in 1..((Len(a) - 2) \div 2) |-> a[2 * i]])
CaseTypes(a) ==
    /\ Len(a) >= 4 /\ Len(a) % 2 = 0
    /\ \A i \in 1..((Len(a) - 2) \div 2) : SameID(a[2 * i], a[1]) /\ SameID(a[2 * i + 1], Last(a))
CaseFunction(a) ==
    FnLike(CaseTypes(a), Last(a),
           Strict(<<a[1]>>, LET i == getMatchingIndex(a)
                            IN  {IF i = 0 THEN OutcomeOf(Last(a))
                                 ELSE LET o == StopOutcome(a[1], a[2 * i])
                                      IN  IF o = Bool(TRUE) THEN OutcomeOf(a[2 * i + 1]) ELSE o}))
DecimalShiftFunction(a) ==
    FnLike(Signature(a, <<{"decimal"}, {"int"}>>) \/ Signature(a, <<{"decimal"}, {"int"}, {"bool"}>>), a[1],
           Strict(a, ShiftPlaces(a[1].v, a[2].v[1], Len(a) = 3 => IsTrue(a[3]))))

(* Strings and bytes *)

OneText(a) == Len(a) = 1 /\ Is(a[1], Texts)
TwoTexts(a) == Len(a) = 2 /\ Is(a[1], Texts) /\ SameID(a[1], a[2])
LenFunction(a) == Fn(OneText(a), "int", Strict(a, {Val(<<Len(a[1].v)>>)}))
ConcatFunction(a) == FnLike(TwoTexts(a), a[1], Strict(a, {Val(a[1].v \o a[2].v)}))
StartsWithFunction(a) == Fn(TwoTexts(a), "bool", Strict(a, {Bool(IsPrefix(a[2].v, a[1].v))}))
EndsWithFunction(a) == Fn(TwoTexts(a), "bool", Strict(a, {Bool(IsSuffix(a[2].v, a[1].v))}))
MatchesFunction(a) ==
    Fn(Signature(a, <<{"string"}, {"string"}>>) /\ a[2].lit, "bool", Strict(<<a[1]>>, {Bool(TRUE), Bool(FALSE)}))

Kept(s, cut) == {i \in 1..Len(s) : ~Contains(cut, s[i])}
TrimLeft(s, cut) == IF Kept(s, cut) = {} THEN <<>> ELSE SubSeq(s, Min(Kept(s, cut)), Len(s))
TrimRight(s, cut) == IF Kept(s, cut) = {} THEN <<>> ELSE SubSeq(s, 1, Max(Kept(s, cut)))
TrimFunction(a) ==
    Fn(Signature(a, <<{"string"}, {"string"}>>), "string", Strict(a, {Val(TrimRight(TrimLeft(a[1].v, a[2].v), a[2].v))}))
\* ltrim and rtrim accept bytes, but evaluate their operands as strings: on bytes the
\* operand panics, before it is known whether the value is null.
LTrimFunction(a) ==
    Fn(TwoTexts(a), "string", IF a[1].id = "bytes" THEN {Panic} ELSE Strict(a, {Val(TrimLeft(a[1].v, a[2].v))}))
RTrimFunction(a) ==
    Fn(TwoTexts(a), "string", IF a[1].id = "bytes" THEN {Panic} ELSE Strict(a, {Val(TrimRight(a[1].v, a[2].v))}))
ToLowerFunction(a) == Fn(Signature(a, <<{"string"}>>), "string", Strict(a, Vals(SomeText)))
ToUpperFunction(a) == Fn(Signature(a, <<{"string"}>>), "string", Strict(a, Vals(SomeText)))
\* The bytes start..end-1, counted from 0; slicing outside 0..Len panics.
Slice(s, start, end) ==
    IF 0 <= start /\ start <= end /\ end <= Len(s) THEN Val(SubSeq(s, start + 1, end)) ELSE Panic
SliceUnclamped(s, start, end) ==
    LET from == Larger(start, 0) IN IF end < 0 \/ from > Len(s) \/ from > end THEN Val(<<>>) ELSE Slice(s, from, end)
SliceClamped(s, start, end) ==
    LET from == Larger(start, 0)
        to == IF end > Len(s) THEN Len(s) ELSE end
    IN  IF end < 0 \/ from > Len(s) \/ from > to THEN Val(<<>>) ELSE Slice(s, from, to)
SubStrFunction(a) ==
    Fn(Signature(a, <<{"string"}, {"int"}, {"int"}>>), "string", Strict(a, {SliceClamped(a[1].v, a[2].v[1], a[3].v[1])}))
BytesSliceFunction(a) ==
    Fn(Signature(a, <<{"bytes"}, {"int"}, {"int"}>>), "bytes", Strict(a, {SliceClamped(a[1].v, a[2].v[1], a[3].v[1])}))
ReplaceFunction(a) == Fn(Signature(a, <<{"string"}, {"string"}, {"string"}>>), "string", Strict(a, Vals(SomeText)))
\* Null arguments are formatted; only a null format makes the result null.
SprintfFunction(a) ==
    Fn(Len(a) >= 2 /\ Is(a[1], {"string"}), "string",
       Strict(<<a[1]>>, Strict(SelectSeq(Tail(a), LAMBDA e : e.k # "null"), Vals(SomeText))))

(* Conversions *)

Convertible == Numeric \cup {"string"}
AnyInt == {<<MinInt>>, <<0>>, <<MaxInt>>}
ToIntFunction(a) ==
    Fn(Len(a) = 1 /\ Is(a[1], Convertible), "int",
       Strict(a, CASE a[1].id = "float" -> IF a[1].v[1] \in MinInt..MaxInt THEN {Val(a[1].v)} ELSE Vals(AnyInt)
                   [] a[1].id = "decimal" -> {Val(<<ToInt64(a[1].v)>>)}
                   [] a[1].id = "string" -> Vals(AnyInt) \cup {Error}
                   [] OTHER -> {Val(a[1].v)}))
ToFloatFunction(a) ==
    Fn(Len(a) = 1 /\ Is(a[1], Convertible), "float",
       Strict(a, CASE a[1].id = "decimal" -> Vals(Floats \ {<<NaN>>})
                   [] a[1].id = "string" -> Vals(Floats) \cup {Error}
                   [] OTHER -> {Val(a[1].v)}))
ToStringFunction(a) ==
    Fn(Len(a) = 1, "string", Strict(a, IF a[1].id \in Texts THEN {Val(a[1].v)} ELSE Vals(SomeText \ {<<>>})))
DecimalOf(x, e, p, s) ==
    CASE e.id = "decimal" -> {Val(ConvertPrecisionAndScale(x, p, s))}
      [] e.id \in {"float", "string"} -> Vals({<<n, p, s>> : n \in {-1, 0, 1}}) \cup {Error}
      [] OTHER -> {Val(<<IncreaseScaleBy(x[1], s), p, s>>)}
ToDecimalFunction(a) ==
    FnDec(/\ Signature(a, <<Convertible, {"int"}, {"int"}>>) /\ a[2].lit /\ a[3].lit
          /\ 1 <= a[2].v[1] /\ a[2].v[1] <= MaxScale
          /\ 0 <= a[3].v[1] /\ a[3].v[1] <= MaxScale /\ a[3].v[1] <= a[2].v[1], a[2].v[1], a[3].v[1],
          Strict(<<a[1]>>, DecimalOf(a[1].v, a[1], a[2].v[1], a[3].v[1])))
ToBytesFunction(a) == Fn(OneText(a), "bytes", Strict(a, {Val(a[1].v)}))
ToTimestampFunction(a) == Fn(Signature(a, <<{"int", "timestamp"}>>), "timestamp", Strict(a, {Val(a[1].v)}))
FormatDateFunction(a) == Fn(Signature(a, <<{"timestamp"}, {"string"}>>), "string", Strict(a, Vals(SomeText)))
ParseDateFunction(a) == Fn(Signature(a, <<{"string"}, {"string"}>>), "timestamp", Strict(a, Vals(SomeTime) \cup {Error}))
DateField(a, values) == Fn(Signature(a, <<{"timestamp"}>>), "int", Strict(a, Vals(values)))
YearFunction(a) == DateField(a, SomeTime)
MonthFunction(a) == DateField(a, SomeTime \ {<<0>>})
DayFunction(a) == DateField(a, SomeTime \ {<<0>>})
HourFunction(a) == DateField(a, SomeTime)
MinuteFunction(a) == DateField(a, SomeTime)
SecondFunction(a) == DateField(a, SomeTime)
MillisFunction(a) == DateField(a, SomeTime)
NowFunction(a) == Fn(a = <<>>, "timestamp", Vals(SomeTime))

(* Json and Kafka headers *)

Json(a, id, found) == Fn(Signature(a, <<{"string"}, Texts>>), id, Strict(a, Vals(found) \cup {Null}))
JsonIntFunction(a) == Json(a, "int", AnyInt)
JsonFloatFunction(a) == Json(a, "float", Floats)
JsonBoolFunction(a) == Json(a, "bool", {<<0>>, <<1>>})
JsonStringFunction(a) == Json(a, "string", SomeText)
JsonRawFunction(a) == Json(a, "string", SomeText \ {<<>>})
JsonIsNullFunction(a) == Json(a, "bool", {<<0>>, <<1>>})
JsonTypeFunction(a) == Json(a, "string", SomeText \ {<<>>})

HeaderBytesNoValue(n, v) == <<Len(n.v)>> \o n.v \o <<Len(v.v)>>
\* A varint is one element.  The count is the number of pairs, although a pair with a null
\* name is not written; a null value is written as no bytes.
HeaderBytes(n, v) == IF n.k = "null" THEN <<>> ELSE <<Len(n.v)>> \o n.v \o <<Len(v.v)>> \o v.v
HeaderFails(n, v) == n.k \in {"err", "panic"} \/ (n.k = "val" /\ v.k \in {"err", "panic"})
KafkaBuildHeadersFunction(a) ==
    LET pairs == [i \in 1..(Len(a) \div 2) |-> HeaderBytes(a[2 * i - 1], a[2 * i])]
        failed == {i \in 1..(Len(a) \div 2) : HeaderFails(a[2 * i - 1], a[2 * i])}
    IN  Fn(/\ Len(a) >= 2 /\ Len(a) % 2 = 0
           /\ \A i \in 1..(Len(a) \div 2) : Is(a[2 * i - 1], {"string"}) /\ Is(a[2 * i], Texts), "bytes",
           {IF failed = {} THEN Val(<<Len(a) \div 2>> \o FlattenSeq(pairs))
            ELSE LET i == Min(failed)
                 IN  OutcomeOf(IF a[2 * i - 1].k # "val" THEN a[2 * i - 1] ELSE a[2 * i])})
\* The value of the header, searched from offset off with n headers to go.
kafkaGetHeader(name, h) ==
    LET scan[n \in 0..Len(h), off \in 0..Len(h)] ==
            LET nameOff == off + 1
                valLenOff == nameOff + h[off + 1]
                valOff == valLenOff + 1
            IN  CASE n = 0 -> Null
                  [] n > 0 /\ off >= Len(h) -> Error
                  [] n > 0 /\ off < Len(h) /\ valLenOff = Len(h) -> Error
                  [] n > 0 /\ off < Len(h) /\ valLenOff > Len(h) -> Panic
                  [] OTHER ->
                     IF SubSeq(h, nameOff + 1, valLenOff) = name THEN Slice(h, valOff, valOff + h[valLenOff + 1])
                     ELSE IF valOff + h[valLenOff + 1] > Len(h) THEN (IF n = 1 THEN Null ELSE Panic)
                     ELSE scan[n - 1, valOff + h[valLenOff + 1]]
    IN  IF h = <<>> THEN Error ELSE scan[IF h[1] > Len(h) THEN Len(h) ELSE h[1], 1]
KafkaHeaderFunction(a) ==
    Fn(Signature(a, <<{"string"}, {"bytes"}>>), "bytes", Strict(a, {kafkaGetHeader(a[1].v, a[2].v)}))
Uint64At(s, pos) ==
    CASE pos < 0 \/ pos >= Len(s) -> {Null}
      [] 0 <= pos /\ pos < Len(s) /\ pos + Uint64Len > Len(s) -> {Panic}
      [] OTHER -> Vals(AnyInt)
Uint64BEFunction(a) == Fn(Signature(a, <<{"bytes"}, {"int"}>>), "int", Strict(a, Uint64At(a[1].v, a[2].v[1])))
Uint64LEFunction(a) == Fn(Signature(a, <<{"bytes"}, {"int"}>>), "int", Strict(a, Uint64At(a[1].v, a[2].v[1])))
\* An external function with one int parameter that returns an int or fails.
ExternalTypes(a) == Signature(a, <<{"int"}>>)
ExternalFunction(a) == Fn(ExternalTypes(a), "int", Strict(a, {Val(<<0>>), Error}))

----------------------------------------------------------------------------
(* Building expressions *)

createUnaryOperator(op, a) == IF op = "!" THEN LogicalNotOperator(a) ELSE {}
createBinaryOperator(op, a) ==
    CASE op = "+" -> AddOperator(a)
      [] op = "-" -> SubtractOperator(a)
      [] op = "*" -> MultiplyOperator(a)
      [] op = "/" -> DivideOperator(a)
      [] op = "%" -> ModulusOperator(a)
      [] op = "==" -> EqualsOperator(a)
      [] op = "!=" -> NotEqualsOperator(a)
      [] op = ">" -> GreaterThanOperator(a)
      [] op = ">=" -> GreaterOrEqualsOperator(a)
      [] op = "<" -> LessThanOperator(a)
      [] op = "<=" -> LessOrEqualsOperator(a)
      [] op = "&&" -> LogicalAndOperator(a)
      [] op = "||" -> LogicalOrOperator(a)
BinaryOps == {"+", "-", "*", "/", "%", "==", "!=", ">", ">=", "<", "<=", "&&", "||"}
createFunctionOperator(f, a) ==
    CASE f = "if" -> IfFunction(a)                   [] f = "is_null" -> IsNullFunction(a)
      [] f = "is_not_null" -> IsNotNullFunction(a)   [] f = "in" -> InFunction(a)
      [] f = "case" -> CaseFunction(a)               [] f = "decimal_shift" -> DecimalShiftFunction(a)
      [] f = "len" -> LenFunction(a)                 [] f = "concat" -> ConcatFunction(a)
      [] f = "starts_with" -> StartsWithFunction(a)  [] f = "ends_with" -> EndsWithFunction(a)
      [] f = "matches" -> MatchesFunction(a)         [] f = "trim" -> TrimFunction(a)
      [] f = "ltrim" -> LTrimFunction(a)             [] f = "rtrim" -> RTrimFunction(a)
      [] f = "to_lower" -> ToLowerFunction(a)        [] f = "to_upper" -> ToUpperFunction(a)
      [] f = "sub_str" -> SubStrFunction(a)          [] f = "replace" -> ReplaceFunction(a)
      [] f = "sprintf" -> SprintfFunction(a)         [] f = "to_int" -> ToIntFunction(a)
      [] f = "to_float" -> ToFloatFunction(a)        [] f = "to_string" -> ToStringFunction(a)
      [] f = "to_decimal" -> ToDecimalFunction(a)    [] f = "to_bytes" -> ToBytesFunction(a)
      [] f = "to_timestamp" -> ToTimestampFunction(a) [] f = "format_date" -> FormatDateFunction(a)
      [] f = "parse_date" -> ParseDateFunction(a)    [] f = "now" -> NowFunction(a)
      [] f = "year" -> YearFunction(a)               [] f = "month" -> MonthFunction(a)
      [] f = "day" -> DayFunction(a)                 [] f = "hour" -> HourFunction(a)
      [] f = "minute" -> MinuteFunction(a)           [] f = "second" -> SecondFunction(a)
      [] f = "millis" -> MillisFunction(a)           [] f = "json_int" -> JsonIntFunction(a)
      [] f = "json_float" -> JsonFloatFunction(a)    [] f = "json_bool" -> JsonBoolFunction(a)
      [] f = "json_string" -> JsonStringFunction(a)  [] f = "json_raw" -> JsonRawFunction(a)
      [] f = "json_is_null" -> JsonIsNullFunction(a) [] f = "json_type" -> JsonTypeFunction(a)
      [] f = "kafka_build_headers" -> KafkaBuildHeadersFunction(a)
      [] f = "kafka_header" -> KafkaHeaderFunction(a) [] f = "bytes_slice" -> BytesSliceFunction(a)
      [] f = "uint64_be" -> Uint64BEFunction(a)      [] f = "uint64_le" -> Uint64LEFunction(a)
      [] f = "abs" -> AbsFunction(a)                 [] f = "external" -> ExternalFunction(a)
FunctionNames ==
    {"if", "is_null", "is_not_null", "in", "case", "decimal_shift", "len", "concat", "starts_with", "ends_with",
     "matches", "trim", "ltrim", "rtrim", "to_lower", "to_upper", "sub_str", "replace", "sprintf", "to_int",
     "to_float", "to_string", "to_decimal", "to_bytes", "to_timestamp", "format_date", "parse_date", "now",
     "year", "month", "day", "hour", "minute", "second", "millis", "json_int", "json_float", "json_bool", "json_string", "json_raw", "json_is_null", "json_type",
     "kafka_build_headers", "kafka_header", "bytes_slice", "uint64_be", "uint64_le", "abs", "external"}

\* The calls that a constructor accepts and that then panic, or give a value of another
\* type, on some rows.  Each is left out unless Unchecked names it.
Accepted(f, a, e) ==
    /\ "trim_bytes" \in Unchecked \/ ~(f \in {"ltrim", "rtrim"} /\ a[1].id = "bytes")
    /\ "short_uint64" \in Unchecked \/ ~(f \in {"uint64_be", "uint64_le"} /\ e.k = "panic")
    /\ "raw_headers" \in Unchecked \/ ~(f = "kafka_header" /\ e.k = "panic")
    /\ "wide_scale" \in Unchecked \/ e.scale <= MaxScale
    /\ "mixed_case" \in Unchecked \/ ~(f = "case" /\ \E i \in 1..Len(a) : i % 2 = 1 /\ i > 1 /\ ~ColumnTypesEqual(a[i], Last(a)))
Bounded(e) ==
    /\ e.id = "decimal" /\ e.k = "val" => e.v[1] \in (-MaxNum)..MaxNum
    /\ Len(e.v) <= MaxLen

Init == operands = <<>>

\* A column or a literal.
Operand ==
    /\ Len(operands) < Len(Leaves)
    /\ \E e \in Leaves[Len(operands) + 1] : operands' = Append(operands, e)
Operator ==
    /\ operands # <<>>
    /\ \E op \in BinaryOps \cup {"!"} :
         \E e \in (IF op = "!" THEN createUnaryOperator(op, operands) ELSE createBinaryOperator(op, operands)) :
            Accepted(op, operands, e) /\ Bounded(e) /\ operands' = <<e>>
Function ==
    \E f \in FunctionNames :
      \E e \in createFunctionOperator(f, operands) :
         Accepted(f, operands, e) /\ Bounded(e) /\ operands' = <<e>>

Next == Operand \/ Operator \/ Function
Spec == Init /\ [][Next]_operands

----------------------------------------------------------------------------
(* Properties *)

HasType(e) ==
    CASE e.id \in {"int", "timestamp"} -> Len(e.v) = 1 /\ e.v[1] \in MinInt..MaxInt
      [] e.id = "float" -> Len(e.v) = 1
      [] e.id = "bool" -> e.v \in {<<0>>, <<1>>}
      [] e.id = "decimal" -> Len(e.v) = 3 /\ e.v[2] = e.prec /\ e.v[3] = e.scale
      [] OTHER -> TRUE
\* An expression that was accepted never panics, and its value has the type that ResultType
\* promised to the batch builders, precision and scale of a decimal included (a column
\* stores only the number, so another scale would silently change the value).
WellTyped == \A i \in 1..Len(operands) : LET e == operands[i] IN e.k # "panic" /\ (e.k = "val" => HasType(e))

Comparable(a) ==
    /\ Len(a) = 2 /\ SameID(a[1], a[2]) /\ Is(a[1], Ordered) /\ a[1].k = "val" /\ a[2].k = "val"
    /\ ~HasNaN(a[1].id, a[1].v, a[2].v)
Gives(exprs) == \A e \in exprs : e.k = "val" /\ e.v = <<1>>
Swap(a) == <<a[2], a[1]>>
\* The six comparisons, written separately in the code, agree with one order: exactly one of
\* <, == and > holds, the others are their complements, swapping the operands mirrors them,
\* decimals of different scales are ordered as numbers, and in finds what == finds.
ComparisonsAgree ==
    LET a == operands
        lt == Gives(LessThanOperator(a))
        eq == Gives(EqualsOperator(a))
        gt == Gives(GreaterThanOperator(a))
    IN  Comparable(a) =>
        /\ Cardinality({b \in {"lt", "eq", "gt"} : (b = "lt" /\ lt) \/ (b = "eq" /\ eq) \/ (b = "gt" /\ gt)}) = 1
        /\ Gives(NotEqualsOperator(a)) = ~eq
        /\ Gives(GreaterOrEqualsOperator(a)) = ~lt
        /\ Gives(LessOrEqualsOperator(a)) = ~gt
        /\ Gives(GreaterThanOperator(Swap(a))) = lt
        /\ Gives(InFunction(<<a[1], a[2], a[2]>>)) = eq
        /\ a[1].id = "decimal" => lt = (a[1].v[1] * 10^a[2].v[3] < a[2].v[1] * 10^a[1].v[3])

\* Decimal arithmetic is exact: a sum, a difference or a product is the number it should be or
\* an error because it does not fit, and a quotient is cut off, not rounded up, at the scale of
\* the dividend.
DecimalsExact ==
    LET x == operands[1].v
        y == operands[2].v
        Scaled10(v, s) == v[1] * 10^(s - v[3])
        s == x[3] + y[3]
    IN  (Comparable(operands) /\ operands[1].id = "decimal") =>
        /\ \A e \in AddOperator(operands) : e.k = "val" => Scaled10(e.v, s) = Scaled10(x, s) + Scaled10(y, s)
        /\ \A e \in SubtractOperator(operands) : e.k = "val" => Scaled10(e.v, s) = Scaled10(x, s) - Scaled10(y, s)
        /\ \A e \in MultiplyOperator(operands) : e.k = "val" => e.v = <<x[1] * y[1], e.prec, e.scale>>
        /\ \A e \in DivideOperator(operands) :
              /\ (e.k = "err") = (y[1] = 0)
              /\ e.k = "val" => LET r == x[1] * 10^y[3] - e.v[1] * y[1]
                                IN  /\ (IF r < 0 THEN -r ELSE r) < (IF y[1] < 0 THEN -y[1] ELSE y[1])
                                    /\ r = 0 \/ (r < 0) = (x[1] < 0)

\* A header that kafka_build_headers wrote is found by kafka_header with the value it was
\* given (no bytes for null), also when headers with a null name were left out before it.
HeadersFound ==
    (Len(operands) \in {2, 4} /\ \A i \in 1..Len(operands) : operands[i].k \in {"val", "null"}) =>
        \A h \in KafkaBuildHeadersFunction(operands) :
          \A i \in 1..(Len(operands) \div 2) :
            LET n == operands[2 * i - 1]
                first == \A j \in 1..(i - 1) : operands[2 * j - 1].k = "null" \/ operands[2 * j - 1].v # n.v
            IN  (n.k = "val" /\ first) =>
                  \A e \in KafkaHeaderFunction(<<n, h>>) : e.k = "val" /\ e.v = operands[2 * i].v
=============================================================================
