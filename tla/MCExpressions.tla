--------------------------- MODULE MCExpressions ---------------------------
(* Operands for Expressions: integers of four bits, decimals of at most two *)
(* digits, strings and bytes of at most two bytes, a column of every type     *)
(* that is null on the row, and operands that fail.                            *)
EXTENDS Expressions

Column(id, vs) == {New(id, 0, 0, FALSE, o) : o \in Vals(vs) \cup {Null}}
Decimals(p, s, ns) == {New("decimal", p, s, FALSE, o) : o \in Vals({<<n, p, s>> : n \in ns}) \cup {Null}}
Literal(id, v) == New(id, 0, 0, TRUE, Val(v))

Scalars == Column("int", {<<-8>>, <<-1>>, <<0>>, <<1>>, <<7>>}) \cup Column("float", Floats)
           \cup Column("bool", {<<0>>, <<1>>}) \cup Column("timestamp", {<<0>>, <<1>>})
           \cup {New("int", 0, 0, FALSE, Error), New("bool", 0, 0, FALSE, Error)}
TextOperands == Column("string", {<<>>, <<1>>, <<2>>, <<1, 2>>}) \cup Column("bytes", {<<>>, <<1>>, <<2, 1>>})
                \cup {New("string", 0, 0, FALSE, Error), Literal("string", <<1>>)}
DecimalOperands == Decimals(1, 0, {-7, 0, 4}) \cup Decimals(2, 1, {-15, 3, 40, 90}) \cup Decimals(2, 2, {5, 50})
MCAny == Scalars \cup TextOperands \cup DecimalOperands
MCThird == Column("int", {<<1>>}) \cup {New("string", 0, 0, FALSE, o) : o \in {Val(<<2>>), Error}}
           \cup {New("bool", 0, 0, FALSE, Val(<<1>>)), New("decimal", 1, 0, FALSE, Val(<<4, 1, 0>>)),
                 Literal("int", <<0>>), Literal("int", <<2>>)}
MCFourth == {New("string", 0, 0, FALSE, Null), New("bytes", 0, 0, FALSE, Val(<<2, 1>>)),
             New("decimal", 2, 1, FALSE, Val(<<3, 2, 1>>))}
MCLeaves == <<MCAny, MCAny \cup {Literal("int", <<2>>)}, MCThird, MCFourth>>
=============================================================================
