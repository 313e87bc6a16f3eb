------------------------------- MODULE Parser -------------------------------
(* The parser of statements and expressions (parser/parser.go,               *)
(* parser/expr.go, parser/ast.go).  The input is a sequence of tokens that   *)
(* grows by phrases; at every state the parse of what has been written so    *)
(* far is what the properties are about.  A token is its text; what the      *)
(* lexer makes of characters, positions and the wording of errors are left   *)
(* out.  A parse returns [st, pos, v]: st is "ok", "error" or "panic", pos   *)
(* the number of tokens consumed, v the description.                         *)
EXTENDS Integers, Sequences, SequencesExt, FiniteSets

CONSTANTS
    Opening,     \* Opening[start]: how an input of this kind begins
    Phrases,     \* Phrases[start]: the phrases it grows by
    MaxPhrases,  \* MaxPhrases[start]: bound on their number
    Queries,     \* the starts whose input is a query
    OptionNames  \* the names of optional arguments, none a column's name

VARIABLES start, tokens, phrases

vars == <<start, tokens, phrases>>

-----------------------------------------------------------------------------
(***************************************************************************)
(* Tokens.                                                                 *)
(***************************************************************************)
\* Operators, with their precedence.
Precedence(op) ==
    CASE op \in {"asc", "desc"} -> 8 [] op = "!" -> 7 [] op \in {"*", "/"} -> 5 [] op \in {"+", "-"} -> 4
      [] op \in {"==", "<"} -> 3 [] op = "&&" -> 2 [] op = "||" -> 1 [] op = "as" -> 0

BinaryOps == {"*", "/", "+", "-", "==", "<", "&&", "||", "as"}
Functions == {"abs", "sum"}
Numbers == {"1", "2", "-1", "-2"}

\* The lexer's token type.
Type(t) ==
    CASE t = "(" -> "LParens" [] t = ")" -> "RParens" [] t = "," -> "ListSeparator"
      [] t \in BinaryOps -> "BinaryOp" [] t = "!" -> "UnaryOp" [] t \in {"asc", "desc"} -> "UnaryPostfixOp"
      [] t = ":=" -> "StreamAssignment" [] t = "->" -> "Pipe" [] t \in {"*=", "=*"} -> "JoinType"
      [] t = "=" -> "ArgAssignment" [] t \in Numbers -> "Integer" [] t \in {"1m", "1d"} -> "Duration"
      [] t \in {"'k'", "'v'"} -> "StringLiteral" [] t \in {"true", "false"} -> "BoolLiteral"
      [] t = "" -> "None" [] OTHER -> "Ident"

isFunction(t) == t \in Functions

Ok(pos, v) == [st |-> "ok", pos |-> pos, v |-> v]
Fail(v) == [st |-> "error", pos |-> 0, v |-> v]
Panic(v) == [st |-> "panic", pos |-> 0, v |-> v]

\* Go on with the outcome of a step unless it failed.
Then(r, next(_)) == IF r.st = "ok" THEN next(r) ELSE [st |-> r.st, pos |-> 0, v |-> <<>>]

-----------------------------------------------------------------------------
(***************************************************************************)
(* Expressions.  A tree is [op, args]; a leaf has no args.                 *)
(***************************************************************************)
Tree(op, args) == [op |-> op, args |-> args]

\* ExtractExpressionTokens from position pos + 1 of ts: where the expression
\* ends, and whether another one follows its ','.
RECURSIVE ExtractExpressionTokens(_, _, _, _)
ExtractExpressionTokens(ts, first, pos, parens) ==
    LET stop(more) == [to |-> pos, next |-> IF more THEN pos + 1 ELSE pos, more |-> more]
        go(n) == ExtractExpressionTokens(ts, first, pos + 1, n)
    IN  IF pos = Len(ts) THEN stop(FALSE)
        ELSE CASE Type(ts[pos + 1]) = "LParens" -> go(parens + 1)
               [] Type(ts[pos + 1]) = "RParens" -> IF parens = 0 THEN stop(FALSE) ELSE go(parens - 1)
               [] Type(ts[pos + 1]) = "Ident" /\ pos > first
                    /\ Type(ts[pos]) \notin {"BinaryOp", "LParens", "ListSeparator", "UnaryOp"} -> stop(FALSE)
               [] Type(ts[pos + 1]) = "ListSeparator" /\ parens = 0 -> stop(TRUE)
               [] OTHER -> go(parens)

IsOperator(t) == Type(t) \in {"BinaryOp", "UnaryOp"}

\* Mutant: operators of lower precedence are popped.
PopOperatorsLower(stack, tok) ==
    LET keep == {i \in 0..Len(stack) : \A j \in i + 1..Len(stack) :
                    IsOperator(stack[j]) /\ Precedence(stack[j]) < Precedence(tok)}
    IN  CHOOSE i \in keep : \A j \in keep : i <= j

\* How much of the stack stays when an operator arrives: operators of greater
\* precedence at its top are popped.
PopOperators(stack, tok) ==
    LET keep == {i \in 0..Len(stack) : \A j \in i + 1..Len(stack) :
                    IsOperator(stack[j]) /\ Precedence(stack[j]) > Precedence(tok)}
    IN  CHOOSE i \in keep : \A j \in keep : i <= j

\* How much of the stack is below its last '(' (0 if there is none).
BelowParens(stack) == IF "(" \in Range(stack) THEN SelectLastInSeq(stack, LAMBDA t : t = "(") ELSE 0

Top(s, keep) == Reverse(SubSeq(s, keep + 1, Len(s)))   \* what is popped, in order

\* checkUnaryOperand and checkValidFunction, on two tokens in sequence.
BadPair(prev, tok) ==
    \/ prev = "!" /\ tok = ")"
    \/ Type(prev) = "Ident" /\ tok = "(" /\ ~isFunction(prev)

\* A sign is part of a number when nothing, an operator or a ',' was seen last.
IsSign(ts, i, prev) ==
    /\ ts[i] \in {"-", "+"}
    /\ Type(prev) \in {"None", "BinaryOp", "UnaryOp", "ListSeparator"}
    /\ i < Len(ts) /\ Type(ts[i + 1]) = "Integer"
Signed(sign, n) == IF sign = "-" THEN "-" \o n ELSE n

\* shuntExpression: the state after the tokens of ts up to i.  Parentheses stay
\* in the output.  prev is the last token seen, and a number that took a sign
\* leaves the sign as prev.
RECURSIVE shuntExpression(_, _, _, _, _)
shuntExpression(ts, i, out, stack, prev) ==
    IF i > Len(ts)
    THEN IF prev = "!" \/ "(" \in Range(stack) THEN Fail(<<>>) ELSE Ok(0, out \o Reverse(stack))
    ELSE
    LET tok == ts[i]
        next(o, s) == shuntExpression(ts, i + 1, o, s, tok)
    IN  IF BadPair(prev, tok) THEN Fail(<<>>)
        ELSE CASE IsOperator(tok) /\ IsSign(ts, i, prev) ->
                    shuntExpression(ts, i + 2, Append(out, Signed(tok, ts[i + 1])), stack, tok)
               [] IsOperator(tok) ->
                    LET keep == PopOperators(stack, tok)
                    IN  next(out \o Top(stack, keep), Append(SubSeq(stack, 1, keep), tok))
               [] Type(tok) = "UnaryPostfixOp" -> next(out, <<tok>> \o stack)
               [] tok = "(" -> next(Append(out, tok), Append(stack, tok))
               [] tok = ")" ->
                    LET p == BelowParens(stack)
                        rest == SubSeq(stack, 1, p - 1)
                        closed == out \o Top(stack, p) \o <<tok>>
                    IN  IF p = 0 THEN Fail(<<>>)
                        ELSE IF rest # <<>> /\ isFunction(Last(rest))
                        THEN next(Append(closed, Last(rest)), Front(rest))
                        ELSE next(closed, rest)
               [] isFunction(tok) -> next(out, Append(stack, tok))
               [] tok = "," ->
                    LET p == BelowParens(stack) IN next(out \o Top(stack, p), SubSeq(stack, 1, p))
               [] OTHER -> next(Append(out, tok), stack)

\* The number of ')' that end sh[1..pos].
RECURSIVE trailing(_, _)
trailing(sh, pos) == IF pos > 0 /\ sh[pos] = ")" THEN 1 + trailing(sh, pos - 1) ELSE 0

\* parseExpression, which reads the shunted tokens backwards from pos;
\* createBinaryExpression, createUnaryExpression,
\* createUnaryPostfixExpression, createFunctionExpression.
RECURSIVE parseExpression(_, _)
RECURSIVE functionArguments(_, _, _)
functionArguments(sh, pos, args) ==
    IF pos = 0 THEN Panic("arguments")
    ELSE IF sh[pos] = "(" THEN Ok(pos - 1, args)
    ELSE Then(parseExpression(sh, pos), LAMBDA r : functionArguments(sh, r.pos, <<r.v>> \o args))

createFunctionExpression(sh, pos) ==
    IF pos = 1 \/ sh[pos - 1] # ")" THEN Fail(<<>>)
    ELSE Then(functionArguments(sh, pos - 2, <<>>), LAMBDA r : Ok(r.pos, Tree(sh[pos], r.v)))

createBinaryExpression(sh, pos) ==
    Then(parseExpression(sh, pos - 1), LAMBDA right :
    Then(parseExpression(sh, right.pos), LAMBDA left :
         Ok(left.pos, Tree(sh[pos], <<left.v, right.v>>))))

createUnaryExpression(sh, pos) ==
    Then(parseExpression(sh, pos - 1), LAMBDA r : Ok(r.pos, Tree(sh[pos], <<r.v>>)))

\* Drop n '(' before the expression, each of which must be there.
RECURSIVE dropParens(_, _, _)
dropParens(sh, r, n) ==
    IF n = 0 THEN r
    ELSE IF r.pos = 0 THEN Panic("parentheses")
    ELSE IF sh[r.pos] # "(" THEN Fail(<<>>)
    ELSE dropParens(sh, Ok(r.pos - 1, r.v), n - 1)

parseExpression(sh, from) ==
    IF sh = <<>> THEN Panic("empty")
    ELSE
    LET n == trailing(sh, from)
        pos == from - n
    IN  IF pos = 0 THEN Fail(<<>>)
        ELSE Then(CASE isFunction(sh[pos]) -> createFunctionExpression(sh, pos)
                    [] Type(sh[pos]) = "BinaryOp" -> createBinaryExpression(sh, pos)
                    [] Type(sh[pos]) \in {"UnaryOp", "UnaryPostfixOp"} -> createUnaryExpression(sh, pos)
                    [] Type(sh[pos]) \in {"Ident", "Integer", "StringLiteral", "BoolLiteral"} ->
                         Ok(pos - 1, Tree(sh[pos], <<>>))
                    [] sh[pos] = "(" -> Fail(<<>>)
                    [] OTHER -> Panic("unexpected token"),
                  LAMBDA r : dropParens(sh, r, n))

\* ParseExpression.
ParseExpression(ts) ==
    Then(shuntExpression(ts, 1, <<>>, <<>>, ""), LAMBDA r : parseExpression(r.v, Len(r.v)))

\* ParseExpressionList: v is the list of [tree, text].  An expression without
\* tokens makes the whole list empty.
RECURSIVE ParseExpressionList(_, _)
ParseExpressionList(pos, exprs) ==
    LET x == ExtractExpressionTokens(tokens, pos, pos, 0)
        text == SubSeq(tokens, pos + 1, x.to)
    IN  IF text = <<>> THEN Ok(x.next, <<>>)
        ELSE Then(ParseExpression(text), LAMBDA r :
             LET all == Append(exprs, [tree |-> r.v, text |-> text])
             IN  IF x.more THEN ParseExpressionList(x.next, all) ELSE Ok(x.next, all))

parseExpressions(pos) == ParseExpressionList(pos, <<>>)

-----------------------------------------------------------------------------
(***************************************************************************)
(* Statements.  A description is [op, names, exprs, keys, args, flags]:    *)
(* the names and expressions in their places, the optional arguments as a  *)
(* set of <<name, tokens of its value>>.                                   *)
(***************************************************************************)
Desc(op) == [op |-> op, names |-> <<>>, exprs |-> <<>>, keys |-> <<>>, args |-> {}, flags |-> {}]

HasNext(pos) == pos < Len(tokens)

\* NextToken, with endOfInputError if there is none; v is the token.
NextToken(pos) == IF HasNext(pos) THEN Ok(pos + 1, tokens[pos + 1]) ELSE Fail(<<>>)

\* expectToken.
expectToken(pos, expected) ==
    Then(NextToken(pos), LAMBDA r : IF r.v \in expected THEN r ELSE Fail(<<>>))

expectType(pos, type) == Then(NextToken(pos), LAMBDA r : IF Type(r.v) = type THEN r ELSE Fail(<<>>))

\* skipPastOptionalEquals: the position before the first token that is not '='.
RECURSIVE skipPastOptionalEquals(_)
skipPastOptionalEquals(pos) ==
    IF HasNext(pos) /\ tokens[pos + 1] = "=" THEN skipPastOptionalEquals(pos + 1) ELSE pos

parseNamedArgValue(pos, type) == expectType(skipPastOptionalEquals(pos), type)

\* parseDurationArg: the lexer takes days for a duration, ParseDuration does not.
parseDurationArg(pos) ==
    Then(parseNamedArgValue(pos, "Duration"), LAMBDA r : IF r.v = "1d" THEN Fail(<<>>) ELSE r)

\* parseBool.
parseBool(pos) == parseNamedArgValue(pos, "BoolLiteral")

\* parseWatermarkType.
parseWatermarkType(pos) ==
    Then(parseNamedArgValue(pos, "Ident"), LAMBDA r : IF r.v = "event_time" THEN r ELSE Fail(<<>>))

\* parseProps, after its '(': pairs of string literals up to the ')'.
RECURSIVE parsePairs(_, _)
parsePairs(pos, props) ==
    Then(NextToken(pos), LAMBDA key :
      IF key.v = ")" THEN Ok(key.pos, props)
      ELSE IF Type(key.v) # "StringLiteral" THEN Fail(<<>>)
      ELSE Then(parseNamedArgValue(key.pos, "StringLiteral"), LAMBDA val :
                parsePairs(val.pos, {p \in props : p[1] # key.v} \cup {<<key.v, val.v>>})))

parseProps(pos) == Then(expectToken(skipPastOptionalEquals(pos), {"("}), LAMBDA r : parsePairs(r.pos, {}))

\* parsePartitions: the mandatory partitions argument, added to d.
parsePartitions(pos, d) ==
    Then(expectToken(pos, {"partitions"}), LAMBDA r :
    Then(parseNamedArgValue(r.pos, "Integer"), LAMBDA n :
         Ok(n.pos, [d EXCEPT !.args = @ \cup {<<"partitions", <<n.v>>>>}])))

\* The value of an optional argument of a kind, as its tokens.
argValue(pos, kind) ==
    IF kind = "props" THEN parseProps(pos)
    ELSE Then(CASE kind = "duration" -> parseDurationArg(pos)
                [] kind = "int" -> parseNamedArgValue(pos, "Integer")
                [] kind = "bool" -> parseBool(pos)
                [] kind = "watermark" -> parseWatermarkType(pos),
              LAMBDA r : Ok(r.pos, <<r.v>>))

Has(d, name) == \E a \in d.args : a[1] = name

\* Mutant: an argument that is there already is replaced.
AddArgReplace(d, name, r) ==
    Ok(r.pos, [d EXCEPT !.args = {a \in @ : a[1] # name} \cup {<<name, r.v>>}])

\* An argument is given once (duplicateArgumentError).
AddArg(d, name, r) == IF Has(d, name) THEN Fail(<<>>) ELSE Ok(r.pos, [d EXCEPT !.args = @ \cup {<<name, r.v>>}])

\* The loop over optional arguments most descriptions have: kinds gives the
\* kind of each.  It ends at the ')' or at the end of the input.  Names that
\* are not known are an error when strict, and are passed over otherwise.
RECURSIVE optionalArgs(_, _, _, _)
optionalArgs(pos, d, kinds, strict) ==
    IF ~HasNext(pos) THEN Ok(pos, d)
    ELSE LET name == tokens[pos + 1]
             more(r) == optionalArgs(r.pos, r.v, kinds, strict)
         IN  CASE name = ")" -> Ok(pos + 1, d)
               [] Type(name) # "Ident" -> Fail(<<>>)
               [] name \in DOMAIN kinds /\ kinds[name] = "expressions" ->
                    Then(parseExpressions(pos + 1), LAMBDA r : more(Ok(r.pos, [d EXCEPT !.keys = r.v])))
               [] name \in DOMAIN kinds /\ kinds[name] # "expressions" ->
                    Then(argValue(pos + 1, kinds[name]), LAMBDA r : Then(AddArg(d, name, r), more))
               [] strict /\ name \notin DOMAIN kinds -> Fail(<<>>)
               [] OTHER -> more(Ok(pos + 1, d))

\* d with the expressions of a parseExpressions, at least n of them, at most m.
withExprs(r, d, n, m) ==
    IF Len(r.v) >= n /\ Len(r.v) <= m THEN Ok(r.pos, [d EXCEPT !.exprs = r.v]) ELSE Fail(<<>>)
Many == 99

Named(r, d) == Ok(r.pos, [d EXCEPT !.names = Append(@, r.v)])

\* d if a ')' follows.
closed(r) == Then(expectToken(r.pos, {")"}), LAMBDA e : Ok(e.pos, r.v))

\* parseOptionalRetention.
parseOptionalRetention(pos, d) ==
    Then(expectToken(pos, {")", "retention"}), LAMBDA t :
      IF t.v = ")" THEN Ok(t.pos, d)
      ELSE Then(parseDurationArg(t.pos), LAMBDA r :
           closed(Ok(r.pos, [d EXCEPT !.args = {<<"retention", <<r.v>>>>}]))))

\* One operator per description's parse; pos is after the operator's name.
BridgeFromDesc(pos) ==
    Then(expectType(pos, "Ident"), LAMBDA t :
    Then(parsePartitions(t.pos, Named(t, Desc("bridge from")).v), LAMBDA r :
         optionalArgs(r.pos, r.v, [poll_timeout |-> "duration", max_poll_messages |-> "int",
                                   watermark_type |-> "watermark", watermark_lateness |-> "duration",
                                   watermark_idle_timeout |-> "duration", props |-> "props"], TRUE)))

BridgeToDesc(pos) ==
    Then(expectType(pos, "Ident"), LAMBDA t :
         optionalArgs(t.pos, Named(t, Desc("bridge to")).v,
                      [props |-> "props", retention |-> "duration", initial_retry_delay |-> "duration",
                       max_retry_delay |-> "duration", connect_timeout |-> "duration",
                       send_timeout |-> "duration"], FALSE))

FilterDesc(pos) ==
    Then(expectToken(pos, {"by"}), LAMBDA t :
    Then(parseExpressions(t.pos), LAMBDA r : Then(withExprs(r, Desc("filter"), 1, 1), closed)))

StoreStreamDesc(pos) == parseOptionalRetention(pos, Desc("store stream"))

StoreTableDesc(pos) ==
    Then(expectToken(pos, {")", "by"}), LAMBDA t :
      IF t.v = ")" THEN Ok(t.pos, Desc("store table"))
      ELSE Then(parseExpressions(t.pos), LAMBDA r :
           Then(withExprs(r, Desc("store table"), 1, Many), LAMBDA d : parseOptionalRetention(d.pos, d.v))))

ProjectDesc(pos) ==
    Then(parseExpressions(pos), LAMBDA r : Then(withExprs(r, Desc("project"), 1, Many), closed))

PartitionDesc(pos) ==
    Then(expectToken(pos, {"by"}), LAMBDA t :
    Then(parseExpressions(t.pos), LAMBDA r :
    Then(withExprs(r, Desc("partition"), 1, Many), LAMBDA d :
    Then(parsePartitions(d.pos, d.v), LAMBDA p :
    Then(expectToken(p.pos, {")", "mapping"}), LAMBDA m :
      IF m.v = ")" THEN Ok(m.pos, p.v)
      ELSE Then(parseNamedArgValue(m.pos, "StringLiteral"), LAMBDA v :
           closed(AddArg(p.v, "mapping", Ok(v.pos, <<v.v>>)))))))))

AggregateDesc(pos) ==
    Then(parseExpressions(pos), LAMBDA r :
    Then(withExprs(r, Desc("aggregate"), 1, Many), LAMBDA d :
         optionalArgs(d.pos, d.v, [by |-> "expressions", size |-> "duration", hop |-> "duration",
                                   lateness |-> "duration", store |-> "bool", window_cols |-> "bool",
                                   retention |-> "duration"], FALSE)))

\* parseJoinInput: a stream, or a table.
parseJoinInput(pos, d, side) ==
    Then(NextToken(pos), LAMBDA t :
      IF t.v = "table"
      THEN Then(expectType(t.pos, "Ident"), LAMBDA r : Named(r, [d EXCEPT !.flags = @ \cup {side}]))
      ELSE IF Type(t.v) = "Ident" THEN Named(t, d) ELSE Fail(<<>>))

\* parseJoinElements: triples of columns and join type, up to the token that ends them.
RECURSIVE parseJoinElements(_, _)
parseJoinElements(pos, d) ==
    Then(NextToken(pos), LAMBDA t :
      IF t.v \in {")", "within", "retention"}
      THEN IF d.exprs = <<>> THEN Fail(<<>>) ELSE Ok(t.pos, d)
      ELSE Then(IF d.exprs = <<>> THEN expectType(pos, "Ident")
                ELSE Then(expectToken(pos, {","}), LAMBDA c : expectType(c.pos, "Ident")), LAMBDA left :
           Then(expectToken(left.pos, {"=", "*=", "=*"}), LAMBDA op :
           Then(expectType(op.pos, "Ident"), LAMBDA right :
                parseJoinElements(right.pos, [d EXCEPT !.exprs =
                    Append(@, [tree |-> Tree(op.v, <<Tree(left.v, <<>>), Tree(right.v, <<>>)>>),
                               text |-> <<left.v, op.v, right.v>>])])))))

\* The end of a join: within, retention, ')'.  A token other than retention
\* after within's value is passed over.
joinEnd(r) ==
    LET arg(pos, d, name) == Then(parseDurationArg(pos), LAMBDA v : AddArg(d, name, Ok(v.pos, <<v.v>>)))
        retention(pos, d, tok) ==
            IF tok = ")" THEN Ok(pos, d)
            ELSE IF tok = "retention" THEN Then(arg(pos, d, tok), closed)
            ELSE closed(Ok(pos, d))
        tok == tokens[r.pos]
    IN  IF tok = "within"
        THEN Then(arg(r.pos, r.v, tok), LAMBDA w : Then(NextToken(w.pos), LAMBDA t : retention(t.pos, w.v, t.v)))
        ELSE retention(r.pos, r.v, tok)

JoinDesc(pos) ==
    Then(parseJoinInput(pos, Desc("join"), "left table"), LAMBDA l :
    Then(expectToken(l.pos, {"with"}), LAMBDA w :
    Then(parseJoinInput(w.pos, l.v, "right table"), LAMBDA r :
    Then(expectToken(r.pos, {"by"}), LAMBDA b : Then(parseJoinElements(b.pos, r.v), joinEnd)))))

Watermarks == [watermark_type |-> "watermark", watermark_lateness |-> "duration",
               watermark_idle_timeout |-> "duration"]

KafkaInDesc(pos) ==
    Then(parsePartitions(pos, Desc("kafka in")), LAMBDA r : optionalArgs(r.pos, r.v, Watermarks, TRUE))

KafkaOutDesc(pos) == parseOptionalRetention(pos, Desc("kafka out"))

TopicDesc(pos) ==
    Then(parsePartitions(pos, Desc("topic")), LAMBDA r :
         optionalArgs(r.pos, r.v, [retention |-> "duration", watermark_type |-> "watermark",
                                   watermark_lateness |-> "duration",
                                   watermark_idle_timeout |-> "duration"], TRUE))

UnionDesc(pos) ==
    Then(parseExpressions(pos), LAMBDA r : Then(withExprs(r, Desc("union"), 2, Many), closed))

BackfillDesc(pos) == closed(Ok(pos, Desc("backfill")))

\* "from" and a table name, which end a get and a scan.
fromTable(r) ==
    Then(expectToken(r.pos, {"from"}), LAMBDA f :
    Then(expectType(f.pos, "Ident"), LAMBDA t : closed(Named(t, r.v))))

GetDesc(pos) ==
    Then(parseExpressions(pos), LAMBDA r : Then(withExprs(r, Desc("get"), 1, Many), fromTable))

\* An optional incl or excl, recorded in the flags if it is not the default.
bound(r, default, flag) ==
    IF HasNext(r.pos) /\ tokens[r.pos + 1] \in {"incl", "excl"}
    THEN Ok(r.pos + 1, IF tokens[r.pos + 1] = default THEN r.v ELSE [r.v EXCEPT !.flags = @ \cup {flag}])
    ELSE r

\* ScanDesc.parse and parseRange: from is inclusive and to exclusive unless
\* they say otherwise; start and end stand for no bound.
ScanDesc(pos) ==
    IF HasNext(pos) /\ tokens[pos + 1] = "all"
    THEN fromTable(Ok(pos + 1, [Desc("scan") EXCEPT !.flags = {"all"}]))
    ELSE
    Then(parseExpressions(pos), LAMBDA r :
    Then(withExprs(r, Desc("scan"), 1, Many), LAMBDA d :
    LET low == bound(Ok(d.pos, IF d.v.exprs[1].text = <<"start">> THEN [d.v EXCEPT !.exprs = <<>>] ELSE d.v),
                     "incl", "from excl")
    IN
    Then(expectToken(low.pos, {"to"}), LAMBDA t :
    Then(parseExpressions(t.pos), LAMBDA e :
      IF e.v = <<>> THEN Fail(<<>>)
      ELSE fromTable(bound(Ok(e.pos, IF e.v[1].text = <<"end">> THEN low.v ELSE [low.v EXCEPT !.keys = e.v]),
                           "excl", "to incl"))))))

SortDesc(pos) ==
    Then(expectToken(pos, {"by"}), LAMBDA t :
    Then(parseExpressions(t.pos), LAMBDA r : Then(withExprs(r, Desc("sort"), 1, Many), closed)))

\* ContinuationDesc: whatever the token is.
ContinuationDesc(pos) == Ok(pos + 1, [Desc("continuation") EXCEPT !.names = <<tokens[pos + 1]>>])

\* CreateStreamDesc.parseOperatorDesc.
streamOperator(pos) ==
    LET second(p, names) == expectToken(p, names)
    IN  IF ~HasNext(pos) THEN Fail(<<>>)
        ELSE IF tokens[pos + 1] # "(" THEN ContinuationDesc(pos)
        ELSE Then(NextToken(pos + 1), LAMBDA t :
             CASE t.v = "bridge" -> Then(second(t.pos, {"from", "to"}), LAMBDA u :
                    IF u.v = "from" THEN BridgeFromDesc(u.pos) ELSE BridgeToDesc(u.pos))
               [] t.v = "filter" -> FilterDesc(t.pos)
               [] t.v = "store" -> Then(second(t.pos, {"stream", "table"}), LAMBDA u :
                    IF u.v = "stream" THEN StoreStreamDesc(u.pos) ELSE StoreTableDesc(u.pos))
               [] t.v = "project" -> ProjectDesc(t.pos)
               [] t.v = "partition" -> PartitionDesc(t.pos)
               [] t.v = "aggregate" -> AggregateDesc(t.pos)
               [] t.v = "join" -> JoinDesc(t.pos)
               [] t.v = "kafka" -> Then(second(t.pos, {"in", "out"}), LAMBDA u :
                    IF u.v = "in" THEN KafkaInDesc(u.pos) ELSE KafkaOutDesc(u.pos))
               [] t.v = "topic" -> TopicDesc(t.pos)
               [] t.v = "union" -> UnionDesc(t.pos)
               [] t.v = "backfill" -> BackfillDesc(t.pos)
               [] OTHER -> Fail(<<>>))

\* QueryDesc.parseOperatorDesc.
queryOperator(pos) ==
    Then(expectToken(pos, {"("}), LAMBDA p :
    Then(expectToken(p.pos, {"get", "scan", "project", "filter", "sort"}), LAMBDA t :
         CASE t.v = "get" -> GetDesc(t.pos) [] t.v = "scan" -> ScanDesc(t.pos)
           [] t.v = "project" -> ProjectDesc(t.pos) [] t.v = "filter" -> FilterDesc(t.pos)
           [] t.v = "sort" -> SortDesc(t.pos)))

\* The loops of CreateStreamDesc.parse and QueryDesc.parse: operators joined
\* by '->' to the end of the input.
RECURSIVE operators(_, _, _)
operators(pos, descs, query) ==
    Then(IF query THEN queryOperator(pos) ELSE streamOperator(pos), LAMBDA r :
      LET all == Append(descs, r.v)
      IN  IF ~HasNext(r.pos) THEN Ok(r.pos, all)
          ELSE Then(expectToken(r.pos, {"->"}), LAMBDA p : operators(p.pos, all, query)))

\* PrepareQueryDesc: the parameters are collected, and each has a type.
PrepareQueryDesc ==
    Then(expectType(1, "Ident"), LAMBDA n :
    Then(expectToken(n.pos, {":="}), LAMBDA a :
    Then(operators(a.pos, <<>>, TRUE), LAMBDA r :
      LET isParam(t) == t \in {"$p", "$p:int"}
      IN  IF \E i \in a.pos + 1..r.pos : tokens[i] = "$p" THEN Fail(<<>>)
          ELSE Ok(r.pos, <<[Desc("prepare") EXCEPT
                               !.names = <<n.v>> \o SelectSeq(SubSeq(tokens, a.pos + 1, r.pos), isParam)]>>
                         \o r.v))))

\* DeleteStreamDesc, ListStreamsDesc and ShowStreamDesc.  What follows the ')'
\* is not looked at.
command(op, types) ==
    Then(expectToken(1, {"("}), LAMBDA p :
      IF op = "list" /\ HasNext(p.pos) /\ tokens[p.pos + 1] = ")" THEN Ok(p.pos + 1, <<Desc(op)>>)
      ELSE Then(expectType(p.pos, types), LAMBDA n : closed(Ok(n.pos, <<Named(n, Desc(op)).v>>))))

CreateStreamDesc ==
    Then(expectType(0, "Ident"), LAMBDA n :
    Then(expectToken(n.pos, {":="}), LAMBDA a :
         operators(a.pos, <<Named(n, Desc("create")).v>>, FALSE)))

\* TSLDesc.parse.
ParseTSL ==
    IF tokens = <<>> \/ Type(tokens[1]) # "Ident" THEN Fail(<<>>)
    ELSE CASE tokens[1] = "delete" -> command("delete", "Ident")
           [] tokens[1] = "prepare" -> PrepareQueryDesc
           [] tokens[1] = "list" -> command("list", "StringLiteral")
           [] tokens[1] = "show" -> command("show", "Ident")
           [] OTHER -> CreateStreamDesc

-----------------------------------------------------------------------------
Init == start \in DOMAIN Opening /\ tokens = Opening[start] /\ phrases = 0

\* Depth of parentheses before token i.
Depth(ts, i) == Len(SelectSeq(SubSeq(ts, 1, i - 1), LAMBDA t : t = "("))
              - Len(SelectSeq(SubSeq(ts, 1, i - 1), LAMBDA t : t = ")"))

\* No continuation of ts with at most left phrases is a well-formed expression:
\* an operand or ')' is followed by the start of another operand, an operator,
\* '(' or ',' by what cannot start one, a ')' closes nothing, or too many '('
\* or an operator are left open.
Spoilt(ts, left) ==
    LET ends(t) == t = ")" \/ Type(t) \in {"Integer", "UnaryPostfixOp"} \/ (Type(t) = "Ident" /\ ~isFunction(t))
        starts(t) == t \in {"(", "!"} \/ Type(t) \in {"Integer", "Ident"}
    IN  \/ \E i \in 1..Len(ts) - 1 :
             \/ ends(ts[i]) /\ starts(ts[i + 1])
             \/ ~ends(ts[i]) /\ ~starts(ts[i + 1]) /\ ts[i + 1] \notin {"-", "+"}
                  /\ ~(i > 1 /\ isFunction(ts[i - 1]) /\ ts[i + 1] = ")")
        \/ \E i \in 1..Len(ts) : Depth(ts, i + 1) < 0
        \/ Depth(ts, Len(ts) + 1) > left \/ (left = 0 /\ ~ends(Last(ts)))

\* The input goes on with another phrase; an expression is not spoilt.
Write(phrase) ==
    /\ phrases < MaxPhrases[start]
    /\ start = "expression" => ~Spoilt(tokens \o phrase, MaxPhrases[start] - phrases - 1)
    /\ tokens' = tokens \o phrase /\ phrases' = phrases + 1 /\ UNCHANGED start

Next == \E phrase \in Phrases[start] : Write(phrase)

Spec == Init /\ [][Next]_vars

\* Parse, ParseTSL, ParseQuery.
Parse == IF start \in Queries THEN operators(0, <<>>, TRUE) ELSE ParseTSL

-----------------------------------------------------------------------------
(***************************************************************************)
(* What an expression means: the reference.                                *)
(***************************************************************************)
\* The binary operators and commas of ts that are in no parentheses.
Outer(ts, S) == {i \in 1..Len(ts) : ts[i] \in S /\ Depth(ts, i) = 0}

Enclosed(ts) ==
    /\ Len(ts) >= 2 /\ ts[1] = "(" /\ Last(ts) = ")"
    /\ \A i \in 2..Len(ts) : Depth(ts, i) > 0
    /\ Depth(ts, Len(ts) + 1) = 0
Before(ts, i) == SubSeq(ts, 1, i - 1)
After(ts, i) == SubSeq(ts, i + 1, Len(ts))

\* The trees an expression without signs can be read as: its outermost
\* operator is one of those that bind least, the operators that are not in
\* parentheses being taken in any order among equals.
RECURSIVE Readings(_)
RECURSIVE ArgReadings(_)
ArgReadings(ts) ==
    LET commas == Outer(ts, {","})
        i == CHOOSE i \in commas : \A j \in commas : i <= j
    IN  IF commas = {} THEN {<<t>> : t \in Readings(ts)}
        ELSE {<<t>> \o rest : t \in Readings(Before(ts, i)), rest \in ArgReadings(After(ts, i))}

Readings(ts) ==
    LET ops == Outer(ts, BinaryOps)
        least == {i \in ops : \A j \in ops : Precedence(ts[i]) <= Precedence(ts[j])}
    IN  IF ts = <<>> THEN {}
        ELSE IF ops # {}
        THEN {Tree(ts[i], <<l, r>>) : <<i, l, r>> \in
                UNION {{i} \X Readings(Before(ts, i)) \X Readings(After(ts, i)) : i \in least}}
        ELSE IF ts[1] = "!" THEN {Tree("!", <<t>>) : t \in Readings(Tail(ts))}
        ELSE IF Len(ts) = 1 THEN IF ts[1] \in {"a"} \cup Numbers THEN {Tree(ts[1], <<>>)} ELSE {}
        ELSE IF Enclosed(ts) THEN Readings(Front(Tail(ts)))
        ELSE IF isFunction(ts[1]) /\ Enclosed(Tail(ts))
        THEN IF Len(ts) = 3 THEN {Tree(ts[1], <<>>)}
             ELSE {Tree(ts[1], args) : args \in ArgReadings(SubSeq(ts, 3, Len(ts) - 1))}
        ELSE {}

\* ts with every sign that belongs to a number made part of it.
RECURSIVE Literals(_, _)
SignAt(ts, i, prev) ==
    /\ ts[i] \in {"-", "+"} /\ i < Len(ts) /\ Type(ts[i + 1]) = "Integer"
    /\ Type(prev) \in {"None", "BinaryOp", "UnaryOp", "ListSeparator", "LParens"}
Literals(ts, prev) ==
    IF ts = <<>> THEN <<>>
    ELSE IF SignAt(ts, 1, prev)
    THEN <<Signed(ts[1], ts[2])>> \o Literals(SubSeq(ts, 3, Len(ts)), ts[2])
    ELSE <<Head(ts)>> \o Literals(Tail(ts), Head(ts))

\* No sign directly follows a '(', and no signed number is followed by a sign
\* and a number: those inputs are refused or misread.
PlainSigns(ts) ==
    \A i \in 1..Len(ts) : SignAt(ts, i, IF i = 1 THEN "" ELSE ts[i - 1]) =>
        /\ i > 1 => ts[i - 1] # "("
        /\ ~(i + 3 <= Len(ts) /\ ts[i + 2] \in {"-", "+"} /\ Type(ts[i + 3]) = "Integer")

\* A postfix operator applies to all of the expression.
Meanings(ts) ==
    IF ts # <<>> /\ Last(ts) \in {"asc", "desc"}
    THEN {Tree(Last(ts), <<t>>) : t \in Readings(Front(ts))} ELSE Readings(ts)

\* An operator whose right operand is an operator of its precedence.
RECURSIVE RightNested(_)
RightNested(t) ==
    \/ Len(t.args) = 2 /\ t.op \in BinaryOps /\ t.args[2].op \in BinaryOps
         /\ Precedence(t.args[2].op) = Precedence(t.op)
    \/ \E i \in DOMAIN t.args : RightNested(t.args[i])

\* Every well-formed expression is parsed, and the tree is one of its readings:
\* an operator that binds more strongly is nearer to its operands, whatever
\* the parentheses, function calls, prefix and postfix operators and signs
\* around it (shuntExpression and the backward parseExpression together).
PrecedenceRespected ==
    start = "expression" /\ PlainSigns(tokens) => \A meanings \in {Meanings(Literals(tokens, ""))} :
        meanings # {} => \A r \in {ParseExpression(tokens)} : r.st = "ok" /\ r.pos = 0 /\ r.v \in meanings

\* The options of an accepted statement are in its description: as many
\* descriptions have an option as the text gives it (so none is given twice to
\* one operator), and the value is the one written after the name.
ArgumentsKept ==
    start # "expression" => \A r \in {Parse} : r.st = "ok" =>
        LET written(name) == {i \in 2..Len(tokens) : tokens[i] = name /\ tokens[i - 1] # "("}
        IN  /\ \A name \in OptionNames :
                 Cardinality(written(name)) = Cardinality({i \in DOMAIN r.v : Has(r.v[i], name)})
            /\ \A i \in DOMAIN r.v : \A a \in r.v[i].args :
                 a[1] # "props" => \E j \in written(a[1]) : a[2] = <<tokens[skipPastOptionalEquals(j) + 1]>>

\* Operators of the same precedence associate from left to right, as the
\* comment over the table of operators says.
LeftAssociative ==
    start = "expression" /\ Range(tokens) \cap {"(", ")"} = {} /\ Meanings(Literals(tokens, "")) # {} =>
        ~RightNested(ParseExpression(tokens).v)

=============================================================================
