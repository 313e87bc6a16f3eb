------------------------------ MODULE MCParser ------------------------------
(* Inputs for the parser: expressions of a few tokens, and for every kind of  *)
(* statement its opening followed by phrases that go on, end or spoil it.     *)
EXTENDS Parser

Word(t) == <<t>>
MCOpening == [
    expression |-> <<>>, query |-> <<>>, prepare |-> <<"prepare", "q">>, command |-> <<>>, stream |-> <<"s", ":=">>,
    bridgeFrom |-> <<"s", ":=", "(", "bridge", "from", "t">>, bridgeTo |-> <<"s", ":=", "(", "bridge", "to", "t">>,
    storeTable |-> <<"s", ":=", "p", "->", "(", "store", "table">>,
    partition |-> <<"s", ":=", "p", "->", "(", "partition", "by", "a">>,
    aggregate |-> <<"s", ":=", "p", "->", "(", "aggregate", "sum", "(", "a", ")">>,
    join |-> <<"s", ":=", "(", "join", "p", "with">>,
    kafkaIn |-> <<"s", ":=", "(", "kafka", "in", "partitions", "1">>,
    topic |-> <<"s", ":=", "(", "topic", "partitions", "=", "2">>, scan |-> <<"(", "scan">>]

Retention == {<<"retention", "1m">>, <<"retention", "=", "1m">>, <<"retention", "1d">>}
Ends == {<<")">>, <<")", "->", "p">>}
Watermark == {<<"watermark_type", "event_time">>, <<"watermark_type", "a">>, <<"watermark_lateness", "1m">>,
              <<"watermark_idle_timeout", "=", "1m">>}
MCPhrases == [
    expression |-> {Word(t) : t \in {"a", "1", "-", "*", "!", "(", ")", ",", "desc"}} \cup {<<"abs", "(">>},
    query |-> {<<"(">>, <<")">>, <<"->">>, <<"get", "a", "from", "t">>, <<"project", "a", ",">>, <<"filter", "by">>,
               <<"sort", "by", "a", "desc">>, <<"a">>},
    prepare |-> {<<":=">>, <<"(", "get">>, <<"$p">>, <<"$p:int">>, <<"from", "t", ")">>, <<",">>},
    command |-> {<<"delete">>, <<"list">>, <<"show">>, <<"(">>, <<")">>, <<"a">>, <<"'k'">>},
    stream |-> {<<"p">>, <<"->">>, <<"(", "filter", "by", "a", ")">>, <<"(", "store", "stream">>, <<"(", "union">>,
                <<"a", ",">>, <<"a">>, <<")">>, <<"(", "kafka", "out">>, <<"(", "backfill">>, <<"retention", "1m">>},
    bridgeFrom |-> {<<"partitions", "1">>, <<"partitions", "=", "1">>, <<"poll_timeout", "1m">>,
                    <<"max_poll_messages", "2">>, <<"props", "=", "(", "'k'", "=", "'v'", ")">>, <<"other">>}
                   \cup Watermark \cup Ends,
    bridgeTo |-> {<<"props", "(", ")">>, <<"initial_retry_delay", "1m">>, <<"max_retry_delay", "=", "=", "1m">>,
                  <<"connect_timeout", "1m">>, <<"send_timeout", "1m">>, <<"other">>} \cup Retention \cup Ends,
    storeTable |-> {<<"by", "a">>, <<",", "b">>} \cup Retention \cup Ends,
    partition |-> {<<",", "b">>, <<"partitions", "1">>, <<"mapping", "'k'">>, <<"mapping", "a">>} \cup Ends,
    aggregate |-> {<<"by", "a">>, <<",", "b">>, <<"size", "1m">>, <<"hop", "1m">>, <<"lateness", "=", "1m">>,
                   <<"store", "true">>, <<"window_cols", "=", "false">>, <<"other">>} \cup Retention \cup Ends,
    join |-> {<<"table">>, <<"r">>, <<"by">>, <<"a", "=", "b">>, <<",", "a", "*=", "b">>, <<"within", "1m">>}
             \cup Retention \cup Ends,
    kafkaIn |-> {<<"partitions", "1">>, <<"other">>} \cup Watermark \cup Ends,
    topic |-> {<<"other">>} \cup Watermark \cup Retention \cup Ends,
    scan |-> {<<"all">>, <<"start">>, <<"a">>, <<"to">>, <<"incl">>, <<"excl">>, <<"end">>, <<"from", "t">>, <<")">>}]

MCMaxPhrases == [k \in DOMAIN MCOpening |->
    CASE k = "expression" -> 7 [] k \in {"query", "scan", "command", "prepare", "join"} -> 5 [] OTHER -> 4]
MCQueries == {"query", "scan"}
MCOptionNames == {"poll_timeout", "max_poll_messages", "watermark_type", "watermark_lateness",
    "watermark_idle_timeout", "props", "retention", "initial_retry_delay", "max_retry_delay", "connect_timeout",
    "send_timeout", "mapping", "size", "hop", "lateness", "store", "window_cols", "within", "partitions"}
=============================================================================
