---------------------------- MODULE MCCommands ----------------------------
(***************************************************************************)
(* Instances of Commands for TLC: two nodes, two processors, and catalogues *)
(* of statements over a few stream names.                                   *)
(***************************************************************************)
EXTENDS Commands

(* Two processors: one partition lives on the second, more on both.         *)
MCProcessorsOf(parts) == IF parts = 1 THEN {1} ELSE {0, 1}

Create(name, descs) == [kind |-> "create", name |-> name, descs |-> descs]
Delete(name) == [kind |-> "delete", name |-> name]
Prepare(name, on) == [kind |-> "prepare", name |-> name, on |-> on]

On(kind, from) == [OpDesc(kind) EXCEPT !.from = from]
Parts(kind, parts) == [OpDesc(kind) EXCEPT !.parts = parts]

BridgeA == Create("a", <<Parts("bridge_from", 2), [OpDesc("store_stream") EXCEPT !.ret = TRUE]>>)
ChildB == Create("b", <<On("continuation", <<"a">>), OpDesc("backfill"), Parts("partition", 2),
                        OpDesc("store_stream")>>)
UnionC == Create("c", <<On("union", <<"a", "b">>), OpDesc("filter"), OpDesc("bridge_to")>>)
JoinC == Create("c", <<On("join", <<"a", "b">>), Parts("partition", 1), OpDesc("store_table")>>)
TopicB == Create("b", <<Parts("topic", 1)>>)
KafkaOutC == Create("c", <<On("continuation", <<"b">>), [OpDesc("project") EXCEPT !.kafka = TRUE],
                           OpDesc("kafka_out")>>)
Aggregate(store) ==
    [OpDesc("aggregate") EXCEPT !.store = store, !.windowed = TRUE, !.ret = TRUE]
AggregateC ==
    Create("c", <<On("continuation", <<"a">>), Aggregate(FALSE), Parts("partition", 1),
                  OpDesc("store_table")>>)
TerminalAggregateC == Create("c", <<On("continuation", <<"a">>), Aggregate(TRUE)>>)
SelfJoinC == Create("c", <<On("join", <<"a", "a">>), OpDesc("store_stream")>>)

(* Streams a and b exist and two more statements are executed, or c as well *)
(* and there is one more.                                                   *)
MCStatements ==
    {UnionC, Prepare("q", "c"), Delete("b"), Delete("c")}
MCInitially ==
    {[table |-> <<BridgeA, ChildB>>, down |-> 0],
     [table |-> <<BridgeA, TopicB, AggregateC>>, down |-> 1],
     [table |-> <<BridgeA, TopicB, KafkaOutC>>, down |-> 0],
     [table |-> <<BridgeA, ChildB, JoinC>>, down |-> 0]}

(* An aggregate that stores its results ends its stream.                    *)
AggregateStatements == {TerminalAggregateC}
AggregateInitially == {[table |-> <<BridgeA, ChildB>>, down |-> 0]}

MCSymmetry == Permutations(Node)
=============================================================================
