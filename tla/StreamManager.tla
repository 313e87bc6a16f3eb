--------------------------- MODULE StreamManager ---------------------------
(***************************************************************************)
(* The stream manager of one node (opers/mgr.go): how a CREATE STREAM is   *)
(* turned into operators, receivers and slabs, how streams are wired to    *)
(* the streams they read, how a stream is taken down again, and how the    *)
(* graph gives the two numbers versioning lives on: the receivers that get *)
(* barriers injected and the completions a version must collect.           *)
(*                                                                         *)
(* The manager is a record, and a method of streamManager is an operator   *)
(* from the record to what the call leaves behind.  A descriptor keeps the *)
(* arguments the control depends on; "valid" stands for all the argument   *)
(* checks of that operator that look at nothing but its own arguments, and *)
(* "kafka" says that the columns are those of KafkaSchema.  The hash that  *)
(* spreads partitions over processors is the constant ProcessorsOf.        *)
(***************************************************************************)
EXTENDS Integers, Sequences, FiniteSets, SequencesExt

CONSTANT ProcessorsOf(_)   \* ids of the processors of a scheme of n partitions

ReservedIdentifierNames ==
    {"by", "with", "from", "to", "const", "partition", "offset", "event_time", "ws", "we"}

(* A descriptor, as the parser hands it over: OpDesc(kind) with the         *)
(* arguments that matter overridden.                                        *)
OpDesc(kind) ==
    [kind |-> kind, parts |-> 0, from |-> <<>>, tables |-> {}, store |-> TRUE,
     windowed |-> FALSE, ret |-> FALSE, kafka |-> FALSE, valid |-> TRUE]

MustBeFirst == {"bridge_from", "join", "kafka_in", "union", "continuation"}
NeverFirst == {"bridge_to", "filter", "partition", "project", "store_stream",
               "store_table", "kafka_out", "aggregate"}
MustBeLast == {"bridge_to", "store_stream", "store_table", "kafka_out"}

ValidateStream(descs) ==
    \A i \in DOMAIN descs :
        LET kind == descs[i].kind IN
        /\ kind \in MustBeFirst => i = 1
        /\ kind \in NeverFirst => i # 1
        /\ (kind \in MustBeLast \/ (kind = "aggregate" /\ descs[i].store)) => i = Len(descs)
        /\ kind = "backfill" => i = 2 /\ descs[1].kind = "continuation"
        /\ kind = "topic" => Len(descs) = 1

MaybeRewriteDesc(descs) ==
    IF descs[1].kind = "topic"
    THEN << [descs[1] EXCEPT !.kind = "kafka_in"], [descs[1] EXCEPT !.kind = "kafka_out"] >>
    ELSE descs

(***************************************************************************)
(* Building the operators.  A builder carries the operators made so far,   *)
(* the receiver and slab ids not yet handed out (sliceSeq), the slabs that *)
(* will be deleted with the stream, the slabs that get a retention, and    *)
(* what was already entered in the manager's side tables.                  *)
(***************************************************************************)
NoSlab == [slab |-> 0, type |-> "none"]

Builder(rs, ss) ==
    [opers |-> <<>>, rs |-> rs, ss |-> ss, user |-> NoSlab, extra |-> {}, rets |-> {},
     bridgeFrom |-> FALSE, parts |-> {}, endpoint |-> FALSE, err |-> FALSE]

Fail(b) == [b EXCEPT !.err = TRUE]

(* An operator that is built: its receiver (0: none), the partitions and    *)
(* the offset column of its output, and the slab findOffsetsSlabID finds    *)
(* when it starts at this operator (0: none).                               *)
Built(kind, rcv, parts, offset, kafka, offsets) ==
    [kind |-> kind, rcv |-> rcv, parts |-> parts, offset |-> offset, kafka |-> kafka,
     offsets |-> offsets]

(* Appends an operator that used up r receiver ids and s slab ids.          *)
Push(b, oper, r, s) ==
    [b EXCEPT !.opers = Append(@, oper), !.rs = SubSeq(@, r + 1, Len(@)),
              !.ss = SubSeq(@, s + 1, Len(@))]

DeployBridgeFromOperator(b, d) ==
    IF d.parts < 1 \/ ~d.valid THEN Fail(b)
    ELSE [Push(b, Built("bridge_from", b.rs[1], d.parts, TRUE, TRUE, 0), 1, 1)
            EXCEPT !.extra = @ \union {b.ss[1]}, !.bridgeFrom = TRUE]

(* The offsets slab of a kafka in is not among the stream's extra slabs.    *)
DeployKafkaInOperator(b, d) ==
    IF ~d.valid THEN Fail(b)
    ELSE Push(b, Built("kafka_in", b.rs[1], d.parts, TRUE, TRUE, b.ss[1]), 1, 1)

(* What bridge to, kafka out and store stream share: the user's slab, and a *)
(* slab for the offsets this operator adds when its input has none.         *)
SetupStoreStream(b, oper, r, s, ret) ==
    LET adds == ~Last(b.opers).offset IN
    [Push(b, oper, r, s)
       EXCEPT !.user = [slab |-> b.ss[1], type |-> "stream"],
              !.extra = @ \union (IF adds THEN {b.ss[2]} ELSE {}),
              !.rets = @ \union (IF ret THEN {b.ss[1]} ELSE {})]

DeployStoreStreamOperator(b, d) ==
    LET prev == Last(b.opers) IN
    SetupStoreStream(b, Built("store_stream", 0, prev.parts, TRUE, prev.kafka,
                              IF prev.offset THEN 0 ELSE b.ss[2]),
                     0, IF prev.offset THEN 1 ELSE 2, d.ret)

(* The backfill inside the bridge owns the receiver.  Retention is 24h when *)
(* the statement gives none.                                                *)
DeployBridgeToOperator(b, d) ==
    LET prev == Last(b.opers) IN
    IF ~prev.kafka \/ ~d.valid THEN Fail(b)
    ELSE SetupStoreStream(b, Built("bridge_to", b.rs[1], prev.parts, TRUE, TRUE, prev.offsets),
                          1, IF prev.offset THEN 1 ELSE 2, TRUE)

(* A kafka out below a kafka in of the same stream must keep its scheme.    *)
(* When an offset comes in that no slab holds, it stores the offset itself, *)
(* in a slab that is not among the extra slabs either.                      *)
DeployKafkaOutOperator(b, d) ==
    LET prev == Last(b.opers)
        stores == prev.offset /\ prev.offsets = 0
        in == b.opers[1].kind = "kafka_in" IN
    IF ~prev.kafka \/ (in /\ prev.parts # b.opers[1].parts) THEN Fail(b)
    ELSE [SetupStoreStream(b, Built("kafka_out", 0, prev.parts, prev.offset, TRUE, prev.offsets),
                           0, IF stores \/ ~prev.offset THEN 2 ELSE 1, d.ret)
            EXCEPT !.endpoint = ~in]

DeployPartitionOperator(b, d) ==
    IF d.parts <= 0 \/ ~d.valid THEN Fail(b)
    ELSE [Push(b, Built("partition", b.rs[1], d.parts, FALSE, Last(b.opers).kafka, 0), 1, 0)
            EXCEPT !.parts = @ \union {b.rs[1]}]

DeployAggregateOperator(b, d) ==
    LET prev == Last(b.opers)
        results == IF d.windowed THEN b.ss[3] ELSE b.ss[1] IN
    IF ~d.valid THEN Fail(b)
    ELSE [Push(b, Built("aggregate", b.rs[1], prev.parts, FALSE, FALSE, prev.offsets), 1,
               IF ~d.windowed THEN 1 ELSE IF d.store THEN 3 ELSE 2)
            EXCEPT !.extra = @ \union {b.ss[1]} \union (IF d.windowed THEN {b.ss[2]} ELSE {}),
                   !.user = IF d.store THEN [slab |-> results, type |-> "table"] ELSE NoSlab,
                   !.rets = @ \union (IF d.windowed THEN {b.ss[1]} ELSE {})
                              \union (IF d.ret /\ (d.store \/ ~d.windowed) THEN {results} ELSE {})]

DeployStoreTableOperator(b, d) ==
    LET prev == Last(b.opers) IN
    IF ~d.valid THEN Fail(b)
    ELSE [Push(b, Built("store_table", 0, prev.parts, FALSE, prev.kafka, prev.offsets), 0, 1)
            EXCEPT !.user = [slab |-> b.ss[1], type |-> "table"],
                   !.rets = @ \union (IF d.ret THEN {b.ss[1]} ELSE {})]

(* Operators with no state of their own: filter and project.                *)
DeployPlainOperator(b, d) ==
    LET prev == Last(b.opers) IN
    IF ~d.valid THEN Fail(b)
    ELSE Push(b, [prev EXCEPT !.kind = d.kind, !.rcv = 0,
                              !.kafka = IF d.kind = "project" THEN d.kafka ELSE @], 0, 0)

(* The operator a stream ends with: what its children read.                 *)
LastOper(sm, name) == Last(sm.streams[name].opers)

DeployBackfillOperator(sm, b, descs) ==
    IF sm.streams[descs[1].from[1]].user.type # "stream" THEN Fail(b)
    ELSE Push(b, [Last(b.opers) EXCEPT !.kind = "backfill", !.rcv = b.rs[1]], 1, 0)

DeployContinuation(sm, b, d) ==
    IF d.from[1] \notin DOMAIN sm.streams THEN Fail(b)
    ELSE Push(b, [LastOper(sm, d.from[1]) EXCEPT !.kind = "continuation", !.rcv = 0], 0, 0)

(* d.tables holds the sides (1: left, 2: right) that are tables; a table    *)
(* side must be a stream with a user slab.                                  *)
DeployJoinOperator(sm, b, d) ==
    IF ~(Range(d.from) \subseteq DOMAIN sm.streams) THEN Fail(b)
    ELSE LET left == LastOper(sm, d.from[1])
             right == LastOper(sm, d.from[2]) IN
         IF \/ left.parts # right.parts
            \/ d.tables = {1, 2} \/ ~d.valid
            \/ \E i \in d.tables : sm.streams[d.from[i]].user = NoSlab
         THEN Fail(b)
         ELSE [Push(b, Built("join", b.rs[1], left.parts, FALSE, FALSE, 0), 1, 2)
                 EXCEPT !.extra = @ \union {b.ss[1], b.ss[2]},
                        !.rets = @ \union (IF d.tables = {} THEN {b.ss[1], b.ss[2]} ELSE {})]

DeployUnionOperator(sm, b, d) ==
    IF ~(Range(d.from) \subseteq DOMAIN sm.streams) THEN Fail(b)
    ELSE LET first == LastOper(sm, d.from[1]) IN
         IF \E name \in Range(d.from) : \/ LastOper(sm, name).parts # first.parts
                                        \/ LastOper(sm, name).kafka # first.kafka
         THEN Fail(b)
         ELSE Push(b, Built("union", b.rs[1], first.parts, FALSE, first.kafka, 0), 1, 0)

DeployOper(sm, descs, b, d) ==
    IF b.err THEN b
    ELSE CASE d.kind = "bridge_from"  -> DeployBridgeFromOperator(b, d)
           [] d.kind = "bridge_to"    -> DeployBridgeToOperator(b, d)
           [] d.kind = "kafka_in"     -> DeployKafkaInOperator(b, d)
           [] d.kind = "kafka_out"    -> DeployKafkaOutOperator(b, d)
           [] d.kind = "partition"    -> DeployPartitionOperator(b, d)
           [] d.kind = "aggregate"    -> DeployAggregateOperator(b, d)
           [] d.kind = "store_stream" -> DeployStoreStreamOperator(b, d)
           [] d.kind = "store_table"  -> DeployStoreTableOperator(b, d)
           [] d.kind = "backfill"     -> DeployBackfillOperator(sm, b, descs)
           [] d.kind = "join"         -> DeployJoinOperator(sm, b, d)
           [] d.kind = "union"        -> DeployUnionOperator(sm, b, d)
           [] d.kind = "continuation" -> DeployContinuation(sm, b, d)
           [] OTHER                   -> DeployPlainOperator(b, d)

(***************************************************************************)
(* The manager.  streams maps a name to what StreamInfo holds; downOps is   *)
(* the list of downstream operators of a stream's last operator, each named *)
(* by the stream it belongs to, the command that made it and the port; torn *)
(* keeps the operators of undeployed streams that are still wired.          *)
(***************************************************************************)
NewStreamManager ==
    [streams |-> <<>>, torn |-> <<>>, receivers |-> <<>>, endpoints |-> {},
     bridgeFromOpers |-> {}, partitionOperators |-> {}, meta |-> <<>>,
     injectable |-> {<<0, 0>>}, required |-> -1, loaded |-> FALSE, shuttingDown |-> FALSE,
     lastCommandID |-> 0, panic |-> FALSE]

(* Function with one more pair, and with a set of arguments less.           *)
Put(f, k, v) == [x \in DOMAIN f \union {k} |-> IF x = k THEN v ELSE f[x]]
Without(f, ks) == [x \in DOMAIN f \ ks |-> f[x]]

PrepareForShutdown(sm) == [sm EXCEPT !.shuttingDown = TRUE]

(* Operators whose Setup registers a receiver: all that have one.           *)
Receivers(key, opers) == { [id |-> opers[i].rcv, at |-> <<key, i>>] :
                              i \in {j \in DOMAIN opers : opers[j].rcv # 0} }
Register(sm, rcvs) ==
    [sm EXCEPT !.receivers = [id \in DOMAIN @ \union {r.id : r \in rcvs} |->
         IF \E r \in rcvs : r.id = id THEN (CHOOSE r \in rcvs : r.id = id).at ELSE @[id]]]

OpersOf(sm, key) ==
    IF key[1] \in DOMAIN sm.streams /\ sm.streams[key[1]].cmd = key[2]
    THEN sm.streams[key[1]].opers ELSE sm.torn[key]
Oper(sm, pos) == OpersOf(sm, pos[1])[pos[2]]

(* RequiresBarriersInjection of the receivers.                              *)
RequiresBarriersInjection(kind) == kind \in {"bridge_from", "kafka_in", "aggregate"}

(* The receivers each processor injects, as (processor, receiver) pairs;    *)
(* receiver 0 is the dummy receiver, on processor 0.                        *)
CalculateInjectableReceivers(sm) ==
    [sm EXCEPT !.injectable = {<<0, 0>>} \union
        UNION { {<<p, id>> : p \in ProcessorsOf(Oper(sm, sm.receivers[id]).parts)} :
                  id \in {i \in DOMAIN sm.receivers :
                            RequiresBarriersInjection(Oper(sm, sm.receivers[i]).kind)} }]

(* Mutant: the cached number of completions survives a change of the graph. *)
InvalidateNothing(sm) == sm

InvalidateCachedInfo(sm) == [sm EXCEPT !.required = -1]

(* What the deferred wirings of the first operator connect, in order.       *)
Wires(d) ==
    [i \in DOMAIN d.from |-> [up |-> d.from[i],
        port |-> IF d.kind = "join" THEN (IF i \in d.tables THEN "none"
                                          ELSE IF i = 1 THEN "left" ELSE "right")
                 ELSE "in"]]

(* One wire: the upstream's children, its last operator's downstreams, and  *)
(* its row in the table of streams.                                         *)
Wire(sm, name, cmd, w) ==
    LET up == [sm.streams[w.up] EXCEPT
                 !.downs = @ \union {name},
                 !.downOps = IF w.port = "none" THEN @
                             ELSE Append(@, [key |-> <<name, cmd>>, port |-> w.port])] IN
    [sm EXCEPT !.streams[w.up] = up, !.meta[w.up] = up.downs]

(* UpstreamStreamNames is keyed by the name of the upstream, so of two      *)
(* wires from the same stream it keeps the last.                            *)
UpstreamStreamNames(wires) ==
    [u \in {wires[i].up : i \in DOMAIN wires} |->
        wires[CHOOSE i \in DOMAIN wires :
                 wires[i].up = u /\ \A j \in DOMAIN wires : wires[j].up = u => j <= i].port]

(* The first operator whose Setup can fail: a consumer or a producer of an  *)
(* external Kafka.  A bridge from registers its receiver before it starts   *)
(* consumers, a bridge to starts its producers first.                       *)
SetupFailsAt(opers) == SelectInSeq(opers, LAMBDA o : o.kind \in {"bridge_from", "bridge_to"})
SetupBefore(opers, i) ==
    SubSeq(opers, 1, IF opers[i].kind = "bridge_from" THEN i ELSE i - 1)

DeployStreamInfo(sm, name, cmd, descs, b) ==
    LET wires == Wires(descs[1])
        info == [cmd |-> cmd, opers |-> b.opers, user |-> b.user, extra |-> b.extra,
                 ups |-> UpstreamStreamNames(wires), downs |-> {}, downOps |-> <<>>,
                 undeploying |-> FALSE]
        sm1 == [sm EXCEPT !.streams = Put(@, name, info), !.meta = Put(@, name, {}),
                          !.endpoints = IF b.opers[1].kind = "kafka_in"
                                        THEN @ \union {name} ELSE @]
        sm2 == FoldLeft(LAMBDA s, w : Wire(s, name, cmd, w), InvalidateCachedInfo(sm1), wires)
        sm3 == [sm2 EXCEPT !.lastCommandID = cmd] IN
    IF sm.loaded
    THEN CalculateInjectableReceivers(Register(sm3, Receivers(<<name, cmd>>, b.opers)))
    ELSE sm3

(* The rest of deployStream, once the operators are built: b may hold an    *)
(* error, and one of the operators may fail in Setup.                       *)
DeployBuilt(sm, name, cmd, descs, b, fails) ==
    IF b.err THEN [sm |-> sm, err |-> "user", rets |-> {}]
    ELSE IF fails /\ SetupFailsAt(b.opers) # 0
    THEN [sm |-> Register([sm EXCEPT !.torn = Put(@, <<name, cmd>>, b.opers)],
                          Receivers(<<name, cmd>>, SetupBefore(b.opers, SetupFailsAt(b.opers)))),
          err |-> "setup", rets |-> {}]
    ELSE [sm |-> DeployStreamInfo(sm, name, cmd, descs, b), err |-> "none", rets |-> b.rets]

(* What the operators put in the side tables as they are built.             *)
SideTables(sm, name, cmd, b) ==
    [sm EXCEPT !.bridgeFromOpers = @ \union (IF b.bridgeFrom THEN {<<name, cmd>>} ELSE {}),
               !.partitionOperators = @ \union b.parts,
               !.endpoints = @ \union (IF b.endpoint THEN {name} ELSE {})]
DeployOpers(sm, name, cmd, descs, b, fails) ==
    DeployBuilt(SideTables(sm, name, cmd, b), name, cmd, descs, b, fails)
BuildOpers(sm, descs, b) == FoldLeft(LAMBDA acc, d : DeployOper(sm, descs, acc, d), b, descs)

(* DeployStream and deployStream.  err is "none", "user" (a TektiteError),  *)
(* "shutdown" or "setup"; rets are the slabs that got a retention.  A       *)
(* stream that fails on a later operator leaves what the earlier ones put   *)
(* in the side tables, and one that fails in Setup leaves its receivers.    *)
DeployStream(sm, st, rs, ss, cmd, setupFails) ==
    LET descs == MaybeRewriteDesc(st.descs) IN
    IF \/ st.name \in ReservedIdentifierNames \/ st.name \in DOMAIN sm.streams
       \/ ~ValidateStream(st.descs)
    THEN [sm |-> sm, err |-> "user", rets |-> {}]
    ELSE IF sm.shuttingDown THEN [sm |-> sm, err |-> "shutdown", rets |-> {}]
    ELSE DeployOpers(sm, st.name, cmd, descs, BuildOpers(sm, descs, Builder(rs, ss)), sm.loaded /\ setupFails)

(* Loaded: the replay of the commands is over, set everything up.  The      *)
(* cached number of completions is not touched.                             *)
Loaded(sm) ==
    LET all == UNION { Receivers(<<n, sm.streams[n].cmd>>, sm.streams[n].opers) :
                         n \in DOMAIN sm.streams } IN
    [CalculateInjectableReceivers(Register(sm, all)) EXCEPT !.loaded = TRUE]

(* Mutant: the operator stays in its upstream's list.                       *)
RemoveWiresKeepsOperator(sm, name, info) ==
    [sm EXCEPT !.streams = [u \in DOMAIN @ |->
        IF u \notin DOMAIN info.ups THEN @[u] ELSE [@[u] EXCEPT !.downs = @ \ {name}]]]

(* RemoveDownStreamOperator on the last operator of an upstream, for every  *)
(* entry of UpstreamStreamNames.  It panics when the operator is not there, *)
(* as undeploying does when the upstream is gone.                           *)
RemoveWires(sm, name, info) ==
    LET refs(u) == [key |-> <<name, info.cmd>>, port |-> info.ups[u]]
        found(u) == u \in DOMAIN sm.streams
                    /\ (info.ups[u] = "none" \/ refs(u) \in Range(sm.streams[u].downOps)) IN
    IF \E u \in DOMAIN info.ups : ~found(u) THEN [sm EXCEPT !.panic = TRUE]
    ELSE [sm EXCEPT !.streams = [u \in DOMAIN @ |->
             IF u \notin DOMAIN info.ups THEN @[u]
             ELSE [@[u] EXCEPT !.downs = @ \ {name},
                               !.downOps = SelectSeq(@, LAMBDA r : r # refs(u))]]]

(* Operators of a stream that is gone stay alive while something upstream   *)
(* still has them in its list of downstream operators.                      *)
KeepTorn(sm, name, info) ==
    IF \E u \in DOMAIN sm.streams : \E r \in Range(sm.streams[u].downOps) :
          r.key = <<name, info.cmd>>
    THEN [sm EXCEPT !.torn = Put(@, <<name, info.cmd>>, info.opers)] ELSE sm

(* UndeployStream; dels are the slabs deleteSlab marks for deletion.        *)
UndeployStream(sm, name, cmd) ==
    IF sm.shuttingDown THEN [sm |-> sm, err |-> "shutdown", dels |-> {}]
    ELSE IF \/ name \notin DOMAIN sm.streams
            \/ sm.streams[name].undeploying \/ sm.streams[name].downs # {}
    THEN [sm |-> sm, err |-> "user", dels |-> {}]
    ELSE
    LET info == sm.streams[name]
        gone == {info.opers[i].rcv : i \in DOMAIN info.opers}
        sm1 == [sm EXCEPT !.receivers = IF sm.loaded THEN Without(@, gone) ELSE @,
                          !.streams = Without(@, {name})]
        sm2 == KeepTorn(RemoveWires(sm1, name, info), name, info)
        sm3 == [InvalidateCachedInfo(sm2) EXCEPT
                  !.endpoints = @ \ {name}, !.meta = Without(@, {name}),
                  !.bridgeFromOpers = @ \ {<<name, info.cmd>>}, !.lastCommandID = cmd] IN
    [sm |-> IF sm.loaded THEN CalculateInjectableReceivers(sm3) ELSE sm3, err |-> "none",
     dels |-> info.extra \union (IF info.user = NoSlab THEN {} ELSE {info.user.slab})]

(***************************************************************************)
(* The number of completions a version needs.                              *)
(***************************************************************************)
(* The operators directly downstream of the one at pos.                     *)
GetDownStreamOperators(sm, pos) ==
    IF pos[2] < Len(OpersOf(sm, pos[1])) THEN {<<pos[1], pos[2] + 1>>}
    ELSE IF pos[1] \in DOMAIN sm.torn THEN {}
    ELSE {<<r.key, 1>> : r \in Range(sm.streams[pos[1][1]].downOps)}

(* The operators that get a node in the partition tree.                     *)
IsTreeNode(kind) == kind \in {"bridge_from", "kafka_in", "partition", "join", "union"}

(* buildPartitionTree, without the tree: the nodes first met on the ways    *)
(* down from pos, pos included.                                             *)
RECURSIVE TreeNodes(_, _)
TreeNodes(sm, pos) ==
    IF IsTreeNode(Oper(sm, pos).kind) THEN {pos}
    ELSE UNION {TreeNodes(sm, d) : d \in GetDownStreamOperators(sm, pos)}
TreeChildren(sm, pos) ==
    UNION {TreeNodes(sm, d) : d \in GetDownStreamOperators(sm, pos)}

(* The leaves under a set of nodes; the same operator may be met on several *)
(* ways and counts once.                                                    *)
RECURSIVE FindTerminalOperators(_, _)
FindTerminalOperators(sm, nodes) ==
    UNION { LET below == TreeChildren(sm, n) IN
            IF below = {} THEN {n} ELSE FindTerminalOperators(sm, below) : n \in nodes }

InjectedReceivers(sm) ==
    {id \in DOMAIN sm.receivers :
        RequiresBarriersInjection(Oper(sm, sm.receivers[id]).kind)}

CalcRequiredCompletions(sm) ==
    LET roots == UNION {TreeNodes(sm, sm.receivers[id]) : id \in InjectedReceivers(sm)} IN
    1 + FoldSet(LAMBDA n, sum : sum + Cardinality(ProcessorsOf(Oper(sm, n).parts)),
                0, FindTerminalOperators(sm, roots))

GetRequiredCompletions(sm) ==
    IF sm.required # -1 THEN sm ELSE [sm EXCEPT !.required = CalcRequiredCompletions(sm)]

(***************************************************************************)
(* Reference: the completions that one round of barriers really produces.  *)
(* A receiver that handles a barrier passes it down its operators; a       *)
(* partition, join or union forwards it to its own receiver, on all        *)
(* processors of its scheme, and every other operator passes it on.  A     *)
(* barrier for a receiver that is not registered is dropped, and one that  *)
(* is forwarded nowhere is a completion.                                   *)
(***************************************************************************)
ForwardsTo(sm, pos) == TreeChildren(sm, pos)

RECURSIVE Reached(_, _)
Reached(sm, seen) ==
    LET next == {q \in UNION {ForwardsTo(sm, p) : p \in seen} :
                    Oper(sm, q).rcv \in DOMAIN sm.receivers} IN
    IF next \subseteq seen THEN seen ELSE Reached(sm, seen \union next)

Completions(sm) ==
    LET ends == {p \in Reached(sm, {sm.receivers[id] : id \in InjectedReceivers(sm)}) :
                    ForwardsTo(sm, p) = {}} IN
    1 + FoldSet(LAMBDA p, sum : sum + Cardinality(ProcessorsOf(Oper(sm, p).parts)), 0, ends)
=============================================================================
