------------------------------ MODULE Commands ------------------------------
(***************************************************************************)
(* The command managers of the nodes (command/mgr.go), each driving its    *)
(* node's stream manager: a statement that changes the schema is written   *)
(* to a replicated table of commands under a cluster wide lock, applied    *)
(* locally and signalled to the other nodes, which load and apply what     *)
(* they have not seen; a node that starts replays the whole table; and one *)
(* node removes the commands that no longer matter.  Around it are the     *)
(* sequence manager that hands out receiver and slab ids (sequence/mgr.go) *)
(* and the service that registers the prefixes of deleted slabs with the   *)
(* level manager once they are flushed (retention/pref_retentions.go).     *)
(*                                                                         *)
(* A node is a record.  Its mutex is held exactly while pc # "idle" or the *)
(* node is starting, so a signal is handled only when neither is the case. *)
(*                                                                         *)
(* Faults names what the code is exposed to and does not get right (the    *)
(* README shows what each one breaks):                                     *)
(*   concurrent  two nodes execute statements at the same time             *)
(*   behind      a node executes a statement before it has processed all   *)
(*               the commands in the table                                 *)
(*   reuse       a node executes a statement when another one has already  *)
(*               processed the id it will use, since the command that had  *)
(*               it was compacted and this node started after that         *)
(*   unseen      a command is compacted before a live node processed it    *)
(*   late_ttl    a node registers the retention of a slab after another    *)
(*               one registered its deletion                               *)
(*   lost_clear  a best effort removal from the table is lost              *)
(*   setup_error the Setup of an operator fails                            *)
(*   shutdown_race statements are executed while a node shuts down         *)
(*   early_completion a version completes while a node is starting         *)
(***************************************************************************)
EXTENDS StreamManager

CONSTANTS Node,             \* the nodes of the cluster
          Statements,       \* the statements users may issue
          Initially,        \* statements executed before, and how many nodes are down
          MaxCommands,      \* bound on command ids
          MaxFailures,      \* bound on crashes, shutdowns, lost messages, failed calls
          BatchSize,        \* slabAndReceiverSequencesBatchSize
          Faults            \* see above

VARIABLES node,             \* the state of each node
          log,              \* the table of commands: id -> statement and its ids
          stored,           \* the sequences object: next receiver and slab id
          lock,             \* holder of the cluster lock, {} or {n}
          signals,          \* requests under way, <<from, to>>
          registered,       \* prefix retentions of the level manager: slab -> kind
          deleted,          \* slabs of streams deleted by a statement (history)
          failures          \* how many of those so far

vars == <<node, log, stored, lock, signals, registered, deleted, failures>>

Ids == {i \in 1..MaxCommands : i \in DOMAIN log}
MaxId(ids) == IF ids = {} THEN 0 ELSE Max(ids)

(* receiver and slab ids a CREATE STREAM may need.                          *)
ReceiverCount(kind) ==
    IF kind \in {"bridge_from", "bridge_to", "kafka_in", "partition", "backfill", "aggregate",
                 "join", "topic", "union"} THEN 1 ELSE 0
SlabCount(kind) ==
    CASE kind \in {"bridge_from", "kafka_in", "partition", "store_table"} -> 1
      [] kind \in {"bridge_to", "kafka_out", "store_stream", "join"} -> 2
      [] kind \in {"aggregate", "topic"} -> 3
      [] OTHER -> 0
CalcSequencesCount(descs, slabs) ==
    FoldLeft(LAMBDA n, d : n + (IF slabs THEN SlabCount(d.kind) ELSE ReceiverCount(d.kind)), 0, descs)

(* Mutant: the object is not written back when a batch is fetched.          *)
GetNextIDNotStored(q) ==
    IF q.start < q.end THEN [q EXCEPT !.start = @ + 1, !.got = Append(@, q.start + 1)]
    ELSE [q EXCEPT !.start = q.object + 1, !.end = q.object + BatchSize,
                   !.got = Append(@, q.object + 1)]

(* GetNextID: q holds what this node has left of its batch, the object in   *)
(* the object store and the id handed out.  One fetches a batch under the   *)
(* sequences lock.                                                          *)
GetNextID(q) ==
    IF q.start < q.end THEN [q EXCEPT !.start = @ + 1, !.got = Append(@, q.start + 1)]
    ELSE [q EXCEPT !.start = q.object + 1, !.end = q.object + BatchSize,
                   !.object = @ + BatchSize, !.got = Append(@, q.object + 1)]

GetSequences(avail, object, count) ==
    LET q0 == [start |-> avail[1], end |-> avail[2], object |-> object, got |-> <<>>] IN
    FoldLeft(LAMBDA q, i : GetNextID(q), q0, [i \in 1..count |-> i])

(***************************************************************************)
(* Applying commands.  Statement processing works on what a node keeps:    *)
(* its stream manager, the ids to clear, the prefixes pending registration *)
(* and the prepared queries.                                               *)
(***************************************************************************)
Fresh == [sm |-> NewStreamManager, clear |-> {}, pend |-> <<>>, queries |-> {},
          err |-> "none", changed |-> FALSE]

(* AddPrefixRetention: pending until all data of the version after the      *)
(* current one is flushed, two flushes from now.                            *)
AddPrefixRetention(pend, slabs, kind) ==
    [s \in DOMAIN pend \union slabs |-> IF s \in slabs THEN [ret |-> kind, left |-> 2] ELSE pend[s]]

PrepareQuery(s, st) ==
    IF \/ st.name \in s.queries \/ st.on \notin DOMAIN s.sm.streams
       \/ s.sm.streams[st.on].user.type # "table"
    THEN [s EXCEPT !.err = "user"] ELSE [s EXCEPT !.queries = @ \union {st.name}]

(* What a deploy or an undeploy leaves in the node: the prefixes it gave a   *)
(* retention, and after a success the ids to clear.                         *)
Applied(s, r, slabs, kind, done) ==
    [s EXCEPT !.sm = r.sm, !.err = r.err, !.changed = @ \/ r.err = "none",
              !.pend = AddPrefixRetention(@, slabs, kind),
              !.clear = IF r.err = "none" THEN @ \union done ELSE @]
Created(s, r) == Applied(s, r, r.rets, "ttl", {})
Deleted(s, r, done) == Applied(s, r, r.dels, "zero", done)

(* Mutant: a delete leaves the create it undoes in the table.               *)
ApplyCommandKeepsCreate(s, id, c, setupFails) ==
    CASE c.st.kind = "create" -> Created(s, DeployStream(s.sm, c.st, c.rs, c.ss, id, setupFails))
      [] c.st.kind = "delete" -> Deleted(s, UndeployStream(s.sm, c.st.name, id), {id})
      [] OTHER -> PrepareQuery(s, c.st)

(* A create, delete or prepare.  A delete that succeeds leaves itself and   *)
(* the create it undoes to be cleared.                                      *)
ApplyCommand(s, id, c, setupFails) ==
    CASE c.st.kind = "create" -> Created(s, DeployStream(s.sm, c.st, c.rs, c.ss, id, setupFails))
      [] c.st.kind = "delete" ->
           Deleted(s, UndeployStream(s.sm, c.st.name, id), {id, s.sm.streams[c.st.name].cmd})
      [] OTHER -> PrepareQuery(s, c.st)

ClearFailed(s, id, errs) == IF s.err \in errs THEN [s EXCEPT !.clear = @ \union {id}] ELSE s

(* processCommands: an error of the user's makes the command one to clear   *)
(* and the next one is processed; shutting down is such an error here.  Any *)
(* other error ends the processing and keeps lastProcessedCommandID.        *)
ProcessCommand(s, id, c, setupFails) ==
    IF s.err = "setup" THEN s
    ELSE ClearFailed(ApplyCommand([s EXCEPT !.err = "none"], id, c, setupFails), id, {"user", "shutdown"})

ProcessCommands(s, ids, setupFails) ==
    FoldLeft(LAMBDA acc, id : ProcessCommand(acc, id, log[id], setupFails),
             s, SetToSortSeq(ids, <))

(* What a node that starts now makes of the table.                          *)
Replay == ProcessCommands(Fresh, Ids, FALSE)

Keeps(r) == [sm |-> r.sm, clear |-> r.clear, pend |-> r.pend, queries |-> r.queries,
             err |-> "none", changed |-> FALSE]

(* A node with the results of processing; a change of the graph of a loaded *)
(* stream manager ends with AfterReceiverChange, which makes the processors *)
(* forget the number of completions.                                        *)
WithResult(r, s) ==
    [r EXCEPT !.sm = s.sm, !.clear = s.clear, !.pend = s.pend, !.queries = s.queries,
              !.req = IF s.changed /\ s.sm.loaded THEN -1 ELSE @]

Processed(r, s, last) == [WithResult(r, s) EXCEPT !.last = IF s.err = "setup" THEN @ ELSE last]

(* loadAndProcessCommands.                                                  *)
LoadAndProcessCommands(r, setupFails) ==
    LET ids == {i \in Ids : i > r.last} IN
    IF ids = {} THEN r ELSE Processed(r, ProcessCommands(Keeps(r), ids, setupFails), Max(ids))

NoStatement == [kind |-> "none"]
Down == [up |-> "down", pc |-> "idle", last |-> 0, sm |-> NewStreamManager, clear |-> {},
         pend |-> <<>>, queries |-> {}, avail |-> <<0, 0, 0, 0>>, req |-> -1,
         st |-> NoStatement, rs |-> <<>>, ss |-> <<>>, id |-> 0, failed |-> FALSE]

(* The ids a statement gets from what is left of a node's batches.          *)
Sequences(st, avail, object) ==
    LET creates == st.kind = "create" IN
    [rs |-> GetSequences(<<avail[1], avail[2]>>, object[1],
                IF creates THEN CalcSequencesCount(st.descs, FALSE) ELSE 0),
     ss |-> GetSequences(<<avail[3], avail[4]>>, object[2],
                IF creates THEN CalcSequencesCount(st.descs, TRUE) ELSE 0)]

(* A table left by an earlier life of the cluster, in which one node        *)
(* executed the statements ts.                                              *)
TableOf(ts) ==
    FoldLeft(LAMBDA acc, st :
               LET q == Sequences(st, acc.avail, acc.object) IN
               [log |-> Append(acc.log, [st |-> st, rs |-> q.rs.got, ss |-> q.ss.got]),
                avail |-> <<q.rs.start, q.rs.end, q.ss.start, q.ss.end>>,
                object |-> <<q.rs.object, q.ss.object>>],
             [log |-> <<>>, avail |-> Down.avail, object |-> <<0, 0>>], ts)

(* Some nodes have started on such a table, whose retentions are            *)
(* registered.                                                              *)
Init ==
    \E i \in Initially : \E down \in {x \in SUBSET Node : Cardinality(x) = i.down} :
        /\ \E t \in {TableOf(i.table)} : log = t.log /\ stored = t.object
        /\ \E s \in {Replay} :
              /\ node = [n \in Node |-> IF n \in down THEN Down
                           ELSE [WithResult(Down, s) EXCEPT
                                   !.up = "up", !.sm = Loaded(@), !.pend = <<>>, !.last = Len(i.table)]]
              /\ registered = [p \in DOMAIN s.pend |-> s.pend[p].ret]
        /\ lock = {} /\ signals = {} /\ deleted = {} /\ failures = 0

Idle(n) == node[n].up = "up" /\ node[n].pc = "idle"
ShuttingDown == \E n \in Node : node[n].sm.shuttingDown

(***************************************************************************)
(* ExecuteCommand, up to the cluster lock: the statement parses, and a     *)
(* create gets all the receiver and slab ids it may need.                  *)
(***************************************************************************)
ExecuteCommand(n, st) ==
    /\ Idle(n)
    /\ MaxId({node[m].last : m \in Node} \union Ids) < MaxCommands
    /\ "concurrent" \in Faults \/ \A m \in Node : node[m].pc = "idle"
    /\ "behind" \in Faults \/ MaxId(Ids) <= node[n].last
    /\ "reuse" \in Faults \/ \A m \in Node : node[m].last <= MaxId({node[n].last} \union Ids)
    /\ ~ShuttingDown \/ ("shutdown_race" \in Faults /\ ~node[n].sm.shuttingDown)
    /\ LET q == Sequences(st, node[n].avail, stored) IN
       /\ node' = [node EXCEPT ![n].pc = "lock", ![n].st = st,
                               ![n].rs = q.rs.got, ![n].ss = q.ss.got,
                               ![n].avail = <<q.rs.start, q.rs.end, q.ss.start, q.ss.end>>]
       /\ stored' = <<q.rs.object, q.ss.object>>
    /\ UNCHANGED <<log, lock, signals, registered, deleted, failures>>

GetClusterLock(n) ==
    /\ node[n].pc = "lock" /\ lock = {}
    /\ lock' = {n} /\ node' = [node EXCEPT ![n].pc = "store"]
    /\ UNCHANGED <<log, stored, signals, registered, deleted, failures>>

EndCommand(r) == [r EXCEPT !.pc = "idle", !.st = NoStatement, !.rs = <<>>, !.ss = <<>>,
                           !.id = 0, !.failed = FALSE]
ReleaseClusterLock(n) == lock' = lock \ {n}

(* The command gets the id after the last one in the table (or after the    *)
(* last one processed), is stored with replication, and counts as           *)
(* processed: whatever else the load returned is not looked at.             *)
CommandOf(r) == [st |-> r.st, rs |-> r.rs, ss |-> r.ss]
NextCommandID(r) == MaxId({r.last} \union {i \in Ids : i > r.last}) + 1
StoreCommand(n) ==
    /\ node[n].pc = "store"
    /\ LET id == NextCommandID(node[n]) IN
       /\ log' = Put(log, id, CommandOf(node[n]))
       /\ node' = [node EXCEPT ![n].pc = "apply", ![n].id = id, ![n].last = id]
    /\ UNCHANGED <<stored, lock, signals, registered, deleted, failures>>

(* The command could not be stored: the error goes to the user.             *)
StoreCommandFails(n) ==
    /\ node[n].pc = "store" /\ failures < MaxFailures
    /\ failures' = failures + 1
    /\ node' = [node EXCEPT ![n] = EndCommand(@)]
    /\ ReleaseClusterLock(n)
    /\ UNCHANGED <<log, stored, signals, registered, deleted>>

(* The slabs of a stream.                                                   *)
SlabsOf(info) == info.extra \union (IF info.user = NoSlab THEN {} ELSE {info.user.slab})

(* The command is applied locally.  On an error that is not the user's, or  *)
(* when the node shuts down, the call returns here; otherwise the other     *)
(* nodes are signalled, and a node that is not there fails the broadcast.   *)
ApplyLocally(n) ==
    /\ node[n].pc = "apply"
    /\ \E setupFails \in IF "setup_error" \in Faults THEN BOOLEAN ELSE {FALSE} :
       \E s \in {ApplyCommand(Keeps(node[n]), node[n].id, CommandOf(node[n]), setupFails)} :
       LET r == node[n]
           result == WithResult(r, ClearFailed(s, r.id, {"user"}))
           others == {m \in Node \ {n} : node[m].up # "down"} IN
       /\ deleted' = deleted \union IF r.st.kind = "delete" /\ s.err = "none"
                                     THEN SlabsOf(r.sm.streams[r.st.name]) ELSE {}
       /\ IF s.err \in {"shutdown", "setup"}
          THEN /\ node' = [node EXCEPT ![n] = EndCommand(result)]
               /\ ReleaseClusterLock(n) /\ UNCHANGED signals
          ELSE /\ node' = [node EXCEPT ![n] = [result EXCEPT
                                !.pc = "signal", !.failed = others # Node \ {n}]]
               /\ signals' = signals \union {<<n, m>> : m \in others} /\ UNCHANGED lock
    /\ UNCHANGED <<log, stored, registered, failures>>

(* CommandAvailable returns with all the answers or the first error.        *)
FinishCommand(n) ==
    /\ node[n].pc = "signal"
    /\ node[n].failed \/ \A m \in Node : <<n, m>> \notin signals
    /\ node' = [node EXCEPT ![n] = EndCommand(@)]
    /\ ReleaseClusterLock(n)
    /\ UNCHANGED <<log, stored, signals, registered, deleted, failures>>

(* A signal: CheckProcessCommands, once the mutex is free.                  *)
HandleSignal(n, m) ==
    /\ <<n, m>> \in signals /\ Idle(m)
    /\ node' = [node EXCEPT ![m] = LoadAndProcessCommands(@, FALSE)]
    /\ signals' = signals \ {<<n, m>>}
    /\ UNCHANGED <<log, stored, lock, registered, deleted, failures>>

(* The request or its answer is lost: the broadcast fails.                  *)
LoseSignal(n, m) ==
    /\ <<n, m>> \in signals /\ failures < MaxFailures
    /\ failures' = failures + 1
    /\ signals' = signals \ {<<n, m>>} /\ node' = [node EXCEPT ![n].failed = TRUE]
    /\ UNCHANGED <<log, stored, lock, registered, deleted>>

(***************************************************************************)
(* Compaction of the table.  The compactor is the node that leads group 0; *)
(* that moves between nodes, so any node may be it when its timer fires.   *)
(***************************************************************************)
IsClusterCompactor(n) == node[n].up = "up"

(* Mutant: compacts while prefixes are still waiting to be registered.      *)
CanCompactPending(r) ==
    /\ r.clear # {}
    /\ \/ "unseen" \in Faults
       \/ \A m \in Node : node[m].up # "down" => MaxId(r.clear) <= node[m].last

CanCompact(r) ==
    /\ r.clear # {} /\ DOMAIN r.pend = {}
    /\ \/ "unseen" \in Faults
       \/ \A m \in Node : node[m].up # "down" => MaxId(r.clear) <= node[m].last

(* The removal is forwarded best effort and the ids are forgotten at once.  *)
Compacted(n, r, lost) ==
    /\ node' = [node EXCEPT ![n] = [r EXCEPT !.clear = {}]]
    /\ log' = IF lost THEN log ELSE Without(log, r.clear)

MaybeCompact(n) ==
    /\ Idle(n) /\ IsClusterCompactor(n) /\ CanCompact(node[n])
    /\ \E lost \in IF "lost_clear" \in Faults THEN BOOLEAN ELSE {FALSE} :
          Compacted(n, node[n], lost)
    /\ UNCHANGED <<stored, lock, signals, registered, deleted, failures>>

(***************************************************************************)
(* Versions: SetVersions of the retention service, with one more flushed   *)
(* version.  Prefixes whose version is flushed are registered; when that   *)
(* fails they stay pending and are tried again with the next version.      *)
(***************************************************************************)
SetVersions(n) ==
    /\ node[n].up = "up" /\ DOMAIN node[n].pend # {}
    /\ LET pend == node[n].pend
           due == {s \in DOMAIN pend : pend[s].left <= 1}
           late == {s \in due : pend[s].ret = "ttl" /\ s \in DOMAIN registered
                                /\ registered[s] = "zero"}
           aged == [s \in DOMAIN pend |-> [pend[s] EXCEPT !.left = 1]] IN
       /\ "late_ttl" \in Faults \/ late = {}
       /\ \/ /\ registered' = [s \in DOMAIN registered \union due |->
                                 IF s \in due THEN pend[s].ret ELSE registered[s]]
             /\ node' = [node EXCEPT ![n].pend = Without(aged, due)]
             /\ UNCHANGED failures
          \/ /\ due # {} /\ failures < MaxFailures
             /\ failures' = failures + 1
             /\ node' = [node EXCEPT ![n].pend = aged] /\ UNCHANGED registered
    /\ UNCHANGED <<log, stored, lock, signals, deleted>>

(* A processor needs the number of completions: it keeps it until the next  *)
(* change of the receivers, and so does the stream manager.                 *)
NeedCompletions(n) ==
    /\ node[n].up = "up" \/ (node[n].up = "starting" /\ "early_completion" \in Faults)
    /\ node[n].req = -1
    /\ LET sm == GetRequiredCompletions(node[n].sm) IN
       node' = [node EXCEPT ![n].sm = sm, ![n].req = sm.required]
    /\ UNCHANGED <<log, stored, lock, signals, registered, deleted, failures>>

(***************************************************************************)
(* Crashes, starts and shutdown.                                           *)
(***************************************************************************)
Crash(n) ==
    /\ node[n].up # "down" /\ failures < MaxFailures
    /\ failures' = failures + 1
    /\ node' = [m \in Node |-> IF m = n THEN Down
                               ELSE [node[m] EXCEPT !.failed = @ \/ <<m, n>> \in signals]]
    /\ signals' = {x \in signals : x[2] # n}
    /\ UNCHANGED <<log, stored, lock, registered, deleted>>

(* The lock of a node that is gone is free once its lease has run out.      *)
LeaseExpires(n) ==
    /\ n \in lock /\ node[n].pc \in {"idle", "lock"}
    /\ ReleaseClusterLock(n)
    /\ UNCHANGED <<node, log, stored, signals, registered, deleted, failures>>

(* Start, first part: the table is replayed.                                *)
Start(n) ==
    /\ node[n].up = "down"
    /\ node' = [node EXCEPT ![n] = [WithResult(@, Replay) EXCEPT
                   !.up = "starting", !.last = MaxId(Ids)]]
    /\ UNCHANGED <<log, stored, lock, signals, registered, deleted, failures>>

(* Start, second part: Loaded, and a compaction if necessary.               *)
StartLoaded(n) ==
    /\ node[n].up = "starting"
    /\ LET r == [node[n] EXCEPT !.up = "up", !.sm = Loaded(@), !.req = -1] IN
       IF CanCompact(r) THEN Compacted(n, r, FALSE)
       ELSE node' = [node EXCEPT ![n] = r] /\ UNCHANGED log
    /\ UNCHANGED <<stored, lock, signals, registered, deleted, failures>>

Shutdown(n) ==
    /\ Idle(n) /\ ~node[n].sm.shuttingDown /\ failures < MaxFailures
    /\ failures' = failures + 1
    /\ "shutdown_race" \in Faults \/ (signals = {} /\ \A m \in Node : node[m].pc = "idle")
    /\ node' = [node EXCEPT ![n].sm = PrepareForShutdown(@)]
    /\ UNCHANGED <<log, stored, lock, signals, registered, deleted>>

Next ==
    \E n \in Node :
        \/ \E st \in Statements : ExecuteCommand(n, st)
        \/ GetClusterLock(n) \/ StoreCommand(n) \/ StoreCommandFails(n)
        \/ ApplyLocally(n) \/ FinishCommand(n)
        \/ \E m \in Node : HandleSignal(n, m) \/ LoseSignal(n, m)
        \/ MaybeCompact(n) \/ SetVersions(n) \/ NeedCompletions(n)
        \/ Crash(n) \/ LeaseExpires(n) \/ Start(n) \/ StartLoaded(n) \/ Shutdown(n)

Spec == Init /\ [][Next]_vars

(***************************************************************************)
(* Properties                                                              *)
(***************************************************************************)
CaughtUp(n) ==
    /\ Idle(n) /\ ~node[n].sm.shuttingDown
    /\ MaxId(Ids) <= node[n].last /\ \A m \in Node : node[m].last <= node[n].last

(* The table of commands is enough to come back from: a node that starts    *)
(* now rebuilds exactly the streams, with their operators, ids and wiring,  *)
(* that the live nodes run, however the table was compacted.                *)
RestartRebuilds ==
    LET replayed == Replay.sm.streams IN
    \A n \in Node : CaughtUp(n) => node[n].sm.streams = replayed

(* Undeploying never panics for lack of an upstream or of the operator to   *)
(* remove, every operator wired below a stream belongs to a live stream     *)
(* that names it as upstream, and a stream's children are those that do.    *)
WiringSound ==
    \A n \in Node : LET sm == node[n].sm IN
        /\ ~sm.panic
        /\ \A u \in DOMAIN sm.streams :
             /\ sm.streams[u].downs = {d \in DOMAIN sm.streams : u \in DOMAIN sm.streams[d].ups}
             /\ \A r \in Range(sm.streams[u].downOps) :
                  /\ r.key[1] \in DOMAIN sm.streams
                  /\ sm.streams[r.key[1]].cmd = r.key[2]

(* "We then sum the number of processors that each of the terminal          *)
(* receivers run on": the number of completions a processor waits for is    *)
(* the number one round of barriers through the current graph produces, so  *)
(* a version neither completes early nor gets stuck (GetRequiredCompletions *)
(* and the caches on top of it).                                            *)
CompletionsCounted ==
    \A n \in Node : node[n].up = "up" /\ node[n].req # -1 =>
        node[n].req = Completions(node[n].sm)

(* The data of a deleted stream is always on its way out: its prefix is     *)
(* registered for deletion, or a live node will register it, or replaying   *)
(* the table will (the comment in maybeCompact).                            *)
DeletedDataReclaimed ==
    LET pend == Replay.pend IN
    \A s \in deleted :
        \/ s \in DOMAIN registered /\ registered[s] = "zero"
        \/ \E n \in Node : s \in DOMAIN node[n].pend /\ node[n].pend[s].ret = "zero"
        \/ s \in DOMAIN pend /\ pend[s].ret = "zero"

(* Ids are never handed out twice: live streams share neither receivers nor *)
(* slabs, and no live stream stores its data under a prefix that was marked *)
(* for deletion (sequence manager, over crashes).                           *)
ReceiversOf(info) == {info.opers[i].rcv : i \in DOMAIN info.opers} \ {0}
IdsUnique ==
    \A n \in Node : \A x, y \in DOMAIN node[n].sm.streams :
        LET a == node[n].sm.streams[x]
            b == node[n].sm.streams[y] IN
        /\ x # y => /\ SlabsOf(a) \intersect SlabsOf(b) = {}
                    /\ ReceiversOf(a) \intersect ReceiversOf(b) = {}
        /\ CaughtUp(n) => SlabsOf(a) \intersect deleted = {}
=============================================================================
