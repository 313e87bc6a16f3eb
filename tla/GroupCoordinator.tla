--------------------------- MODULE GroupCoordinator ---------------------------
(***************************************************************************)
(* A consumer group of the Kafka server (kafkaserver/group_coordinator.go) *)
(* on the node that leads its partition of the offsets table: members      *)
(* join, the leader of the group hands in an assignment when it syncs,     *)
(* timers remove who does not answer.                                      *)
(*                                                                         *)
(* group is the struct of that name.  A method that changes it is an       *)
(* operator from a group to the set of groups that may result; Go's map    *)
(* iteration order is the only choice it has.  The fields cancelled, sent  *)
(* and panics collect what the method does on the way: timers it stops,    *)
(* completion functions it calls, assertions that fail.  All methods hold  *)
(* the lock of the group, so a call is a step.                             *)
(*                                                                         *)
(* A completion function stands for the request it answers.  A client      *)
(* sends any request it may send, at any time; one that has sent another   *)
(* request no longer listens to the answer to the one before.              *)
(***************************************************************************)
EXTENDS Integers, Sequences, FiniteSets, Functions

CONSTANTS
  MemberID,        \* the ids generateMemberID may return
  Protocols,       \* lists of protocols a client may support, none of them empty
  None,            \* no member, no assignment, no protocol
  JoinDelays,      \* rebalance timeout / initial join delay: how often that can be extended
  MaxJoins,        \* bound: JoinGroup calls
  MaxLate          \* bound: timers that have fired and wait for the lock

ASSUME ConstantsAssumption ==
  /\ IsFiniteSet(MemberID) /\ None \notin MemberID
  /\ \A list \in Protocols : list \in Seq(Range(list)) /\ list # <<>> /\ IsInjective(list)
  /\ {JoinDelays, MaxJoins, MaxLate} \subseteq Nat

VARIABLES
  group,     \* the group
  late,      \* timers that run although they were stopped or replaced
  stopped,   \* group.stopped
  known,     \* member ids that have been handed out
  asks,      \* the request each client waits for
  told,      \* what the last JoinResult said to each client: generation and members
  joins,     \* number of JoinGroup calls
  results,   \* every generation, leader and protocol sent in a JoinResult
  panics     \* assertions that have failed

vars == <<group, late, stopped, known, asks, told, joins, results, panics>>

Protocol == UNION {Range(list) : list \in Protocols}
Key == {"group"} \cup MemberID
Timer(key, kind, arg) == [key |-> key, kind |-> kind, arg |-> arg]
NoTimer == Timer("group", "none", 0)
Session(key, memberID) == Timer(key, "session", memberID)
Member(protocols) == [protocols |-> protocols, join |-> TRUE, sync |-> FALSE, new |-> TRUE]
Members(g) == DOMAIN g.members

\* createGroup
Init ==
  /\ group = [state |-> "Empty", members |-> <<>>, pendingMemberIDs |-> {}, leader |-> None,
              protocolName |-> None, supportedProtocolCounts |-> [p \in Protocol |-> -1],
              generationID |-> 0, assignments |-> None, initialJoinDelayExpired |-> FALSE,
              newMemberAdded |-> FALSE, timers |-> [k \in Key |-> NoTimer],
              cancelled |-> {}, orphans |-> {}, sent |-> {}, panics |-> {}]
  /\ late = {} /\ stopped = FALSE /\ known = {}
  /\ asks = [m \in MemberID |-> "none"]
  /\ told = [m \in MemberID |-> [generation |-> -1, members |-> {}]]
  /\ joins = 0 /\ results = {} /\ panics = {}

-----------------------------------------------------------------------------
\* setTimer leaves a timer of the same key running; cancelTimer stops it.
setTimer(g, timer) ==
  [g EXCEPT !.timers[timer.key] = timer,
            !.orphans = IF g.timers[timer.key] = NoTimer THEN @ ELSE @ \cup {g.timers[timer.key]}]

cancelTimers(g, keys) ==
  [g EXCEPT !.timers = [k \in Key |-> IF k \in keys THEN NoTimer ELSE @[k]],
            !.cancelled = @ \cup ({g.timers[k] : k \in keys} \ {NoTimer})]

rescheduleTimer(g, timer) == setTimer(cancelTimers(g, {timer.key}), timer)

Panics(g, what) == [g EXCEPT !.panics = @ \cup {what}]

\* A protocol that no member has ever named is not in the map (-1).
updateSupportedProtocols(counts, protocols, change) ==
  [p \in Protocol |-> IF p \in Range(protocols)
                      THEN (IF counts[p] = -1 THEN 0 ELSE counts[p]) + change ELSE counts[p]]

canSupportProtocols(g, protocols) ==
  \E p \in Range(protocols) : g.supportedProtocolCounts[p] = Cardinality(Members(g))

\* The leftmost protocol of list that is one of shared.
LeftMost(list, shared) ==
  list[CHOOSE i \in DOMAIN list :
         list[i] \in shared /\ \A j \in DOMAIN list : list[j] \in shared => i <= j]

\* Every member votes for the leftmost of its protocols that all support.
chooseProtocol(g) ==
  LET shared == {p \in Protocol : g.supportedProtocolCounts[p] = Cardinality(Members(g))}
      voters == {m \in Members(g) : Range(g.members[m].protocols) \cap shared # {}}
      votes == [p \in Protocol |->
                  Cardinality({m \in voters : LeftMost(g.members[m].protocols, shared) = p})]
  IN IF voters = {} THEN {None}
     ELSE {p \in Protocol : \A q \in Protocol : votes[p] >= votes[q]}

\* JoinResult for each of the members; only the leader is told who the others are.
JoinResults(g, members) ==
  {[to |-> m, request |-> "join", error |-> "none", generation |-> g.generationID,
    leader |-> g.leader, protocol |-> g.protocolName,
    members |-> IF m = g.leader THEN Members(g) ELSE {}] : m \in members}
JoinError(m, error) ==
  {[to |-> m, request |-> "join", error |-> error, generation |-> -1, leader |-> None,
    protocol |-> None, members |-> {}]}
SyncResults(members, error) ==
  {[to |-> m, request |-> "sync", error |-> error, generation |-> -1, leader |-> None,
    protocol |-> None, members |-> {}] : m \in members}
Sends(g, answers) == [g EXCEPT !.sent = @ \cup answers]

\* createMemberInfos and sendJoinResultWithMembers
sendJoinResult(g, members) ==
  IF \E m \in Members(g) : g.protocolName \notin Range(g.members[m].protocols)
  THEN Panics(g, "cannot find protocol")
  ELSE Sends(g, JoinResults(g, members))

-----------------------------------------------------------------------------

addMember(g, memberID, protocols) ==
  rescheduleTimer([g EXCEPT !.members = [m \in Members(g) \cup {memberID} |->
                                           IF m = memberID THEN Member(protocols) ELSE @[m]],
                            !.supportedProtocolCounts = updateSupportedProtocols(@, protocols, 1),
                            !.pendingMemberIDs = @ \ {memberID},
                            !.newMemberAdded = TRUE],
                  Session(memberID, memberID))

\* Mutant: the protocols the member had before are not taken back.
ProtocolsAddedOnly(g, memberID, protocols) ==
  [g EXCEPT !.members[memberID].protocols = protocols, !.members[memberID].join = TRUE,
            !.supportedProtocolCounts = updateSupportedProtocols(@, protocols, 1),
            !.pendingMemberIDs = @ \ {memberID}]

updateMember(g, memberID, protocols) ==
  [g EXCEPT !.members[memberID].protocols = protocols, !.members[memberID].join = TRUE,
            !.supportedProtocolCounts =
               updateSupportedProtocols(
                 updateSupportedProtocols(@, g.members[memberID].protocols, -1), protocols, 1),
            !.pendingMemberIDs = @ \ {memberID}]

\* removeMember for each of gone; ids that are not members are ignored.
removeMembers(g, gone) ==
  LET rest == Members(g) \ gone
  IN IF gone \cap Members(g) = {} THEN g
     ELSE [cancelTimers(g, gone \cap Members(g)) EXCEPT
             !.members = Restrict(@, rest),
             !.pendingMemberIDs = @ \ (gone \cap Members(g)),
             !.supportedProtocolCounts =
                [p \in Protocol |-> @[p] - Cardinality({m \in gone \cap Members(g) :
                                                          p \in Range(g.members[m].protocols)})],
             !.state = IF rest = {} THEN "Empty" ELSE @,
             !.assignments = IF rest = {} THEN None ELSE @]

\* chooseNewLeader when the leader is gone: any member, or nobody.
LeaderAfter(g, gone) ==
  IF g.leader \notin gone THEN {g.leader}
  ELSE IF Members(g) = {} THEN {None} ELSE Members(g)

\* Mutant: nothing limits how long the members are waited for.
WaitsForAll(g) ==
  IF Members(g) = {} THEN Panics(g, "no members in group")
  ELSE cancelTimers([g EXCEPT !.state = "PreRebalance"], {"group"})

triggerRebalance(g) ==
  IF Members(g) = {} THEN Panics(g, "no members in group")
  ELSE rescheduleTimer([g EXCEPT !.state = "PreRebalance"], Timer("group", "join", 0))

\* Whoever waits for a sync is told to rejoin; the completion is kept.
resetSync(g) ==
  triggerRebalance([Sends(g, SyncResults({m \in Members(g) : g.members[m].sync}, "rebalance"))
                    EXCEPT !.assignments = None])

\* The session timers that sendJoinResults sets share the variable of its loop
\* (go.mod says go 1.21): they all expire the member visited last.
sendJoinResultsOf(g, name, last) ==
  LET answered == [sendJoinResult([g EXCEPT !.protocolName = name], Members(g)) EXCEPT
                     !.members = [m \in Members(g) |-> [@[m] EXCEPT !.join = FALSE, !.new = FALSE]],
                     !.state = "AwaitingRebalance"]
      stopped_ == cancelTimers(answered, Members(g))
      armed == [stopped_ EXCEPT !.timers =
                  [k \in Key |-> IF k \in Members(g) THEN Session(k, last) ELSE @[k]]]
  IN rescheduleTimer(armed, Timer("group", "sync", g.generationID))

sendJoinResults(g) ==
  {sendJoinResultsOf(g, name, last) :
     name \in chooseProtocol(g), last \in (IF Members(g) = {} THEN {None} ELSE Members(g))}

maybeCompleteJoin(g) ==
  IF g.pendingMemberIDs # {} \/ \E m \in Members(g) : ~g.members[m].join THEN {g}
  ELSE sendJoinResults([g EXCEPT !.generationID = @ + 1])

-----------------------------------------------------------------------------
(***************************************************************************)
(* What the timers run.                                                    *)
(***************************************************************************)
initialJoinTimerExpired(g, remaining) ==
  IF g.newMemberAdded /\ remaining > 1
  THEN {setTimer([g EXCEPT !.newMemberAdded = FALSE], Timer("group", "initial", remaining - 1))}
  ELSE maybeCompleteJoin([g EXCEPT !.newMemberAdded = FALSE, !.initialJoinDelayExpired = TRUE])

\* Mutant: the join completes in the generation of the one before.
SameGeneration(g) ==
  LET gone == {m \in Members(g) : ~g.members[m].join}
      rest == removeMembers(g, gone)
  IN IF g.state # "PreRebalance" THEN {g}
     ELSE IF Members(rest) = {} THEN {rest}
     ELSE UNION {sendJoinResults([rest EXCEPT !.leader = leader,
                                              !.assignments = IF g.leader \in gone THEN None ELSE @])
                   : leader \in LeaderAfter(rest, gone)}

handleJoinTimeout(g) ==
  LET gone == {m \in Members(g) : ~g.members[m].join}
      rest == [removeMembers(g, gone) EXCEPT !.generationID = @ + 1]
  IN IF g.state # "PreRebalance" THEN {g}
     ELSE IF Members(rest) = {} THEN {rest}
     ELSE UNION {sendJoinResults([rest EXCEPT !.leader = leader,
                                              !.assignments = IF g.leader \in gone THEN None ELSE @])
                   : leader \in LeaderAfter(rest, gone)}

handleSyncTimeout(g, generationID) ==
  LET gone == {m \in Members(g) : ~g.members[m].sync}
      rest == removeMembers(g, gone)
  IN IF g.state # "AwaitingRebalance" \/ generationID # g.generationID THEN {g}
     ELSE IF Members(rest) = {} THEN {rest}
     ELSE {triggerRebalance([rest EXCEPT !.leader = leader,
                                         !.assignments = IF g.leader \in gone THEN None ELSE @])
             : leader \in LeaderAfter(rest, gone)}

\* What follows the removal of a member whose session has expired.
memberExpired(g) ==
  IF Members(g) = {} \/ g.state = "Empty" THEN {g}
  ELSE IF g.state = "PreRebalance" THEN maybeCompleteJoin(g) ELSE {triggerRebalance(g)}

\* Members that wait for a join or a sync do not expire, unless they are new.
\* A pending member id is not a member, so removeMember does not remove it.
sessionTimeoutExpired(g, memberID) ==
  LET member == g.members[memberID]
      told_ == IF member.join THEN Sends(g, JoinError(memberID, "unknown member")) ELSE g
      rest == removeMembers(told_, {memberID})
  IN IF memberID \in g.pendingMemberIDs
     THEN IF g.state = "PreRebalance" THEN maybeCompleteJoin(removeMembers(g, {memberID})) ELSE {g}
     ELSE IF memberID \notin Members(g) \/ (~member.new /\ (member.join \/ member.sync)) THEN {g}
     ELSE UNION {memberExpired([rest EXCEPT !.leader = leader]) : leader \in LeaderAfter(rest, {memberID})}

Run(g, timer) ==
  CASE timer.kind = "initial" -> initialJoinTimerExpired(g, timer.arg)
    [] timer.kind = "join" -> handleJoinTimeout(g)
    [] timer.kind = "sync" -> handleSyncTimeout(g, timer.arg)
    [] OTHER -> sessionTimeoutExpired(g, timer.arg)

-----------------------------------------------------------------------------
(***************************************************************************)
(* Requests.                                                               *)
(***************************************************************************)
Join(g, memberID, protocols) ==
  LET isMember == memberID \in Members(g)
      Added(h) == addMember(h, memberID, protocols)
      Updated(h) == updateMember(h, memberID, protocols)
  IN CASE g.state = "Empty" ->
            {setTimer([Added(g) EXCEPT !.leader = memberID, !.newMemberAdded = FALSE,
                                       !.state = "PreRebalance"],
                      Timer("group", "initial", JoinDelays))}
       [] g.state = "PreRebalance" ->
            LET h == IF isMember THEN Updated(g) ELSE Added(g)
            IN IF h.initialJoinDelayExpired THEN maybeCompleteJoin(h) ELSE {h}
       [] g.state = "AwaitingRebalance" ->
            IF ~isMember THEN {Added(resetSync(g))}
            ELSE IF g.members[memberID].protocols # protocols THEN {Updated(resetSync(g))}
            ELSE {sendJoinResult(g, {memberID})}
       [] g.state = "Active" ->
            IF ~isMember THEN {triggerRebalance(Added(g))}
            ELSE IF g.leader = memberID THEN {triggerRebalance(Updated(g))}
            ELSE {sendJoinResult(g, {memberID})}

\* completeSync: members that the assignments do not name are not answered.
completeSync(g) ==
  LET assigned == IF g.assignments = None THEN {} ELSE g.assignments
      answered == [Sends(g, SyncResults(assigned, "none")) EXCEPT
                     !.members = [m \in Members(g) |-> IF m \in assigned THEN [@[m] EXCEPT !.sync = FALSE] ELSE @[m]],
                     !.state = "Active"]
      stopped_ == cancelTimers(answered, assigned \cup {"group"})
  IN IF ~(assigned \subseteq Members(g)) THEN Panics(g, "cannot find member in assignments")
     ELSE [stopped_ EXCEPT !.timers = [k \in Key |-> IF k \in assigned THEN Session(k, k) ELSE @[k]]]

Sync(g, memberID, generationID, assignments) ==
  LET waits == [g EXCEPT !.members[memberID].sync = TRUE,
                         !.assignments = IF g.leader = memberID THEN assignments ELSE @]
      Answer(error) == Sends(g, SyncResults({memberID}, error))
  IN IF generationID # g.generationID THEN Answer("illegal generation")
     ELSE CASE g.state = "PreRebalance" -> Answer("rebalance")
            [] g.state = "AwaitingRebalance" ->
                 IF memberID \notin Members(g) THEN Answer("unknown member")
                 ELSE IF \A m \in Members(g) : waits.members[m].sync THEN completeSync(waits) ELSE waits
            [] g.state = "Active" ->
                 IF g.assignments # None /\ memberID \in g.assignments THEN Answer("none")
                 ELSE Answer("unknown member")
            [] g.state = "Empty" -> Panics(g, "unexpected state in sync")

Heartbeat(g, memberID, generationID) ==
  IF generationID = g.generationID /\ g.state \in {"AwaitingRebalance", "Active"} /\ memberID \in Members(g)
  THEN rescheduleTimer(g, Session(memberID, memberID)) ELSE g

Leave(g, memberID) ==
  LET rest == removeMembers(g, {memberID})
  IN IF memberID \notin Members(g) \/ Members(rest) = {} THEN {rest}
     ELSE {triggerRebalance([rest EXCEPT !.leader = leader,
                                         !.assignments = IF g.leader = memberID THEN None ELSE @])
             : leader \in LeaderAfter(rest, {memberID})}

-----------------------------------------------------------------------------
(***************************************************************************)
(* Steps.  A timer that is stopped may have fired already: then it runs    *)
(* later, when it gets the lock.                                           *)
(***************************************************************************)
Accepted(g, m) == {r \in g.sent : r.to = m /\ r.request = "join" /\ r.error = "none"}

\* The timers in running, and those of timers, wait for the lock.  nth tells the
\* copies of one timer apart.
Waiting(running, timers) ==
  running \cup {[timer |-> t, nth |-> Cardinality({c \in running : c.timer = t})] : t \in timers}

\* The call leaves the group as g; asking are the requests clients wait for.
Step(g, running, asking) ==
  /\ panics = {} /\ panics' = g.panics
  /\ group' = IF g.panics # {} THEN group
              ELSE [g EXCEPT !.cancelled = {}, !.orphans = {}, !.sent = {}]
  /\ \E fired \in SUBSET g.cancelled :
       /\ fired = {} \/ Cardinality(running) + Cardinality(fired) <= MaxLate
       /\ late' = Waiting(Waiting(running, g.orphans), fired)
  /\ asks' = [m \in MemberID |-> IF \E r \in g.sent : r.to = m /\ r.request = asking[m]
                                 THEN "none" ELSE asking[m]]
  /\ told' = [m \in MemberID |->
                IF asking[m] = "join" /\ Accepted(g, m) # {}
                THEN LET r == CHOOSE r \in Accepted(g, m) : TRUE
                     IN [generation |-> r.generation, members |-> r.members]
                ELSE told[m]]
  /\ results' = results \cup {<<r.generation, r.leader, r.protocol>> :
                                r \in {x \in g.sent : x.request = "join" /\ x.error = "none"}}

Asking(m, request) == [asks EXCEPT ![m] = request]

\* Join without a member id.  From version 4 on the client only gets one.
JoinNew(memberID, protocols) ==
  LET g == setTimer(group, Session(memberID, memberID))
      refused == group.state # "Empty" /\ ~canSupportProtocols(group, protocols)
      pends == Sends([g EXCEPT !.pendingMemberIDs = @ \cup {memberID}], JoinError(memberID, "unknown member"))
  IN /\ memberID \notin known /\ ~refused
     /\ known' = known \cup {memberID}
     /\ \E h \in {pends} \cup Join(g, memberID, protocols) : Step(h, late, Asking(memberID, "join"))

JoinKnown(memberID, protocols) ==
  LET refused == group.state # "Empty" /\ ~canSupportProtocols(group, protocols)
  IN /\ memberID \in known /\ UNCHANGED known
     /\ \E h \in IF refused THEN {Sends(group, JoinError(memberID, "inconsistent protocol"))}
                 ELSE Join(group, memberID, protocols) : Step(h, late, Asking(memberID, "join"))

JoinGroup ==
  /\ ~stopped /\ joins < MaxJoins /\ joins' = joins + 1
  /\ \E m \in MemberID, list \in Protocols : JoinNew(m, list) \/ JoinKnown(m, list)
  /\ UNCHANGED stopped

\* The leader assigns partitions to all the members it was told of.
SyncGroup(m) ==
  /\ ~stopped /\ told[m].generation >= 0
  /\ \E h \in {Sync(group, m, told[m].generation, told[m].members)} : Step(h, late, Asking(m, "sync"))
  /\ UNCHANGED <<stopped, known, joins>>

HeartbeatGroup(m) ==
  /\ ~stopped /\ told[m].generation >= 0
  /\ \E h \in {Heartbeat(group, m, told[m].generation)} : Step(h, late, asks)
  /\ UNCHANGED <<stopped, known, joins>>

LeaveGroup(m) ==
  /\ ~stopped /\ m \in known
  /\ \E h \in Leave(group, m) : Step(h, late, Asking(m, "none"))
  /\ UNCHANGED <<stopped, known, joins>>

TimerFires(k) ==
  LET timer == group.timers[k]
      g == [group EXCEPT !.timers[k] = NoTimer]
  IN /\ timer # NoTimer
     /\ \E h \in IF stopped /\ timer.kind # "session" THEN {g} ELSE Run(g, timer) : Step(h, late, asks)
     /\ UNCHANGED <<stopped, known, joins>>

LateTimerRuns ==
  /\ \E copy \in late :
       /\ [copy EXCEPT !.nth = @ + 1] \notin late
       /\ \E h \in IF stopped /\ copy.timer.kind # "session" THEN {group} ELSE Run(group, copy.timer) :
            Step(h, late \ {copy}, asks)
  /\ UNCHANGED <<stopped, known, joins>>

\* The server has stopped serving requests when it stops the coordinator.
Stop ==
  /\ ~stopped /\ stopped' = TRUE
  /\ Step(cancelTimers(group, Members(group) \cup {"group"}), late, asks)
  /\ UNCHANGED <<known, joins>>

Timers == LateTimerRuns \/ \E k \in Key : TimerFires(k)

Next ==
  \/ JoinGroup
  \/ \E m \in MemberID : SyncGroup(m) \/ HeartbeatGroup(m) \/ LeaveGroup(m)
  \/ Timers
  \/ Stop

Spec == Init /\ [][Next]_vars

-----------------------------------------------------------------------------
(***************************************************************************)
(* Properties.                                                             *)
(***************************************************************************)
\* The members of a group always have a protocol in common, so that
\* createMemberInfos finds the chosen protocol in the list of every member, and
\* the counts canSupportProtocols and chooseProtocol go by are the numbers of
\* members that support each protocol, through joins, updates and removals.
CommonProtocol ==
  /\ Members(group) # {} =>
       \E p \in Protocol : \A m \in Members(group) : p \in Range(group.members[m].protocols)
  /\ "cannot find protocol" \notin panics
  /\ \A p \in Protocol :
       Cardinality({m \in Members(group) : p \in Range(group.members[m].protocols)})
         = (IF group.supportedProtocolCounts[p] = -1 THEN 0 ELSE group.supportedProtocolCounts[p])

\* All JoinResults of a generation name the same leader and protocol, whoever
\* joins again, leaves or expires; while members wait for an assignment or have
\* one, the leader is one of them.
OneLeaderPerGeneration ==
  /\ \A r, s \in results : r[1] = s[1] => r = s
  /\ group.state \in {"AwaitingRebalance", "Active"} /\ Members(group) # {}
       => group.leader \in Members(group)

\* "should never occur", "no members in group", "cannot find member in
\* assignments": the assertions of the coordinator hold. Not so: a group that gets
\* empty during the initial join delay runs into the second one.
NeverPanics == panics = {}

-----------------------------------------------------------------------------
\* Timers fire: time.AfterFunc runs them, and calls hold the lock for a moment.
\* This is WF_vars(Timers): TimerPending says when Timers is enabled.
TimerPending == panics = {} /\ (late # {} \/ \E k \in Key : group.timers[k] # NoTimer)
FairSpec == Spec /\ ([]<>~TimerPending \/ []<><<Timers>>_vars)

Over == stopped \/ panics # {}

\* Every JoinGroup request is answered: when all have joined, when the
\* rebalance timeout or the session timeout of a new member is over.
JoinAnswered ==
  (\E m \in MemberID : asks[m] = "join") ~> ((\A m \in MemberID : asks[m] # "join") \/ Over)

=============================================================================
