----------------------- MODULE GroupCoordinator_proofs -----------------------
(***************************************************************************)
(* Proofs about the group coordinator, for any number of members, lists of *)
(* protocols, joins and late timers.  A method gets a group g and leaves a *)
(* group h; what the proofs need of it is stated in a lemma about the      *)
(* method.                                                                 *)
(***************************************************************************)
EXTENDS GroupCoordinator, SequenceLemmas

States == {"Empty", "PreRebalance", "AwaitingRebalance", "Active"}
Led == {"AwaitingRebalance", "Active"}

Fields == {"state", "members", "pendingMemberIDs", "leader", "protocolName",
           "supportedProtocolCounts", "generationID", "assignments", "initialJoinDelayExpired",
           "newMemberAdded", "timers", "cancelled", "orphans", "sent", "panics"}
MemberFields == {"protocols", "join", "sync", "new"}

\* The members that support p.
Supporters(members, p) == {m \in DOMAIN members : p \in Range(members[m].protocols)}

\* The counts are right and the members have a protocol in common.
Backed(members, counts) ==
  /\ IsFiniteSet(DOMAIN members)
  /\ \A m \in DOMAIN members : members[m].protocols \in Protocols
  /\ \A p \in Protocol :
       \/ counts[p] = Cardinality(Supporters(members, p))
       \/ counts[p] = -1 /\ Supporters(members, p) = {}
  /\ DOMAIN members # {} => \E p \in Protocol : Supporters(members, p) = DOMAIN members

\* All members support the protocol name, or one of list.
Named(members, name) == Supporters(members, name) = DOMAIN members
Fits(members, list) == \E p \in Range(list) : Named(members, p)

\* The answers among sent that tell a generation.
Answers(sent) == {<<r.generation, r.leader, r.protocol>> :
                    r \in {x \in sent : x.request = "join" /\ x.error = "none"}}

\* h differs from g in nothing that the proofs look at, but for what was sent.
AlikeButSent(g, h) ==
  /\ DOMAIN h = DOMAIN g /\ h.state = g.state /\ h.members = g.members
  /\ h.pendingMemberIDs = g.pendingMemberIDs /\ h.leader = g.leader
  /\ h.supportedProtocolCounts = g.supportedProtocolCounts
  /\ h.protocolName = g.protocolName /\ h.generationID = g.generationID
  /\ h.panics = g.panics
Alike(g, h) == AlikeButSent(g, h) /\ h.sent = g.sent

\* A group whose members, and clients that are about to join, have ids of ids,
\* in a method that has sent nothing yet.
Base(g, ids) ==
  /\ DOMAIN g = Fields /\ g.generationID \in Nat
  /\ Members(g) \subseteq ids /\ g.pendingMemberIDs \subseteq ids
  /\ Members(g) \cap g.pendingMemberIDs = {}
  /\ \A m \in Members(g) : DOMAIN g.members[m] = MemberFields
  /\ Members(g) # {} => g.leader \in Members(g)
  /\ Backed(g.members, g.supportedProtocolCounts)
Quiet(g) == Answers(g.sent) = {} /\ g.panics = {}

\* The state fits the members.  A group that got empty during the initial join
\* delay is AwaitingRebalance without members.
Placed(g) ==
  /\ g.state \in States
  /\ Members(g) = {} => g.state \in {"Empty", "AwaitingRebalance"}
  /\ g.state = "Empty" => Members(g) = {}
  /\ g.state \in Led => (\A m \in Members(g) : ~g.members[m].join) /\ Named(g.members, g.protocolName)

\* What a method that is called on g leaves: an assertion fails before any
\* JoinResult is sent, or h is a good group, its JoinResults agree with it, and a
\* generation that is announced or in force is new or that of g.
Follows(g, h, ids) ==
  \/ h.panics # {} /\ Answers(h.sent) = {} /\ "cannot find protocol" \notin h.panics
  \/ /\ Base(h, ids) /\ Placed(h) /\ h.panics = {}
     /\ h.generationID >= g.generationID
     /\ Answers(h.sent) \subseteq {<<h.generationID, h.leader, h.protocolName>>}
     /\ Answers(h.sent) # {} \/ h.state \in Led =>
          \/ h.generationID > g.generationID
          \/ /\ g.state \in Led /\ h.generationID = g.generationID
             /\ h.leader = g.leader /\ h.protocolName = g.protocolName

-----------------------------------------------------------------------------
LEMMA LeftMostShared ==
  ASSUME NEW list \in Protocols, NEW shared, Range(list) \cap shared # {}
  PROVE  LeftMost(list, shared) \in shared
<1> DEFINE T == {i \in DOMAIN list : list[i] \in shared}
           First(i) == list[i] \in shared /\ \A j \in DOMAIN list : list[j] \in shared => i <= j
<1>1. list \in Seq(Range(list))
  BY ConstantsAssumption
<1>2. T \subseteq Nat
  BY <1>1
<1>3. T # {}
  BY DEF Range
<1>4. PICK i \in T : \A j \in T : i <= j
  BY <1>2, <1>3, Smallest
<1>5. i \in DOMAIN list /\ First(i)
  BY <1>4
<1> DEFINE c == CHOOSE x \in DOMAIN list : First(x)
<1>6. First(c)
  BY <1>5
<1> QED
  BY <1>6 DEF LeftMost

LEMMA SupportersFinite ==
  ASSUME NEW members, IsFiniteSet(DOMAIN members), NEW p
  PROVE  /\ Supporters(members, p) \subseteq DOMAIN members
         /\ IsFiniteSet(Supporters(members, p)) /\ Cardinality(Supporters(members, p)) \in Nat
         /\ Cardinality(DOMAIN members) \in Nat
         /\ Cardinality(Supporters(members, p)) = Cardinality(DOMAIN members) => Named(members, p)
<1>1. Supporters(members, p) \subseteq DOMAIN members
  BY DEF Supporters
<1> QED
  BY <1>1, FS_Subset, FS_CardinalityType DEF Named

\* A protocol with as many supporters as there are members is one that all support.
LEMMA CountedByAll ==
  ASSUME NEW members, NEW counts, Backed(members, counts),
         NEW p \in Protocol, counts[p] = Cardinality(DOMAIN members)
  PROVE  Named(members, p)
<1>1. IsFiniteSet(DOMAIN members)
  BY DEF Backed
<1>2. Cardinality(DOMAIN members) # -1
  BY <1>1, FS_CardinalityType
<1>3. Cardinality(Supporters(members, p)) = Cardinality(DOMAIN members)
  BY <1>2 DEF Backed
<1> QED
  BY <1>1, <1>3, SupportersFinite

\* Fields of the members other than their protocols make no difference.
LEMMA BackedFields ==
  ASSUME NEW members, NEW after, DOMAIN after = DOMAIN members,
         \A m \in DOMAIN members : after[m].protocols = members[m].protocols
  PROVE  /\ \A counts : Backed(members, counts) => Backed(after, counts)
         /\ \A name : Named(members, name) => Named(after, name)
<1>1. \A p : Supporters(after, p) = Supporters(members, p)
  BY DEF Supporters
<1> QED
  BY <1>1 DEF Backed, Named

\* The supporters among gone are counted off, or one more with list is counted.
CountedOff(members, counts, gone, left) ==
  \A p \in Protocol : left[p] = counts[p] - Cardinality({m \in gone : p \in Range(members[m].protocols)})
CountedIn(counts, list, more) ==
  \A p \in Protocol : more[p] = IF p \in Range(list) THEN (IF counts[p] = -1 THEN 0 ELSE counts[p]) + 1
                                ELSE counts[p]

LEMMA BackedRemoved ==
  ASSUME NEW members, NEW counts, Backed(members, counts), NEW gone, gone \subseteq DOMAIN members,
         NEW after, DOMAIN after = DOMAIN members \ gone,
         \A m \in DOMAIN members \ gone : after[m] = members[m],
         NEW left, CountedOff(members, counts, gone, left)
  PROVE  /\ Backed(after, left)
         /\ \A name : Named(members, name) => Named(after, name)
<1>1. \A p : Supporters(after, p) = Supporters(members, p) \ gone
  BY DEF Supporters
<1>2. IsFiniteSet(DOMAIN members)
  BY DEF Backed
<1>3. \A name : Named(members, name) => Named(after, name)
  BY <1>1 DEF Named
<1>4. ASSUME NEW p \in Protocol
      PROVE  \/ left[p] = Cardinality(Supporters(after, p))
             \/ left[p] = -1 /\ Supporters(after, p) = {}
  <2> DEFINE S == Supporters(members, p)
             G == {m \in gone : p \in Range(members[m].protocols)}
  <2>1. S \cap gone = G
    BY DEF Supporters
  <2>2. left[p] = counts[p] - Cardinality(G)
    BY DEF CountedOff
  <2>3. IsFiniteSet(S) /\ Cardinality(S) \in Nat
    BY <1>2, SupportersFinite
  <2>4. Supporters(after, p) = S \ gone
    BY <1>1
  <2> HIDE DEF S, G
  <2>5. Cardinality(S \ gone) = Cardinality(S) - Cardinality(G)
    BY <2>1, <2>3, FS_Difference
  <2>6. CASE counts[p] = Cardinality(S)
    BY <2>2, <2>4, <2>5, <2>6
  <2>7. CASE counts[p] = -1 /\ S = {}
    <3>1. G = {}
      BY <2>1, <2>7
    <3>2. left[p] = -1
      BY <2>2, <2>7, <3>1, FS_EmptySet
    <3> QED
      BY <2>4, <2>7, <3>2
  <2> QED
    BY <2>6, <2>7 DEF Backed, S
<1>5. IsFiniteSet(DOMAIN after)
  BY <1>2, FS_Subset
<1>6. \A m \in DOMAIN after : after[m].protocols \in Protocols
  BY DEF Backed
<1>7. DOMAIN after # {} => \E p \in Protocol : Supporters(after, p) = DOMAIN after
  BY <1>1 DEF Backed
<1> QED
  BY <1>3, <1>4, <1>5, <1>6, <1>7 DEF Backed

LEMMA BackedAdded ==
  ASSUME NEW members, NEW counts, Backed(members, counts), NEW list \in Protocols, Fits(members, list),
         NEW id, id \notin DOMAIN members,
         NEW after, DOMAIN after = DOMAIN members \cup {id}, after[id].protocols = list,
         \A m \in DOMAIN members : after[m].protocols = members[m].protocols,
         NEW more, CountedIn(counts, list, more)
  PROVE  Backed(after, more)
<1>1. \A p : Supporters(after, p) = Supporters(members, p) \cup (IF p \in Range(list) THEN {id} ELSE {})
  BY DEF Supporters
<1>2. IsFiniteSet(DOMAIN members)
  BY DEF Backed
<1>3. ASSUME NEW p \in Protocol
      PROVE  \/ more[p] = Cardinality(Supporters(after, p))
             \/ more[p] = -1 /\ Supporters(after, p) = {}
  <2> DEFINE S == Supporters(members, p)
  <2>1. IsFiniteSet(S) /\ Cardinality(S) \in Nat /\ id \notin S
    BY <1>2, SupportersFinite DEF Supporters
  <2>2. counts[p] = Cardinality(S) \/ (counts[p] = -1 /\ S = {})
    BY DEF Backed
  <2>3. (IF counts[p] = -1 THEN 0 ELSE counts[p]) = Cardinality(S)
    BY <2>1, <2>2, FS_EmptySet
  <2>4. Supporters(after, p) = S \cup (IF p \in Range(list) THEN {id} ELSE {})
    BY <1>1
  <2> HIDE DEF S
  <2>5. CASE p \in Range(list)
    <3>1. Supporters(after, p) = S \cup {id}
      BY <2>4, <2>5
    <3>2. Cardinality(S \cup {id}) = Cardinality(S) + 1
      BY <2>1, FS_AddElement
    <3>3. more[p] = Cardinality(S) + 1
      BY <2>3, <2>5 DEF CountedIn
    <3> QED
      BY <3>1, <3>2, <3>3
  <2>6. CASE p \notin Range(list)
    <3>1. Supporters(after, p) = S /\ more[p] = counts[p]
      BY <2>4, <2>6 DEF CountedIn
    <3> QED
      BY <2>2, <3>1
  <2> QED
    BY <2>5, <2>6
<1>4. IsFiniteSet(DOMAIN after)
  BY <1>2, FS_AddElement
<1>5. \A m \in DOMAIN after : after[m].protocols \in Protocols
  BY DEF Backed
<1>6. \E p \in Protocol : Supporters(after, p) = DOMAIN after
  <2>1. PICK p \in Range(list) : Supporters(members, p) = DOMAIN members
    BY DEF Fits, Named
  <2>2. p \in Protocol
    BY DEF Protocol
  <2> QED
    BY <1>1, <2>1, <2>2
<1> QED
  BY <1>3, <1>4, <1>5, <1>6 DEF Backed

LEMMA BackedUpdated ==
  ASSUME NEW members, NEW counts, Backed(members, counts), NEW list \in Protocols, Fits(members, list),
         NEW id \in DOMAIN members,
         NEW after, DOMAIN after = DOMAIN members, after[id].protocols = list,
         \A m \in DOMAIN members \ {id} : after[m].protocols = members[m].protocols,
         NEW more,
         more = updateSupportedProtocols(updateSupportedProtocols(counts, members[id].protocols, -1), list, 1)
  PROVE  Backed(after, more)
<1> DEFINE rest == [m \in DOMAIN members \ {id} |-> members[m]]
           old == members[id].protocols
           left == updateSupportedProtocols(counts, old, -1)
<1>1. ASSUME NEW p \in Protocol
      PROVE  left[p] = counts[p] - Cardinality({m \in {id} : p \in Range(members[m].protocols)})
  <2> DEFINE G == {m \in {id} : p \in Range(members[m].protocols)}
  <2>1. IsFiniteSet(DOMAIN members)
    BY DEF Backed
  <2>2. left[p] = IF p \in Range(old) THEN (IF counts[p] = -1 THEN 0 ELSE counts[p]) + (-1) ELSE counts[p]
    BY DEF updateSupportedProtocols
  <2>3. counts[p] = Cardinality(Supporters(members, p)) \/ (counts[p] = -1 /\ Supporters(members, p) = {})
    BY DEF Backed
  <2>4. counts[p] \in Int
    BY <2>1, <2>3, SupportersFinite
  <2>5. CASE p \in Range(old)
    <3>1. id \in Supporters(members, p)
      BY <2>5 DEF Supporters
    <3>2. counts[p] # -1
      BY <2>1, <2>3, <3>1, SupportersFinite
    <3>3. G = {id}
      BY <2>5
    <3>4. Cardinality(G) = 1
      BY <3>3, FS_Singleton
    <3> QED
      BY <2>2, <2>4, <2>5, <3>2, <3>4
  <2>6. CASE p \notin Range(old)
    <3>1. G = {}
      BY <2>6
    <3>2. Cardinality(G) = 0
      BY <3>1, FS_EmptySet
    <3> QED
      BY <2>2, <2>4, <2>6, <3>2
  <2> QED
    BY <2>5, <2>6
<1>2. /\ DOMAIN rest = DOMAIN members \ {id}
      /\ \A m \in DOMAIN members \ {id} : rest[m] = members[m]
      /\ {id} \subseteq DOMAIN members
  OBVIOUS
<1>3. CountedIn(left, list, more) /\ CountedOff(members, counts, {id}, left)
  BY <1>1 DEF updateSupportedProtocols, CountedIn, CountedOff
<1> HIDE DEF rest, left
<1>4. Backed(rest, left) /\ \A name : Named(members, name) => Named(rest, name)
  BY <1>2, <1>3, BackedRemoved
<1>5. Fits(rest, list)
  BY <1>4 DEF Fits
<1>6. /\ DOMAIN after = DOMAIN rest \cup {id} /\ id \notin DOMAIN rest
      /\ \A m \in DOMAIN rest : after[m].protocols = rest[m].protocols
  BY <1>2
<1> QED
  BY <1>3, <1>4, <1>5, <1>6, BackedAdded

\* All members support the protocol that is chosen.
LEMMA Chosen ==
  ASSUME NEW g, Backed(g.members, g.supportedProtocolCounts), NEW name \in chooseProtocol(g)
  PROVE  Named(g.members, name)
<1> DEFINE shared == {p \in Protocol : g.supportedProtocolCounts[p] = Cardinality(Members(g))}
           voters == {m \in Members(g) : Range(g.members[m].protocols) \cap shared # {}}
           For(p) == {m \in voters : LeftMost(g.members[m].protocols, shared) = p}
           votes == [p \in Protocol |-> Cardinality(For(p))]
<1>1. CASE Members(g) = {}
  BY <1>1 DEF Members, Named, Supporters
<1>2. CASE Members(g) # {}
  <2>1. \A p \in shared : Named(g.members, p)
    BY CountedByAll DEF Members
  <2>2. IsFiniteSet(Members(g)) /\ \A m \in Members(g) : g.members[m].protocols \in Protocols
    BY DEF Backed, Members
  <2>3. PICK p \in Protocol : Supporters(g.members, p) = Members(g)
    BY <1>2 DEF Backed, Members
  <2>4. p \in shared
    <3>1. g.supportedProtocolCounts[p] = Cardinality(Supporters(g.members, p))
      BY <1>2, <2>3 DEF Backed
    <3> QED
      BY <2>3, <3>1
  <2>5. \A m \in Members(g) : p \in Range(g.members[m].protocols)
    BY <2>3 DEF Supporters
  <2>6. voters = Members(g)
    BY <2>4, <2>5
  <2>7. name \in Protocol /\ \A q \in Protocol : votes[name] >= votes[q]
    BY <1>2, <2>6 DEF chooseProtocol
  <2>8. PICK m \in voters : TRUE
    BY <1>2, <2>6
  <2>9. \A v \in voters : LeftMost(g.members[v].protocols, shared) \in shared
    BY <2>2, LeftMostShared
  <2> DEFINE q == LeftMost(g.members[m].protocols, shared)
  <2>10. q \in Protocol /\ m \in For(q)
    BY <2>8, <2>9
  <2>11. \A r \in Protocol : IsFiniteSet(For(r)) /\ votes[r] = Cardinality(For(r)) /\ votes[r] \in Nat
    <3> SUFFICES ASSUME NEW r \in Protocol
                 PROVE  IsFiniteSet(For(r)) /\ votes[r] = Cardinality(For(r)) /\ votes[r] \in Nat
      OBVIOUS
    <3>1. For(r) \subseteq Members(g)
      OBVIOUS
    <3>2. IsFiniteSet(For(r))
      BY <2>2, <3>1, FS_Subset
    <3> QED
      BY <3>2, FS_CardinalityType
  <2> HIDE DEF For, votes, q
  <2>12. votes[q] # 0
    BY <2>10, <2>11, FS_EmptySet
  <2>13. votes[name] # 0
    BY <2>7, <2>10, <2>11, <2>12
  <2>14. For(name) # {}
    BY <2>7, <2>11, <2>13, FS_EmptySet
  <2>15. name \in shared
    BY <2>9, <2>14 DEF For
  <2> QED
    BY <2>1, <2>15
<1> QED
  BY <1>1, <1>2

-----------------------------------------------------------------------------
LEMMA TimerMethods ==
  ASSUME NEW g, DOMAIN g = Fields
  PROVE  /\ \A t : Alike(g, setTimer(g, t)) /\ Alike(g, rescheduleTimer(g, t))
         /\ \A keys : Alike(g, cancelTimers(g, keys))
<1>1. \A h, t : DOMAIN h = Fields => Alike(h, setTimer(h, t))
  BY DEF Alike, AlikeButSent, setTimer, Fields
<1>2. \A h, keys : DOMAIN h = Fields => Alike(h, cancelTimers(h, keys))
  BY DEF Alike, AlikeButSent, cancelTimers, Fields
<1>3. ASSUME NEW t
      PROVE  Alike(g, rescheduleTimer(g, t))
  <2>1. Alike(g, cancelTimers(g, {t.key}))
    BY <1>2
  <2>2. DOMAIN cancelTimers(g, {t.key}) = Fields
    BY <2>1 DEF Alike, AlikeButSent
  <2>3. Alike(cancelTimers(g, {t.key}), setTimer(cancelTimers(g, {t.key}), t))
    BY <1>1, <2>2
  <2> QED
    BY <2>1, <2>3 DEF Alike, AlikeButSent, rescheduleTimer
<1> QED
  BY <1>1, <1>2, <1>3

LEMMA AlikeGood ==
  ASSUME NEW g, NEW h, NEW ids, Alike(g, h)
  PROVE  /\ Base(g, ids) => Base(h, ids)
         /\ Quiet(g) => Quiet(h)
         /\ Placed(g) => Placed(h)
         /\ Members(h) = Members(g)
  BY DEF Alike, AlikeButSent, Base, Quiet, Placed, Members

\* What follows may be exchanged for what is alike.
LEMMA AlikeFollows ==
  ASSUME NEW g, NEW h, NEW k, NEW ids, Follows(g, h, ids), Alike(h, k)
  PROVE  Follows(g, k, ids)
  BY AlikeGood DEF Alike, AlikeButSent, Follows

\* An assertion fails, but not that of createMemberInfos.
LEMMA Fails ==
  ASSUME NEW g, NEW h, NEW ids, Answers(h.sent) = {}, h.panics # {}, "cannot find protocol" \notin h.panics
  PROVE  Follows(g, h, ids)
  BY DEF Follows

\* A group that is not led.
LEMMA NotLed ==
  ASSUME NEW g, NEW h, NEW ids, Base(h, ids), Placed(h), Quiet(h),
         h.state \notin Led, h.generationID >= g.generationID
  PROVE  Follows(g, h, ids)
  BY DEF Follows, Quiet

LEMMA SendsOnly ==
  ASSUME NEW g, DOMAIN g = Fields, NEW A
  PROVE  Sends(g, A).sent = g.sent \cup A /\ AlikeButSent(g, Sends(g, A))
  BY DEF Sends, AlikeButSent, Fields

\* JoinErrors and SyncResults tell no generation.
LEMMA OtherAnswers ==
  ASSUME NEW g, DOMAIN g = Fields
  PROVE  /\ \A m, error : error # "none" => Answers(Sends(g, JoinError(m, error)).sent) = Answers(g.sent)
         /\ \A S, error : Answers(Sends(g, SyncResults(S, error)).sent) = Answers(g.sent)
<1>1. \A m, error : error # "none" => Answers(g.sent \cup JoinError(m, error)) = Answers(g.sent)
  BY DEF Answers, JoinError
<1>2. \A S, error : Answers(g.sent \cup SyncResults(S, error)) = Answers(g.sent)
  BY DEF Answers, SyncResults
<1> QED
  BY <1>1, <1>2, SendsOnly

-----------------------------------------------------------------------------
\* removeMembers removes gone, and empties the group with its last member.
LEMMA RemoveMembers ==
  ASSUME NEW g, NEW gone, NEW ids, Base(g, ids), Quiet(g), NEW h, h = removeMembers(g, gone)
  PROVE  /\ DOMAIN h = Fields
         /\ Members(h) = Members(g) \ gone
         /\ \A m \in Members(h) : h.members[m] = g.members[m]
         /\ h.pendingMemberIDs \subseteq g.pendingMemberIDs
         /\ h.state = IF gone \cap Members(g) # {} /\ Members(g) \ gone = {} THEN "Empty" ELSE g.state
         /\ h.leader = g.leader /\ h.protocolName = g.protocolName /\ h.generationID = g.generationID
         /\ Quiet(h) /\ Backed(h.members, h.supportedProtocolCounts)
         /\ \A name : Named(g.members, name) => Named(h.members, name)
<1>1. CASE gone \cap Members(g) = {}
  BY <1>1 DEF removeMembers, Base
<1>2. CASE gone \cap Members(g) # {}
  <2> DEFINE c == cancelTimers(g, gone \cap Members(g))
  <2>1. Alike(g, c)
    BY TimerMethods DEF Base
  <2> HIDE DEF c
  <2>2. h = [c EXCEPT
             !.members = Restrict(@, Members(g) \ gone),
             !.pendingMemberIDs = @ \ (gone \cap Members(g)),
             !.supportedProtocolCounts =
                [p \in Protocol |-> @[p] - Cardinality({m \in gone \cap Members(g) :
                                                          p \in Range(g.members[m].protocols)})],
             !.state = IF Members(g) \ gone = {} THEN "Empty" ELSE @,
             !.assignments = IF Members(g) \ gone = {} THEN None ELSE @]
    BY <1>2 DEF removeMembers, c
  <2>3. DOMAIN c = Fields
    BY <2>1 DEF Alike, AlikeButSent, Base
  <2>4. /\ DOMAIN h = Fields
        /\ h.members = Restrict(c.members, Members(g) \ gone)
        /\ h.pendingMemberIDs = c.pendingMemberIDs \ (gone \cap Members(g))
        /\ h.supportedProtocolCounts =
             [p \in Protocol |-> c.supportedProtocolCounts[p]
                                  - Cardinality({m \in gone \cap Members(g) :
                                                   p \in Range(g.members[m].protocols)})]
        /\ h.state = IF Members(g) \ gone = {} THEN "Empty" ELSE c.state
        /\ h.leader = c.leader /\ h.protocolName = c.protocolName /\ h.generationID = c.generationID
        /\ h.sent = c.sent /\ h.panics = c.panics
    BY <2>2, <2>3 DEF Fields
  <2>5. DOMAIN h.members = Members(g) \ gone /\ \A m \in Members(g) \ gone : h.members[m] = g.members[m]
    BY <2>1, <2>4 DEF Restrict, Alike, AlikeButSent
  <2>6. CountedOff(g.members, g.supportedProtocolCounts, gone \cap Members(g), h.supportedProtocolCounts)
    BY <2>1, <2>4 DEF CountedOff, Alike, AlikeButSent
  <2>7. /\ Backed(h.members, h.supportedProtocolCounts)
        /\ \A name : Named(g.members, name) => Named(h.members, name)
    <3>1. gone \cap Members(g) \subseteq DOMAIN g.members
      BY DEF Members
    <3>2. /\ DOMAIN h.members = DOMAIN g.members \ (gone \cap Members(g))
          /\ \A m \in DOMAIN g.members \ (gone \cap Members(g)) : h.members[m] = g.members[m]
      BY <2>5 DEF Members
    <3>3. Backed(g.members, g.supportedProtocolCounts)
      BY DEF Base
    <3> QED
      BY <2>6, <3>1, <3>2, <3>3, BackedRemoved
  <2> QED
    BY <1>2, <2>1, <2>4, <2>5, <2>7 DEF Alike, AlikeButSent, Members, Quiet
<1> QED
  BY <1>1, <1>2

\* With a leader that LeaderAfter allows, what removeMembers leaves is a group again.
LEMMA RemoveAndLead ==
  ASSUME NEW g, NEW gone, NEW ids, Base(g, ids), Quiet(g), Placed(g),
         NEW leader \in LeaderAfter(removeMembers(g, gone), gone),
         NEW h, DOMAIN h = Fields,
         h.leader = leader,
         Members(h) = Members(removeMembers(g, gone)), h.members = removeMembers(g, gone).members,
         h.pendingMemberIDs = removeMembers(g, gone).pendingMemberIDs,
         h.supportedProtocolCounts = removeMembers(g, gone).supportedProtocolCounts,
         h.protocolName = removeMembers(g, gone).protocolName,
         h.state = removeMembers(g, gone).state,
         h.generationID \in Nat
  PROVE  Base(h, ids) /\ Placed(h)
<1> DEFINE r == removeMembers(g, gone)
<1>1. /\ Members(r) = Members(g) \ gone
      /\ \A m \in Members(r) : r.members[m] = g.members[m]
      /\ r.pendingMemberIDs \subseteq g.pendingMemberIDs
      /\ r.state = IF gone \cap Members(g) # {} /\ Members(g) \ gone = {} THEN "Empty" ELSE g.state
      /\ r.leader = g.leader /\ r.protocolName = g.protocolName
      /\ Backed(r.members, r.supportedProtocolCounts)
      /\ \A name : Named(g.members, name) => Named(r.members, name)
  BY RemoveMembers
<1> HIDE DEF r
<1>2. /\ Members(h) = Members(r) /\ h.members = r.members /\ h.state = r.state
      /\ h.pendingMemberIDs = r.pendingMemberIDs /\ leader \in LeaderAfter(r, gone)
      /\ h.protocolName = r.protocolName
      /\ h.supportedProtocolCounts = r.supportedProtocolCounts
  BY DEF r
<1>3. Members(h) # {} => h.leader \in Members(h)
  BY <1>1, <1>2 DEF LeaderAfter, Base
<1>4. Base(h, ids)
  BY <1>1, <1>2, <1>3 DEF Base
<1>5. Placed(h)
  BY <1>1, <1>2 DEF Placed, States, Led
<1> QED
  BY <1>4, <1>5

\* A rebalance starts, or there is nobody in the group.
LEMMA Rebalances ==
  ASSUME NEW h, DOMAIN h = Fields, NEW k, k = triggerRebalance(h)
  PROVE  /\ DOMAIN k = Fields /\ k.members = h.members /\ k.pendingMemberIDs = h.pendingMemberIDs
         /\ k.supportedProtocolCounts = h.supportedProtocolCounts
         /\ k.leader = h.leader /\ k.protocolName = h.protocolName
         /\ k.generationID = h.generationID /\ k.sent = h.sent
         /\ IF Members(h) = {} THEN k.panics = h.panics \cup {"no members in group"} ELSE k.state = "PreRebalance" /\ k.panics = h.panics
<1>1. CASE Members(h) = {}
  <2>1. k = [h EXCEPT !.panics = @ \cup {"no members in group"}]
    BY <1>1 DEF triggerRebalance, Panics
  <2> QED
    BY <1>1, <2>1 DEF Fields
<1>2. CASE Members(h) # {}
  <2> DEFINE s == [h EXCEPT !.state = "PreRebalance"]
  <2>1. /\ DOMAIN s = Fields /\ s.state = "PreRebalance" /\ s.members = h.members
        /\ s.pendingMemberIDs = h.pendingMemberIDs /\ s.leader = h.leader /\ s.protocolName = h.protocolName
        /\ s.supportedProtocolCounts = h.supportedProtocolCounts
        /\ s.generationID = h.generationID /\ s.sent = h.sent /\ s.panics = h.panics
    BY DEF Fields
  <2>2. k = rescheduleTimer(s, Timer("group", "join", 0))
    BY <1>2 DEF triggerRebalance
  <2> HIDE DEF s
  <2>3. Alike(s, k)
    BY <2>1, <2>2, TimerMethods
  <2> QED
    BY <1>2, <2>1, <2>3 DEF Alike, AlikeButSent
<1> QED
  BY <1>1, <1>2

LEMMA TriggerRebalance ==
  ASSUME NEW g, NEW h, NEW ids, Base(h, ids), Quiet(h),
         g.generationID \in Nat, h.generationID >= g.generationID
  PROVE  Follows(g, triggerRebalance(h), ids)
<1> DEFINE k == triggerRebalance(h)
<1>1. /\ DOMAIN k = Fields /\ k.members = h.members /\ k.pendingMemberIDs = h.pendingMemberIDs
      /\ k.supportedProtocolCounts = h.supportedProtocolCounts
      /\ k.leader = h.leader /\ k.generationID = h.generationID /\ k.sent = h.sent
      /\ IF Members(h) = {} THEN k.panics = h.panics \cup {"no members in group"} ELSE k.state = "PreRebalance" /\ k.panics = h.panics
  BY Rebalances DEF Base
<1> HIDE DEF k
<1>2. Answers(k.sent) = {}
  BY <1>1 DEF Quiet
<1>3. CASE Members(h) = {}
  <2>1. k.panics = {"no members in group"}
    BY <1>1, <1>3 DEF Quiet
  <2> QED
    BY <1>2, <2>1, Fails DEF k
<1>4. CASE Members(h) # {}
  <2>1. Members(k) = Members(h)
    BY <1>1 DEF Members
  <2>2. Base(k, ids)
    BY <1>1, <2>1 DEF Base
  <2>3. Placed(k)
    BY <1>1, <1>4, <2>1 DEF Placed, States, Led
  <2> QED
    BY <1>1, <1>2, <1>4, <2>2, <2>3 DEF Follows, Quiet, Led, k
<1> QED
  BY <1>3, <1>4

\* A JoinResult tells the generation, leader and protocol of the group.
LEMMA SendJoinResult ==
  ASSUME NEW g, NEW S, DOMAIN g = Fields, Quiet(g), Named(g.members, g.protocolName),
         NEW h, h = sendJoinResult(g, S)
  PROVE  /\ AlikeButSent(g, h)
         /\ Answers(h.sent) \subseteq {<<g.generationID, g.leader, g.protocolName>>}
<1>1. h = Sends(g, JoinResults(g, S))
  BY DEF sendJoinResult, Named, Supporters, Members
<1>2. h.sent = g.sent \cup JoinResults(g, S) /\ AlikeButSent(g, h)
  BY <1>1, SendsOnly
<1>3. Answers(g.sent \cup JoinResults(g, S)) \subseteq {<<g.generationID, g.leader, g.protocolName>>}
  BY DEF Quiet, Answers, JoinResults
<1> QED
  BY <1>2, <1>3

\* All members are told the same, under a generation that is new.
LEMMA SendJoinResults ==
  ASSUME NEW g, NEW r, NEW ids, Base(r, ids), Quiet(r), g.generationID \in Nat,
         r.generationID > g.generationID, NEW h \in sendJoinResults(r)
  PROVE  Follows(g, h, ids)
<1>1. PICK name, last : name \in chooseProtocol(r) /\ h = sendJoinResultsOf(r, name, last)
  BY DEF sendJoinResults
<1> DEFINE named == [r EXCEPT !.protocolName = name]
           answers == sendJoinResult(named, Members(r))
           answered == [answers EXCEPT
                !.members = [m \in Members(r) |-> [@[m] EXCEPT !.join = FALSE, !.new = FALSE]],
                !.state = "AwaitingRebalance"]
           cancelled == cancelTimers(answered, Members(r))
           armed == [cancelled EXCEPT !.timers =
                       [k \in Key |-> IF k \in Members(r) THEN Session(k, last) ELSE @[k]]]
<1>2. h = rescheduleTimer(armed, Timer("group", "sync", r.generationID))
  BY <1>1 DEF sendJoinResultsOf
<1>3. /\ DOMAIN named = Fields /\ named.members = r.members /\ named.leader = r.leader
      /\ named.protocolName = name
      /\ named.pendingMemberIDs = r.pendingMemberIDs /\ named.generationID = r.generationID
      /\ named.supportedProtocolCounts = r.supportedProtocolCounts
      /\ named.sent = r.sent /\ named.panics = r.panics
  BY DEF Base, Fields
<1> HIDE DEF named
<1>4. Quiet(named)
  BY <1>3 DEF Quiet
<1>5. Named(r.members, name)
  BY <1>1, Chosen DEF Base
<1>6. /\ AlikeButSent(named, answers)
      /\ Answers(answers.sent) \subseteq {<<named.generationID, named.leader, named.protocolName>>}
  BY <1>3, <1>4, <1>5, SendJoinResult
<1> HIDE DEF answers
<1>7. /\ DOMAIN answered = Fields /\ answered.state = "AwaitingRebalance"
      /\ answered.members = [m \in Members(r) |-> [answers.members[m] EXCEPT !.join = FALSE, !.new = FALSE]]
      /\ answered.pendingMemberIDs = answers.pendingMemberIDs /\ answered.leader = answers.leader
      /\ answered.supportedProtocolCounts = answers.supportedProtocolCounts
      /\ answered.protocolName = answers.protocolName /\ answered.generationID = answers.generationID
      /\ answered.sent = answers.sent /\ answered.panics = answers.panics
  BY <1>3, <1>6 DEF Fields, AlikeButSent
<1> HIDE DEF answered
<1>8. Alike(answered, cancelled)
  BY <1>7, TimerMethods
<1> HIDE DEF cancelled
<1>9. Alike(cancelled, armed) /\ DOMAIN armed = Fields
  BY <1>7, <1>8 DEF Alike, AlikeButSent, Fields
<1> HIDE DEF armed
<1>10. Alike(armed, h)
  BY <1>2, <1>9, TimerMethods
<1>11. Alike(answered, h)
  BY <1>8, <1>9, <1>10 DEF Alike, AlikeButSent
<1>12. /\ answered.pendingMemberIDs = r.pendingMemberIDs /\ answered.leader = r.leader
       /\ answered.supportedProtocolCounts = r.supportedProtocolCounts /\ answered.protocolName = name
       /\ answered.generationID = r.generationID /\ answered.panics = {}
       /\ answered.members = [m \in Members(r) |-> [r.members[m] EXCEPT !.join = FALSE, !.new = FALSE]]
       /\ Answers(answered.sent) \subseteq {<<answered.generationID, answered.leader, answered.protocolName>>}
  <2>1. /\ answers.pendingMemberIDs = r.pendingMemberIDs /\ answers.leader = r.leader
        /\ answers.supportedProtocolCounts = r.supportedProtocolCounts /\ answers.protocolName = name
        /\ answers.generationID = r.generationID /\ answers.panics = {} /\ answers.members = r.members
        /\ Answers(answers.sent) \subseteq {<<r.generationID, r.leader, name>>}
    BY <1>3, <1>6 DEF AlikeButSent, Quiet
  <2> QED
    BY <1>7, <2>1
<1>13. Members(answered) = Members(r)
  BY <1>12 DEF Members
<1>14. ASSUME NEW m \in Members(r)
       PROVE  /\ DOMAIN answered.members[m] = MemberFields /\ ~answered.members[m].join
              /\ answered.members[m].protocols = r.members[m].protocols
  <2>1. answered.members[m] = [r.members[m] EXCEPT !.join = FALSE, !.new = FALSE]
    BY <1>12
  <2>2. DOMAIN r.members[m] = MemberFields
    BY DEF Base
  <2>3. /\ DOMAIN answered.members[m] = MemberFields /\ answered.members[m].join = FALSE
        /\ answered.members[m].protocols = r.members[m].protocols
    BY <2>1, <2>2 DEF MemberFields
  <2> QED
    BY <2>3
<1>15. Backed(answered.members, r.supportedProtocolCounts) /\ Named(answered.members, name)
  <2>1. /\ DOMAIN answered.members = DOMAIN r.members
        /\ \A m \in DOMAIN r.members : answered.members[m].protocols = r.members[m].protocols
    BY <1>13, <1>14 DEF Members
  <2>2. Backed(r.members, r.supportedProtocolCounts)
    BY DEF Base
  <2> QED
    BY <1>5, <2>1, <2>2, BackedFields
<1>16. Base(answered, ids)
  BY <1>7, <1>12, <1>13, <1>14, <1>15 DEF Base
<1>17. Placed(answered)
  BY <1>7, <1>12, <1>13, <1>14, <1>15 DEF Placed, States, Led
<1>18. answered.generationID > g.generationID /\ answered.generationID >= g.generationID
  <2>1. answered.generationID = r.generationID
    BY <1>12
  <2>2. r.generationID \in Nat /\ r.generationID >= g.generationID
    BY DEF Base
  <2> QED
    BY <2>1, <2>2
<1>19. Follows(g, answered, ids)
  BY <1>12, <1>16, <1>17, <1>18 DEF Follows
<1> QED
  BY <1>11, <1>19, AlikeFollows

\* A group that nothing was done to.
LEMMA Nothing ==
  ASSUME NEW g, NEW h, NEW ids, Base(h, ids), Placed(h), Quiet(h), g.generationID \in Nat,
         h.generationID = g.generationID, h.leader = g.leader, h.protocolName = g.protocolName,
         h.state \in Led => g.state \in Led
  PROVE  Follows(g, h, ids)
  BY DEF Follows, Base, Quiet

\* The join completes when nobody is waited for.
LEMMA MaybeCompleteJoin ==
  ASSUME NEW g, NEW r, NEW ids, Base(r, ids), Quiet(r), Placed(r), g.generationID \in Nat,
         r.generationID = g.generationID, NEW h \in maybeCompleteJoin(r),
         r.state \in Led => g.state \in Led /\ r.leader = g.leader /\ r.protocolName = g.protocolName
  PROVE  Follows(g, h, ids)
<1>1. CASE h = r
  <2>1. r.generationID >= g.generationID
    OBVIOUS
  <2>2. CASE r.state \in Led
    BY <1>1, <2>2, Nothing
  <2>3. CASE r.state \notin Led
    BY <1>1, <2>1, <2>3, NotLed
  <2> QED
    BY <2>2, <2>3
<1>2. CASE h \in sendJoinResults([r EXCEPT !.generationID = @ + 1])
  <2> DEFINE k == [r EXCEPT !.generationID = @ + 1]
  <2>1. /\ DOMAIN k = Fields /\ k.members = r.members /\ k.pendingMemberIDs = r.pendingMemberIDs
        /\ k.supportedProtocolCounts = r.supportedProtocolCounts
        /\ k.leader = r.leader /\ k.generationID = r.generationID + 1 /\ k.sent = r.sent /\ k.panics = r.panics
    BY DEF Base, Fields
  <2>2. h \in sendJoinResults(k)
    BY <1>2
  <2> HIDE DEF k
  <2>3. Base(k, ids)
    BY <2>1 DEF Base, Members
  <2>4. Quiet(k)
    BY <2>1 DEF Quiet
  <2>5. k.generationID > g.generationID
    BY <2>1 DEF Base
  <2> QED
    BY <2>2, <2>3, <2>4, <2>5, SendJoinResults
<1> QED
  BY <1>1, <1>2 DEF maybeCompleteJoin

\* The last members are removed, or there were none.
LEMMA RemovedAll ==
  ASSUME NEW g, NEW gone, NEW ids, Base(g, ids), Quiet(g), Placed(g),
         NEW h, h = removeMembers(g, gone), Members(h) = {}
  PROVE  Follows(g, h, ids)
<1>1. /\ DOMAIN h = Fields /\ Members(h) = Members(g) \ gone
      /\ h.pendingMemberIDs \subseteq g.pendingMemberIDs
      /\ h.state = IF gone \cap Members(g) # {} /\ Members(g) \ gone = {} THEN "Empty" ELSE g.state
      /\ h.leader = g.leader /\ h.protocolName = g.protocolName /\ h.generationID = g.generationID
      /\ Quiet(h) /\ Backed(h.members, h.supportedProtocolCounts)
      /\ \A name : Named(g.members, name) => Named(h.members, name)
  BY RemoveMembers
<1>2. Base(h, ids) /\ g.generationID \in Nat
  BY <1>1 DEF Base
<1>3. Placed(h) /\ (h.state \in Led => g.state \in Led)
  BY <1>1 DEF Placed, States, Led
<1> QED
  BY <1>1, <1>2, <1>3, Nothing

\* Members are removed, and those that are left rebalance.
LEMMA RemoveAndRebalance ==
  ASSUME NEW g, NEW gone, NEW ids, Base(g, ids), Quiet(g), Placed(g), NEW assignments,
         NEW leader \in LeaderAfter(removeMembers(g, gone), gone)
  PROVE  Follows(g, triggerRebalance([removeMembers(g, gone) EXCEPT
                                        !.leader = leader, !.assignments = assignments]), ids)
<1> DEFINE rest == removeMembers(g, gone)
           k == [rest EXCEPT !.leader = leader, !.assignments = assignments]
<1>1. DOMAIN rest = Fields /\ rest.generationID = g.generationID /\ Quiet(rest)
  BY RemoveMembers
<1>2. /\ DOMAIN k = Fields /\ k.members = rest.members /\ k.state = rest.state
      /\ k.pendingMemberIDs = rest.pendingMemberIDs /\ k.leader = leader
      /\ k.supportedProtocolCounts = rest.supportedProtocolCounts /\ k.protocolName = rest.protocolName
      /\ k.generationID = rest.generationID /\ k.sent = rest.sent /\ k.panics = rest.panics
  BY <1>1 DEF Fields
<1> HIDE DEF k
<1>3. Members(k) = Members(rest) /\ k.generationID \in Nat /\ g.generationID \in Nat
  BY <1>1, <1>2 DEF Members, Base
<1>4. Base(k, ids)
  BY <1>2, <1>3, RemoveAndLead
<1>5. Quiet(k)
  BY <1>1, <1>2 DEF Quiet
<1>6. k.generationID >= g.generationID
  BY <1>1, <1>2, <1>3
<1>7. Follows(g, triggerRebalance(k), ids)
  BY <1>3, <1>4, <1>5, <1>6, TriggerRebalance
<1> QED
  BY <1>7 DEF k

-----------------------------------------------------------------------------
\* What the timers run.
LEMMA InitialJoinTimer ==
  ASSUME NEW g, NEW ids, Base(g, ids), Quiet(g), Placed(g), NEW remaining,
         NEW h \in initialJoinTimerExpired(g, remaining)
  PROVE  Follows(g, h, ids)
<1> DEFINE k == [g EXCEPT !.newMemberAdded = FALSE]
           e == [g EXCEPT !.newMemberAdded = FALSE, !.initialJoinDelayExpired = TRUE]
<1>1. Alike(g, k) /\ Alike(g, e) /\ DOMAIN k = Fields
  BY DEF Alike, AlikeButSent, Base, Fields
<1>2. h = setTimer(k, Timer("group", "initial", remaining - 1)) \/ h \in maybeCompleteJoin(e)
  BY DEF initialJoinTimerExpired
<1> HIDE DEF k, e
<1>3. g.generationID \in Nat
  BY DEF Base
<1>4. CASE h = setTimer(k, Timer("group", "initial", remaining - 1))
  <2>1. Alike(k, h)
    BY <1>1, <1>4, TimerMethods
  <2>2. Follows(g, g, ids)
    BY <1>3, Nothing
  <2> QED
    BY <1>1, <2>1, <2>2, AlikeFollows
<1>5. CASE h \in maybeCompleteJoin(e)
  <2>1. Base(e, ids) /\ Quiet(e) /\ Placed(e)
    BY <1>1, AlikeGood
  <2>2. e.generationID = g.generationID /\ e.state = g.state /\ e.leader = g.leader /\ e.protocolName = g.protocolName
    BY <1>1 DEF Alike, AlikeButSent
  <2> QED
    BY <1>3, <1>5, <2>1, <2>2, MaybeCompleteJoin
<1> QED
  BY <1>2, <1>4, <1>5

LEMMA JoinTimeout ==
  ASSUME NEW g, NEW ids, Base(g, ids), Quiet(g), Placed(g), NEW h \in handleJoinTimeout(g)
  PROVE  Follows(g, h, ids)
<1> DEFINE gone == {m \in Members(g) : ~g.members[m].join}
           removed == removeMembers(g, gone)
           rest == [removed EXCEPT !.generationID = @ + 1]
           Led_(leader) == [rest EXCEPT !.leader = leader,
                                        !.assignments = IF g.leader \in gone THEN None ELSE @]
<1>1. g.generationID \in Nat
  BY DEF Base
<1>2. \/ h = g
      \/ h = rest /\ Members(rest) = {} /\ g.state = "PreRebalance"
      \/ \E leader \in LeaderAfter(rest, gone) : h \in sendJoinResults(Led_(leader))
  BY DEF handleJoinTimeout
<1> HIDE DEF gone
<1>3. /\ DOMAIN removed = Fields /\ Members(removed) = Members(g) \ gone
      /\ removed.state = IF gone \cap Members(g) # {} /\ Members(g) \ gone = {} THEN "Empty" ELSE g.state
      /\ removed.leader = g.leader /\ removed.generationID = g.generationID /\ Quiet(removed)
      /\ Backed(removed.members, removed.supportedProtocolCounts)
  BY RemoveMembers
<1>4. /\ DOMAIN rest = Fields /\ rest.members = removed.members /\ rest.state = removed.state
      /\ rest.pendingMemberIDs = removed.pendingMemberIDs /\ rest.leader = removed.leader
      /\ rest.supportedProtocolCounts = removed.supportedProtocolCounts /\ rest.protocolName = removed.protocolName
      /\ rest.generationID = g.generationID + 1 /\ rest.sent = removed.sent /\ rest.panics = removed.panics
  BY <1>3 DEF Fields
<1>5. Members(rest) = Members(removed) /\ \A S : LeaderAfter(rest, S) = LeaderAfter(removed, S)
  BY <1>4 DEF Members, LeaderAfter
<1> HIDE DEF rest, removed
<1>6. Quiet(rest)
  BY <1>3, <1>4 DEF Quiet
<1>7. CASE h = g
  BY <1>1, <1>7, Nothing
<1>8. CASE h = rest /\ Members(rest) = {} /\ g.state = "PreRebalance"
  <2>1. h.state = "Empty" /\ h.members = removed.members
    BY <1>3, <1>4, <1>5, <1>8 DEF Placed
  <2>2. Base(h, ids) /\ Placed(h)
    <3>1. h.pendingMemberIDs \subseteq ids
      BY <1>4, <1>8, RemoveMembers DEF removed, Base
    <3> QED
      BY <1>1, <1>3, <1>4, <1>8, <2>1, <3>1 DEF Base, Placed, States, Led
  <2>3. h.generationID >= g.generationID
    BY <1>1, <1>4, <1>8
  <2> QED
    BY <1>6, <1>8, <2>1, <2>2, <2>3, NotLed DEF Led
<1>9. CASE \E leader \in LeaderAfter(rest, gone) : h \in sendJoinResults(Led_(leader))
  <2>1. PICK leader \in LeaderAfter(removed, gone) : h \in sendJoinResults(Led_(leader))
    BY <1>5, <1>9
  <2> DEFINE k == Led_(leader)
  <2>2. /\ DOMAIN k = Fields /\ k.members = rest.members /\ k.state = rest.state
        /\ k.pendingMemberIDs = rest.pendingMemberIDs /\ k.leader = leader
        /\ k.supportedProtocolCounts = rest.supportedProtocolCounts /\ k.protocolName = rest.protocolName
        /\ k.generationID = rest.generationID /\ k.sent = rest.sent /\ k.panics = rest.panics
    BY <1>4 DEF Fields
  <2> HIDE DEF k
  <2>3. Members(k) = Members(removed) /\ k.generationID \in Nat
    BY <1>1, <1>4, <2>2 DEF Members
  <2>4. Base(k, ids)
    BY <1>4, <2>2, <2>3, RemoveAndLead DEF removed
  <2>5. Quiet(k)
    BY <1>6, <2>2 DEF Quiet
  <2>6. k.generationID > g.generationID
    BY <1>1, <1>4, <2>2
  <2> QED
    BY <1>1, <2>1, <2>4, <2>5, <2>6, SendJoinResults DEF k
<1> QED
  BY <1>2, <1>7, <1>8, <1>9

LEMMA SyncTimeout ==
  ASSUME NEW g, NEW ids, Base(g, ids), Quiet(g), Placed(g), NEW generationID,
         NEW h \in handleSyncTimeout(g, generationID)
  PROVE  Follows(g, h, ids)
<1> DEFINE gone == {m \in Members(g) : ~g.members[m].sync}
           rest == removeMembers(g, gone)
           Led_(leader) == [rest EXCEPT !.leader = leader,
                                        !.assignments = IF g.leader \in gone THEN None ELSE rest.assignments]
<1>1. g.generationID \in Nat
  BY DEF Base
<1>2. \/ h = g
      \/ h = rest /\ Members(rest) = {}
      \/ \E leader \in LeaderAfter(rest, gone) : h = triggerRebalance(Led_(leader))
  BY DEF handleSyncTimeout
<1> HIDE DEF gone
<1>3. CASE h = g
  BY <1>1, <1>3, Nothing
<1>4. CASE h = rest /\ Members(rest) = {}
  BY <1>4, RemovedAll
<1>5. CASE \E leader \in LeaderAfter(rest, gone) : h = triggerRebalance(Led_(leader))
  <2>1. PICK leader \in LeaderAfter(rest, gone) : h = triggerRebalance(Led_(leader))
    BY <1>5
  <2> QED
    BY <2>1, RemoveAndRebalance
<1> QED
  BY <1>2, <1>3, <1>4, <1>5

\* A JoinError or a SyncResult makes no difference.
LEMMA Silent ==
  ASSUME NEW g, NEW h, NEW ids, AlikeButSent(g, h), Answers(h.sent) = Answers(g.sent)
  PROVE  /\ Base(g, ids) => Base(h, ids)
         /\ Quiet(g) => Quiet(h)
         /\ Placed(g) => Placed(h)
         /\ Members(h) = Members(g)
         /\ \A k : Follows(h, k, ids) => Follows(g, k, ids)
<1>1. \A k : Follows(h, k, ids) => Follows(g, k, ids)
  BY DEF AlikeButSent, Follows
<1> QED
  BY <1>1 DEF AlikeButSent, Base, Quiet, Placed, Members

LEMMA MemberExpired ==
  ASSUME NEW g, NEW ids, Base(g, ids), Quiet(g), Placed(g), NEW memberID \in Members(g),
         NEW leader \in LeaderAfter(removeMembers(g, {memberID}), {memberID}),
         NEW h \in memberExpired([removeMembers(g, {memberID}) EXCEPT !.leader = leader])
  PROVE  Follows(g, h, ids)
<1> DEFINE rest == removeMembers(g, {memberID})
           k == [rest EXCEPT !.leader = leader]
<1>1. /\ DOMAIN rest = Fields /\ rest.generationID = g.generationID /\ Quiet(rest)
      /\ Members(rest) = Members(g) \ {memberID}
      /\ rest.state = IF Members(g) \ {memberID} = {} THEN "Empty" ELSE g.state
  BY RemoveMembers
<1>2. /\ DOMAIN k = Fields /\ k.members = rest.members /\ k.state = rest.state
      /\ k.pendingMemberIDs = rest.pendingMemberIDs /\ k.leader = leader
      /\ k.supportedProtocolCounts = rest.supportedProtocolCounts /\ k.protocolName = rest.protocolName
      /\ k.generationID = rest.generationID /\ k.sent = rest.sent /\ k.panics = rest.panics
  BY <1>1 DEF Fields
<1>3. h \in memberExpired(k)
  OBVIOUS
<1> HIDE DEF k
<1>4. Members(k) = Members(rest) /\ k.generationID \in Nat /\ g.generationID \in Nat
  BY <1>1, <1>2 DEF Members, Base
<1>5. Base(k, ids) /\ Placed(k)
  BY <1>2, <1>4, RemoveAndLead
<1>6. Quiet(k)
  BY <1>1, <1>2 DEF Quiet
<1>7. k.generationID >= g.generationID /\ k.generationID = g.generationID
  BY <1>1, <1>2, <1>4
<1>8. CASE h = k /\ k.state = "Empty"
  BY <1>5, <1>6, <1>7, <1>8 DEF Follows, Quiet, Led
<1>9. CASE k.state = "PreRebalance" /\ h \in maybeCompleteJoin(k)
  BY <1>4, <1>5, <1>6, <1>7, <1>9, MaybeCompleteJoin DEF Led
<1>10. CASE h = triggerRebalance(k)
  BY <1>4, <1>5, <1>6, <1>7, <1>10, TriggerRebalance
<1>11. Members(k) = {} => k.state = "Empty"
  BY <1>1, <1>2, <1>4
<1> QED
  BY <1>3, <1>8, <1>9, <1>10, <1>11 DEF memberExpired

LEMMA SessionTimeout ==
  ASSUME NEW g, NEW ids, Base(g, ids), Quiet(g), Placed(g), NEW memberID,
         NEW h \in sessionTimeoutExpired(g, memberID)
  PROVE  Follows(g, h, ids)
<1> DEFINE member == g.members[memberID]
           told_ == IF member.join THEN Sends(g, JoinError(memberID, "unknown member")) ELSE g
<1>1. \/ h = g
      \/ memberID \in g.pendingMemberIDs /\ h \in maybeCompleteJoin(removeMembers(g, {memberID}))
      \/ /\ memberID \in Members(g)
         /\ \E leader \in LeaderAfter(removeMembers(told_, {memberID}), {memberID}) :
              h \in memberExpired([removeMembers(told_, {memberID}) EXCEPT !.leader = leader])
  BY DEF sessionTimeoutExpired
<1>2. AlikeButSent(g, told_) /\ Answers(told_.sent) = Answers(g.sent)
  <2>1. DOMAIN g = Fields
    BY DEF Base
  <2>2. AlikeButSent(g, g)
    BY DEF AlikeButSent
  <2> QED
    BY <2>1, <2>2, SendsOnly, OtherAnswers
<1> HIDE DEF told_
<1>3. g.generationID \in Nat
  BY DEF Base
<1>4. CASE h = g
  BY <1>3, <1>4, Nothing
<1>5. CASE memberID \in g.pendingMemberIDs /\ h \in maybeCompleteJoin(removeMembers(g, {memberID}))
  <2>1. memberID \notin Members(g)
    BY <1>5 DEF Base
  <2>2. removeMembers(g, {memberID}) = g
    BY <2>1 DEF removeMembers
  <2> QED
    BY <1>3, <1>5, <2>2, MaybeCompleteJoin
<1>6. CASE /\ memberID \in Members(g)
           /\ \E leader \in LeaderAfter(removeMembers(told_, {memberID}), {memberID}) :
                h \in memberExpired([removeMembers(told_, {memberID}) EXCEPT !.leader = leader])
  <2>1. Base(told_, ids) /\ Quiet(told_) /\ Placed(told_) /\ Members(told_) = Members(g)
    BY <1>2, Silent
  <2>2. Follows(told_, h, ids)
    BY <1>6, <2>1, MemberExpired
  <2> QED
    BY <1>2, <2>2, Silent
<1> QED
  BY <1>1, <1>4, <1>5, <1>6

LEMMA RunFollows ==
  ASSUME NEW g, NEW ids, Base(g, ids), Quiet(g), Placed(g), NEW timer, NEW h \in Run(g, timer)
  PROVE  Follows(g, h, ids)
<1>1. \/ h \in initialJoinTimerExpired(g, timer.arg) \/ h \in handleJoinTimeout(g)
      \/ h \in handleSyncTimeout(g, timer.arg) \/ h \in sessionTimeoutExpired(g, timer.arg)
  BY DEF Run
<1> QED
  BY <1>1, InitialJoinTimer, JoinTimeout, SyncTimeout, SessionTimeout

-----------------------------------------------------------------------------
\* memberID has joined g, in h.
Joined(g, h, memberID) ==
  /\ DOMAIN h = Fields /\ Members(h) = Members(g) \cup {memberID}
  /\ \A m \in Members(g) \ {memberID} : h.members[m] = g.members[m]
  /\ DOMAIN h.members[memberID] = MemberFields /\ Backed(h.members, h.supportedProtocolCounts)
  /\ h.pendingMemberIDs = g.pendingMemberIDs \ {memberID}
  /\ h.state = g.state /\ h.leader = g.leader /\ h.protocolName = g.protocolName
  /\ h.generationID = g.generationID /\ h.sent = g.sent /\ h.panics = g.panics

LEMMA AddMember ==
  ASSUME NEW g, DOMAIN g = Fields, NEW memberID, memberID \notin Members(g), NEW protocols \in Protocols,
         Backed(g.members, g.supportedProtocolCounts), Fits(g.members, protocols)
  PROVE  Joined(g, addMember(g, memberID, protocols), memberID)
<1> DEFINE k == [g EXCEPT !.members = [m \in Members(g) \cup {memberID} |->
                                         IF m = memberID THEN Member(protocols) ELSE @[m]],
                          !.supportedProtocolCounts = updateSupportedProtocols(@, protocols, 1),
                          !.pendingMemberIDs = @ \ {memberID},
                          !.newMemberAdded = TRUE]
<1>1. /\ DOMAIN k = Fields /\ k.members = [m \in Members(g) \cup {memberID} |->
                                             IF m = memberID THEN Member(protocols) ELSE g.members[m]]
      /\ k.pendingMemberIDs = g.pendingMemberIDs \ {memberID}
      /\ k.supportedProtocolCounts = updateSupportedProtocols(g.supportedProtocolCounts, protocols, 1)
      /\ k.state = g.state /\ k.leader = g.leader /\ k.protocolName = g.protocolName
      /\ k.generationID = g.generationID /\ k.sent = g.sent /\ k.panics = g.panics
  BY DEF Fields
<1>2. addMember(g, memberID, protocols) = rescheduleTimer(k, Session(memberID, memberID))
  BY DEF addMember
<1> HIDE DEF k
<1>3. Alike(k, addMember(g, memberID, protocols))
  <2>1. DOMAIN k = Fields
    BY <1>1
  <2>2. \A t : Alike(k, rescheduleTimer(k, t))
    BY ONLY <2>1, TimerMethods
  <2> QED
    BY ONLY <1>2, <2>2
<1>4. DOMAIN Member(protocols) = MemberFields
  BY DEF Member, MemberFields
<1>5. Backed(k.members, k.supportedProtocolCounts)
  <2>1. CountedIn(g.supportedProtocolCounts, protocols, k.supportedProtocolCounts)
    BY <1>1 DEF CountedIn, updateSupportedProtocols
  <2>2. /\ DOMAIN k.members = DOMAIN g.members \cup {memberID} /\ k.members[memberID].protocols = protocols
        /\ \A m \in DOMAIN g.members : k.members[m].protocols = g.members[m].protocols
        /\ memberID \notin DOMAIN g.members
    BY <1>1 DEF Members, Member
  <2> QED
    BY <2>1, <2>2, BackedAdded
<1>6. Joined(g, k, memberID)
  BY <1>1, <1>4, <1>5 DEF Joined, Members
<1> QED
  BY <1>1, <1>3, <1>6 DEF Alike, AlikeButSent, Joined, Members

LEMMA UpdateMember ==
  ASSUME NEW g, DOMAIN g = Fields, NEW memberID \in Members(g), NEW protocols \in Protocols,
         DOMAIN g.members[memberID] = MemberFields,
         Backed(g.members, g.supportedProtocolCounts), Fits(g.members, protocols)
  PROVE  Joined(g, updateMember(g, memberID, protocols), memberID)
<1> DEFINE k == updateMember(g, memberID, protocols)
<1>1. /\ DOMAIN k = Fields
      /\ k.members = [g.members EXCEPT ![memberID].protocols = protocols, ![memberID].join = TRUE]
      /\ k.supportedProtocolCounts =
           updateSupportedProtocols(
             updateSupportedProtocols(g.supportedProtocolCounts, g.members[memberID].protocols, -1), protocols, 1)
      /\ k.pendingMemberIDs = g.pendingMemberIDs \ {memberID}
      /\ k.state = g.state /\ k.leader = g.leader /\ k.protocolName = g.protocolName
      /\ k.generationID = g.generationID /\ k.sent = g.sent /\ k.panics = g.panics
  BY DEF updateMember, Fields
<1> HIDE DEF k
<1>2. /\ DOMAIN k.members = DOMAIN g.members
      /\ \A m \in Members(g) \ {memberID} : k.members[m] = g.members[m]
      /\ DOMAIN k.members[memberID] = MemberFields
  BY <1>1 DEF Members
<1>3. k.members[memberID].protocols = protocols
  BY <1>1 DEF Members, MemberFields
<1>4. Backed(k.members, k.supportedProtocolCounts)
  <2>1. /\ memberID \in DOMAIN g.members
        /\ \A m \in DOMAIN g.members \ {memberID} : k.members[m].protocols = g.members[m].protocols
    BY <1>2 DEF Members
  <2>2. k.supportedProtocolCounts =
          updateSupportedProtocols(
            updateSupportedProtocols(g.supportedProtocolCounts, g.members[memberID].protocols, -1), protocols, 1)
    BY <1>1
  <2> QED
    BY <1>2, <1>3, <2>1, <2>2, BackedUpdated
<1> QED
  BY <1>1, <1>2, <1>4 DEF Joined, Members, k

LEMMA JoinedGood ==
  ASSUME NEW g, NEW h, NEW memberID, NEW ids, memberID \in ids, Joined(g, h, memberID),
         Base(g, ids), Quiet(g), Members(g) # {}
  PROVE  /\ Base(h, ids) /\ Quiet(h)
         /\ g.state = "PreRebalance" => Placed(h)
<1>1. Base(h, ids)
  BY DEF Base, Joined
<1>2. Quiet(h)
  BY DEF Quiet, Joined
<1>3. g.state = "PreRebalance" => Placed(h)
  BY DEF Joined, Placed, States, Led
<1> QED
  BY <1>1, <1>2, <1>3

\* The rest of the group is told to rejoin.
LEMMA ResetSync ==
  ASSUME NEW g, DOMAIN g = Fields, NEW k, k = resetSync(g)
  PROVE  /\ DOMAIN k = Fields /\ k.members = g.members /\ k.pendingMemberIDs = g.pendingMemberIDs
         /\ k.supportedProtocolCounts = g.supportedProtocolCounts
         /\ k.leader = g.leader /\ k.protocolName = g.protocolName
         /\ k.generationID = g.generationID /\ Answers(k.sent) = Answers(g.sent)
         /\ IF Members(g) = {} THEN k.panics = g.panics \cup {"no members in group"} ELSE k.state = "PreRebalance" /\ k.panics = g.panics
<1> DEFINE S == {m \in Members(g) : g.members[m].sync}
           s == Sends(g, SyncResults(S, "rebalance"))
           a == [s EXCEPT !.assignments = None]
<1>1. k = triggerRebalance(a)
  BY DEF resetSync
<1> HIDE DEF S
<1>2. AlikeButSent(g, s) /\ Answers(s.sent) = Answers(g.sent)
  BY SendsOnly, OtherAnswers
<1> HIDE DEF s
<1>3. AlikeButSent(s, a) /\ a.sent = s.sent /\ DOMAIN a = Fields
  BY <1>2 DEF AlikeButSent, Fields
<1> HIDE DEF a
<1>4. Members(a) = Members(g)
  BY <1>2, <1>3 DEF AlikeButSent, Members
<1>5. /\ DOMAIN k = Fields /\ k.members = a.members /\ k.pendingMemberIDs = a.pendingMemberIDs
      /\ k.supportedProtocolCounts = a.supportedProtocolCounts
      /\ k.leader = a.leader /\ k.protocolName = a.protocolName
      /\ k.generationID = a.generationID /\ k.sent = a.sent
      /\ IF Members(a) = {} THEN k.panics = a.panics \cup {"no members in group"} ELSE k.state = "PreRebalance" /\ k.panics = a.panics
  BY <1>1, <1>3, Rebalances
<1> QED
  BY <1>2, <1>3, <1>4, <1>5 DEF AlikeButSent

\* A member joins while others wait for the assignment.
LEMMA JoinedAfterReset ==
  ASSUME NEW g, NEW ids, Base(g, ids), Quiet(g), NEW memberID \in ids, NEW h, Joined(resetSync(g), h, memberID)
  PROVE  Follows(g, h, ids)
<1> DEFINE k == resetSync(g)
<1>1. /\ DOMAIN k = Fields /\ k.members = g.members /\ k.pendingMemberIDs = g.pendingMemberIDs
      /\ k.supportedProtocolCounts = g.supportedProtocolCounts
      /\ k.leader = g.leader /\ k.generationID = g.generationID /\ Answers(k.sent) = Answers(g.sent)
      /\ IF Members(g) = {} THEN k.panics = g.panics \cup {"no members in group"} ELSE k.state = "PreRebalance" /\ k.panics = g.panics
  BY ResetSync DEF Base
<1>2. Joined(k, h, memberID) /\ g.generationID \in Nat
  BY DEF Base
<1> HIDE DEF k
<1>3. h.sent = k.sent /\ h.panics = k.panics /\ h.state = k.state /\ h.generationID = g.generationID
  BY <1>1, <1>2 DEF Joined
<1>4. CASE Members(g) = {}
  <2>1. h.panics = {"no members in group"} /\ Answers(h.sent) = {}
    BY <1>1, <1>3, <1>4 DEF Quiet
  <2> QED
    BY <2>1, Fails
<1>5. CASE Members(g) # {}
  <2>1. Members(k) = Members(g)
    BY <1>1 DEF Members
  <2>2. Base(k, ids)
    BY <1>1, <1>5, <2>1 DEF Base
  <2>3. Quiet(k)
    BY <1>1, <1>5 DEF Quiet
  <2>4. Base(h, ids) /\ Quiet(h) /\ Placed(h)
    BY <1>1, <1>2, <1>5, <2>1, <2>2, <2>3, JoinedGood
  <2>5. h.state = "PreRebalance" /\ h.generationID = g.generationID /\ g.generationID \in Nat
    BY <1>1, <1>2, <1>3, <1>5
  <2> QED
    BY <2>4, <2>5, NotLed DEF Led
<1> QED
  BY <1>4, <1>5

\* The first member leads the group.
LEMMA FirstJoin ==
  ASSUME NEW g, NEW ids, Base(g, ids), Quiet(g), NEW memberID \in ids, Members(g) = {},
         NEW a, Joined(g, a, memberID), NEW t,
         NEW h, h = setTimer([a EXCEPT !.leader = memberID, !.newMemberAdded = FALSE,
                                       !.state = "PreRebalance"], t)
  PROVE  Follows(g, h, ids)
<1> DEFINE k == [a EXCEPT !.leader = memberID, !.newMemberAdded = FALSE, !.state = "PreRebalance"]
<1>1. DOMAIN a = Fields
  BY DEF Joined
<1>2. /\ DOMAIN k = Fields /\ k.members = a.members /\ k.pendingMemberIDs = a.pendingMemberIDs
      /\ k.supportedProtocolCounts = a.supportedProtocolCounts
      /\ k.leader = memberID /\ k.state = "PreRebalance"
      /\ k.generationID = a.generationID /\ k.sent = a.sent /\ k.panics = a.panics
  BY <1>1 DEF Fields
<1>3. h = setTimer(k, t)
  OBVIOUS
<1> HIDE DEF k
<1>4. Members(k) = {memberID}
  BY <1>2 DEF Joined, Members
<1>5. Base(k, ids)
  BY <1>2, <1>4 DEF Base, Joined
<1>6. Placed(k)
  BY <1>2, <1>4 DEF Placed, States, Led
<1>7. Answers(k.sent) = {} /\ k.panics = {} /\ k.generationID = g.generationID /\ g.generationID \in Nat
  BY <1>2 DEF Joined, Quiet, Base
<1>8. Follows(g, k, ids)
  BY <1>2, <1>5, <1>6, <1>7 DEF Follows, Led
<1>9. Alike(k, h)
  BY <1>2, <1>3, TimerMethods
<1> QED
  BY <1>8, <1>9, AlikeFollows

\* The generation of g stays in force.
LEMMA StillInForce ==
  ASSUME NEW g, NEW h, NEW ids, Base(h, ids), Placed(h), h.panics = {}, g.state \in Led,
         g.generationID \in Nat, h.generationID = g.generationID, h.leader = g.leader,
         h.protocolName = g.protocolName,
         Answers(h.sent) \subseteq {<<g.generationID, g.leader, g.protocolName>>}
  PROVE  Follows(g, h, ids)
  BY DEF Follows

\* A member that joins again is told what it was told before.
LEMMA ToldAgain ==
  ASSUME NEW g, NEW ids, Base(g, ids), Quiet(g), Placed(g), g.state \in Led, NEW S,
         NEW h, h = sendJoinResult(g, S)
  PROVE  Follows(g, h, ids)
<1>1. DOMAIN g = Fields /\ g.generationID \in Nat /\ Named(g.members, g.protocolName)
  BY DEF Base, Placed
<1>2. AlikeButSent(g, h) /\ Answers(h.sent) \subseteq {<<g.generationID, g.leader, g.protocolName>>}
  BY <1>1, SendJoinResult
<1>3. Base(h, ids)
  BY <1>2 DEF AlikeButSent, Base, Members
<1>4. Placed(h)
  BY <1>2 DEF AlikeButSent, Placed, Members
<1>5. /\ h.panics = {} /\ h.generationID = g.generationID /\ h.leader = g.leader
      /\ h.protocolName = g.protocolName
  BY <1>2 DEF AlikeButSent, Quiet
<1> QED
  BY <1>1, <1>2, <1>3, <1>4, <1>5, StillInForce

\* The protocols of a client that may join go with those of the members.
LEMMA Admitted ==
  ASSUME NEW g, NEW ids, Base(g, ids), Placed(g), NEW protocols \in Protocols,
         g.state # "Empty" => canSupportProtocols(g, protocols)
  PROVE  Fits(g.members, protocols)
<1>1. \A p \in Range(protocols) : p \in Protocol
  BY DEF Protocol
<1>2. CASE g.state = "Empty"
  <2>1. DOMAIN g.members = {}
    BY <1>2 DEF Placed, Members
  <2>2. protocols \in Seq(Range(protocols)) /\ protocols # <<>>
    BY ConstantsAssumption
  <2>3. protocols[1] \in Range(protocols)
    BY <2>2 DEF Range
  <2> QED
    BY <2>1, <2>3 DEF Fits, Named, Supporters
<1>3. CASE canSupportProtocols(g, protocols)
  <2>1. PICK p \in Range(protocols) : g.supportedProtocolCounts[p] = Cardinality(DOMAIN g.members)
    BY <1>3 DEF canSupportProtocols, Members
  <2>2. Backed(g.members, g.supportedProtocolCounts)
    BY DEF Base
  <2> QED
    BY <1>1, <2>1, <2>2, CountedByAll DEF Fits
<1> QED
  BY <1>2, <1>3

LEMMA JoinFollows ==
  ASSUME NEW g, NEW ids, Base(g, ids), Quiet(g), Placed(g), NEW memberID \in ids, NEW protocols \in Protocols,
         g.state # "Empty" => canSupportProtocols(g, protocols),
         NEW h \in Join(g, memberID, protocols)
  PROVE  Follows(g, h, ids)
<1> DEFINE added == addMember(g, memberID, protocols)
           updated == updateMember(g, memberID, protocols)
           joined == IF memberID \in Members(g) THEN updated ELSE added
<1>1. /\ DOMAIN g = Fields /\ g.generationID \in Nat
      /\ Backed(g.members, g.supportedProtocolCounts) /\ Fits(g.members, protocols)
  BY Admitted DEF Base
<1>2. memberID \notin Members(g) => Joined(g, added, memberID)
  BY <1>1, AddMember
<1>3. memberID \in Members(g) => Joined(g, updated, memberID)
  BY <1>1, UpdateMember DEF Base
<1>4. Joined(g, joined, memberID)
  BY <1>2, <1>3
<1> HIDE DEF added, updated
<1>5. CASE g.state = "Empty"
  <2>1. h = setTimer([added EXCEPT !.leader = memberID, !.newMemberAdded = FALSE, !.state = "PreRebalance"],
                     Timer("group", "initial", JoinDelays))
    BY <1>5 DEF Join, added
  <2>2. Members(g) = {}
    BY <1>5 DEF Placed
  <2> QED
    BY <1>2, <2>1, <2>2, FirstJoin
<1>6. CASE g.state = "PreRebalance"
  <2>1. h = joined \/ h \in maybeCompleteJoin(joined)
    BY <1>6 DEF Join, added, updated
  <2>2. Members(g) # {}
    BY <1>6 DEF Placed
  <2> HIDE DEF joined
  <2>3. Base(joined, ids) /\ Quiet(joined) /\ Placed(joined)
    BY <1>4, <1>6, <2>2, JoinedGood
  <2>4. joined.generationID = g.generationID /\ joined.state \notin Led
    BY <1>4, <1>6 DEF Joined, Led
  <2>5. CASE h = joined
    BY <1>1, <2>3, <2>4, <2>5, NotLed
  <2>6. CASE h \in maybeCompleteJoin(joined)
    BY <1>1, <2>3, <2>4, <2>6, MaybeCompleteJoin
  <2> QED
    BY <2>1, <2>5, <2>6
<1>7. CASE g.state = "AwaitingRebalance"
  <2>1. \/ memberID \notin Members(g) /\ h = addMember(resetSync(g), memberID, protocols)
        \/ memberID \in Members(g) /\ h = updateMember(resetSync(g), memberID, protocols)
        \/ h = sendJoinResult(g, {memberID})
    BY <1>7 DEF Join
  <2>2. /\ DOMAIN resetSync(g) = Fields /\ resetSync(g).members = g.members
        /\ resetSync(g).supportedProtocolCounts = g.supportedProtocolCounts
    BY <1>1, ResetSync
  <2>3. CASE memberID \notin Members(g) /\ h = addMember(resetSync(g), memberID, protocols)
    <3>1. memberID \notin Members(resetSync(g))
      BY <2>2, <2>3 DEF Members
    <3> QED
      BY <1>1, <2>2, <2>3, <3>1, AddMember, JoinedAfterReset
  <2>4. CASE memberID \in Members(g) /\ h = updateMember(resetSync(g), memberID, protocols)
    <3>1. memberID \in Members(resetSync(g)) /\ DOMAIN resetSync(g).members[memberID] = MemberFields
      BY <2>2, <2>4 DEF Members, Base
    <3> QED
      BY <1>1, <2>2, <2>4, <3>1, UpdateMember, JoinedAfterReset
  <2>5. CASE h = sendJoinResult(g, {memberID})
    BY <1>7, <2>5, ToldAgain DEF Led
  <2> QED
    BY <2>1, <2>3, <2>4, <2>5
<1>8. CASE g.state = "Active"
  <2>1. h = triggerRebalance(joined) \/ h = sendJoinResult(g, {memberID})
    BY <1>8 DEF Join, added, updated
  <2>2. Members(g) # {}
    BY <1>8 DEF Placed
  <2> HIDE DEF joined
  <2>3. Base(joined, ids) /\ Quiet(joined)
    BY <1>4, <2>2, JoinedGood
  <2>4. joined.generationID >= g.generationID
    <3>1. joined.generationID = g.generationID
      BY <1>4 DEF Joined
    <3> QED
      BY <1>1, <3>1
  <2>5. CASE h = triggerRebalance(joined)
    BY <1>1, <2>3, <2>4, <2>5, TriggerRebalance
  <2>6. CASE h = sendJoinResult(g, {memberID})
    BY <1>8, <2>6, ToldAgain DEF Led
  <2> QED
    BY <2>1, <2>5, <2>6
<1> QED
  BY <1>5, <1>6, <1>7, <1>8 DEF Placed, States

\* h is g, but for who waits for a sync and whether they have the assignment.
Synced(g, h) ==
  /\ DOMAIN h = Fields /\ Members(h) = Members(g)
  /\ \A m \in Members(g) : /\ DOMAIN h.members[m] = MemberFields /\ h.members[m].join = g.members[m].join
                           /\ h.members[m].protocols = g.members[m].protocols
  /\ h.pendingMemberIDs = g.pendingMemberIDs /\ h.leader = g.leader
  /\ h.supportedProtocolCounts = g.supportedProtocolCounts
  /\ h.protocolName = g.protocolName /\ h.generationID = g.generationID

LEMMA SyncedFollows ==
  ASSUME NEW g, NEW h, NEW ids, Base(g, ids), Placed(g), g.state \in Led, Members(g) # {},
         Synced(g, h), h.state \in Led, Quiet(h)
  PROVE  Follows(g, h, ids)
<1>1. Backed(h.members, h.supportedProtocolCounts) /\ Named(h.members, h.protocolName)
  <2>1. /\ DOMAIN h.members = DOMAIN g.members
        /\ \A m \in DOMAIN g.members : h.members[m].protocols = g.members[m].protocols
    BY DEF Synced, Members
  <2>2. Backed(g.members, g.supportedProtocolCounts) /\ Named(g.members, g.protocolName)
    BY DEF Base, Placed
  <2>3. h.supportedProtocolCounts = g.supportedProtocolCounts /\ h.protocolName = g.protocolName
    BY DEF Synced
  <2> QED
    BY <2>1, <2>2, <2>3, BackedFields
<1>2. Base(h, ids) /\ Placed(h)
  <2>1. Base(h, ids)
    BY <1>1 DEF Synced, Base
  <2>2. Placed(h)
    BY <1>1 DEF Synced, Placed, States, Led
  <2> QED
    BY <2>1, <2>2
<1>3. /\ g.generationID \in Nat /\ h.generationID = g.generationID /\ h.leader = g.leader
      /\ h.protocolName = g.protocolName
  BY DEF Base, Synced
<1>4. h.panics = {} /\ Answers(h.sent) \subseteq {<<g.generationID, g.leader, g.protocolName>>}
  BY DEF Quiet
<1> QED
  BY <1>2, <1>3, <1>4, StillInForce

LEMMA CompleteSync ==
  ASSUME NEW g, DOMAIN g = Fields, Quiet(g), \A m \in Members(g) : DOMAIN g.members[m] = MemberFields,
         NEW h, h = completeSync(g)
  PROVE  \/ h.panics = {"cannot find member in assignments"} /\ Answers(h.sent) = {}
         \/ Synced(g, h) /\ h.state = "Active" /\ Quiet(h)
<1> DEFINE assigned == IF g.assignments = None THEN {} ELSE g.assignments
           s == Sends(g, SyncResults(assigned, "none"))
           answered == [s EXCEPT
             !.members = [m \in Members(g) |-> IF m \in assigned THEN [@[m] EXCEPT !.sync = FALSE] ELSE @[m]],
             !.state = "Active"]
           cancelled == cancelTimers(answered, assigned \cup {"group"})
<1>1. \/ h = Panics(g, "cannot find member in assignments")
      \/ h = [cancelled EXCEPT !.timers = [k \in Key |-> IF k \in assigned THEN Session(k, k) ELSE @[k]]]
  BY DEF completeSync
<1> HIDE DEF assigned
<1>2. AlikeButSent(g, s) /\ Answers(s.sent) = Answers(g.sent)
  BY SendsOnly, OtherAnswers
<1> HIDE DEF s
<1>3. /\ DOMAIN answered = Fields /\ answered.state = "Active"
      /\ answered.members = [m \in Members(g) |-> IF m \in assigned THEN [s.members[m] EXCEPT !.sync = FALSE]
                                                  ELSE s.members[m]]
      /\ answered.pendingMemberIDs = s.pendingMemberIDs /\ answered.leader = s.leader
      /\ answered.supportedProtocolCounts = s.supportedProtocolCounts
      /\ answered.protocolName = s.protocolName /\ answered.generationID = s.generationID
      /\ answered.sent = s.sent /\ answered.panics = s.panics
  BY <1>2 DEF Fields, AlikeButSent
<1> HIDE DEF answered
<1>4. Synced(g, answered) /\ answered.state = "Active" /\ Quiet(answered)
  <2>1. \A m \in Members(g) : /\ DOMAIN answered.members[m] = MemberFields
                              /\ answered.members[m].join = g.members[m].join
                              /\ answered.members[m].protocols = g.members[m].protocols
    <3> SUFFICES ASSUME NEW m \in Members(g)
                 PROVE  /\ DOMAIN answered.members[m] = MemberFields /\ answered.members[m].join = g.members[m].join
                        /\ answered.members[m].protocols = g.members[m].protocols
      OBVIOUS
    <3>1. answered.members[m] = [g.members[m] EXCEPT !.sync = FALSE] \/ answered.members[m] = g.members[m]
      BY <1>2, <1>3 DEF AlikeButSent
    <3>2. DOMAIN g.members[m] = MemberFields
      OBVIOUS
    <3> QED
      BY <3>1, <3>2 DEF MemberFields
  <2>2. Members(answered) = Members(g)
    BY <1>3 DEF Members
  <2> QED
    BY <1>2, <1>3, <2>1, <2>2 DEF Synced, AlikeButSent, Quiet
<1>5. Alike(answered, cancelled)
  BY <1>3, TimerMethods
<1> HIDE DEF cancelled
<1>6. CASE h = Panics(g, "cannot find member in assignments")
  BY <1>6 DEF Panics, Quiet, Fields
<1>7. CASE h = [cancelled EXCEPT !.timers = [k \in Key |-> IF k \in assigned THEN Session(k, k) ELSE @[k]]]
  <2>1. DOMAIN cancelled = Fields
    BY <1>3, <1>5 DEF Alike, AlikeButSent
  <2>2. Alike(cancelled, h)
    BY <1>7, <2>1 DEF Alike, AlikeButSent, Fields
  <2>3. Alike(answered, h)
    BY <1>5, <2>2 DEF Alike, AlikeButSent
  <2>4. Members(h) = Members(answered) /\ Quiet(h)
    BY <1>4, <2>3, AlikeGood
  <2>5. Synced(g, h)
    BY <1>4, <2>3, <2>4 DEF Alike, AlikeButSent, Synced
  <2> QED
    BY <1>4, <2>3, <2>4, <2>5 DEF Alike, AlikeButSent
<1> QED
  BY <1>1, <1>6, <1>7

LEMMA SyncFollows ==
  ASSUME NEW g, NEW ids, Base(g, ids), Quiet(g), Placed(g), NEW memberID, NEW generationID, NEW assignments,
         NEW h, h = Sync(g, memberID, generationID, assignments)
  PROVE  Follows(g, h, ids)
<1> DEFINE waits == [g EXCEPT !.members[memberID].sync = TRUE,
                              !.assignments = IF g.leader = memberID THEN assignments ELSE @]
<1>1. DOMAIN g = Fields /\ g.generationID \in Nat
  BY DEF Base
<1>2. \/ \E error : h = Sends(g, SyncResults({memberID}, error))
      \/ h = Panics(g, "unexpected state in sync")
      \/ g.state = "AwaitingRebalance" /\ memberID \in Members(g) /\ (h = waits \/ h = completeSync(waits))
  BY DEF Sync, Placed, States
<1>3. CASE \E error : h = Sends(g, SyncResults({memberID}, error))
  <2>1. AlikeButSent(g, h) /\ Answers(h.sent) = Answers(g.sent)
    <3>1. PICK error : h = Sends(g, SyncResults({memberID}, error))
      BY <1>3
    <3>2. AlikeButSent(g, h)
      BY <1>1, <3>1, SendsOnly
    <3>3. Answers(h.sent) = Answers(g.sent)
      BY <1>1, <3>1, OtherAnswers
    <3> QED
      BY <3>2, <3>3
  <2>2. Base(h, ids) /\ Quiet(h) /\ Placed(h)
    BY <2>1, Silent
  <2> QED
    BY <1>1, <2>1, <2>2, Nothing DEF AlikeButSent
<1>4. CASE h = Panics(g, "unexpected state in sync")
  <2>1. h.panics = g.panics \cup {"unexpected state in sync"} /\ h.sent = g.sent
    BY <1>1, <1>4 DEF Panics, Fields
  <2>2. h.panics = {"unexpected state in sync"} /\ Answers(h.sent) = {}
    BY <2>1 DEF Quiet
  <2> QED
    BY <2>2, Fails
<1>5. CASE g.state = "AwaitingRebalance" /\ memberID \in Members(g) /\ (h = waits \/ h = completeSync(waits))
  <2>1. /\ DOMAIN waits = Fields /\ waits.members = [g.members EXCEPT ![memberID].sync = TRUE]
        /\ waits.state = g.state /\ waits.pendingMemberIDs = g.pendingMemberIDs
        /\ waits.supportedProtocolCounts = g.supportedProtocolCounts
        /\ waits.leader = g.leader /\ waits.protocolName = g.protocolName
        /\ waits.generationID = g.generationID /\ waits.sent = g.sent /\ waits.panics = g.panics
    BY <1>1 DEF Fields
  <2> HIDE DEF waits
  <2>2. Quiet(waits) /\ Members(waits) = Members(g)
    BY <2>1 DEF Quiet, Members
  <2>3. \A m \in Members(g) : /\ DOMAIN waits.members[m] = MemberFields
                              /\ waits.members[m].join = g.members[m].join
                              /\ waits.members[m].protocols = g.members[m].protocols
    <3> SUFFICES ASSUME NEW m \in Members(g)
                 PROVE  /\ DOMAIN waits.members[m] = MemberFields /\ waits.members[m].join = g.members[m].join
                        /\ waits.members[m].protocols = g.members[m].protocols
      OBVIOUS
    <3>1. DOMAIN g.members[m] = MemberFields
      BY DEF Base
    <3>2. waits.members[m] = g.members[m] \/ waits.members[m] = [g.members[m] EXCEPT !.sync = TRUE]
      BY <2>1 DEF Members
    <3> QED
      BY <3>1, <3>2 DEF MemberFields
  <2>4. Synced(g, waits)
    BY <2>1, <2>2, <2>3 DEF Synced
  <2>5. g.state \in Led /\ waits.state \in Led /\ Members(g) # {}
    BY <1>5, <2>1 DEF Led
  <2>6. CASE h = waits
    BY <2>2, <2>4, <2>5, <2>6, SyncedFollows
  <2>7. CASE h = completeSync(waits)
    <3>1. \/ h.panics = {"cannot find member in assignments"} /\ Answers(h.sent) = {}
          \/ Synced(waits, h) /\ h.state = "Active" /\ Quiet(h)
      BY <2>1, <2>2, <2>3, <2>7, CompleteSync
    <3>2. Synced(waits, h) => Synced(g, h)
      BY <2>4 DEF Synced
    <3>3. Synced(g, h) /\ h.state = "Active" /\ Quiet(h) => Follows(g, h, ids)
      BY <2>5, SyncedFollows DEF Led
    <3>4. h.panics = {"cannot find member in assignments"} /\ Answers(h.sent) = {} => Follows(g, h, ids)
      BY Fails
    <3> QED
      BY <3>1, <3>2, <3>3, <3>4
  <2> QED
    BY <1>5, <2>6, <2>7
<1> QED
  BY <1>2, <1>3, <1>4, <1>5

\* A group in which only timers have changed.
LEMMA TimersOnly ==
  ASSUME NEW g, NEW ids, Base(g, ids), Quiet(g), Placed(g), NEW h, Alike(g, h)
  PROVE  Follows(g, h, ids)
<1>1. g.generationID \in Nat
  BY DEF Base
<1>2. Follows(g, g, ids)
  BY <1>1, Nothing
<1> QED
  BY <1>2, AlikeFollows

LEMMA HeartbeatFollows ==
  ASSUME NEW g, NEW ids, Base(g, ids), Quiet(g), Placed(g), NEW memberID, NEW generationID,
         NEW h, h = Heartbeat(g, memberID, generationID)
  PROVE  Follows(g, h, ids)
<1>1. DOMAIN g = Fields
  BY DEF Base
<1>2. h = g \/ h = rescheduleTimer(g, Session(memberID, memberID))
  BY DEF Heartbeat
<1>3. Alike(g, g)
  BY DEF Alike, AlikeButSent
<1> QED
  BY <1>1, <1>2, <1>3, TimerMethods, TimersOnly

LEMMA LeaveFollows ==
  ASSUME NEW g, NEW ids, Base(g, ids), Quiet(g), Placed(g), NEW memberID, NEW h \in Leave(g, memberID)
  PROVE  Follows(g, h, ids)
<1> DEFINE rest == removeMembers(g, {memberID})
           Led_(leader) == [rest EXCEPT !.leader = leader,
                                        !.assignments = IF g.leader = memberID THEN None ELSE rest.assignments]
<1>1. \/ h = rest /\ (memberID \notin Members(g) \/ Members(rest) = {})
      \/ \E leader \in LeaderAfter(rest, {memberID}) : h = triggerRebalance(Led_(leader))
  BY DEF Leave
<1>2. CASE h = rest /\ memberID \notin Members(g)
  <2>1. h = g
    BY <1>2 DEF removeMembers
  <2> QED
    BY <2>1, Nothing DEF Base
<1>3. CASE h = rest /\ Members(rest) = {}
  BY <1>3, RemovedAll
<1>4. CASE \E leader \in LeaderAfter(rest, {memberID}) : h = triggerRebalance(Led_(leader))
  <2>1. PICK leader \in LeaderAfter(rest, {memberID}) : h = triggerRebalance(Led_(leader))
    BY <1>4
  <2> QED
    BY <2>1, RemoveAndRebalance
<1> QED
  BY <1>1, <1>2, <1>3, <1>4

-----------------------------------------------------------------------------
\* The inductive invariant: the group is good between the calls, and what was
\* sent in its generation is what the group still says.
Good(g, ids, sent) ==
  /\ Base(g, ids) /\ Placed(g) /\ g.sent = {} /\ g.panics = {}
  /\ \A r \in sent : r[1] \in Nat /\ r[1] <= g.generationID
  /\ \A r, s \in sent : r[1] = s[1] => r = s
  /\ g.state \in Led =>
       \A r \in sent : r[1] = g.generationID => r = <<g.generationID, g.leader, g.protocolName>>
Inv == Good(group, known, results) /\ "cannot find protocol" \notin panics

LEMMA GoodCalls ==
  ASSUME NEW g, NEW ids, NEW sent, Good(g, ids, sent)
  PROVE  Base(g, ids) /\ Quiet(g) /\ Placed(g)
  BY DEF Good, Quiet, Answers

LEMMA MoreIds ==
  ASSUME NEW g, NEW ids, NEW more, ids \subseteq more, Base(g, ids)
  PROVE  Base(g, more)
  BY DEF Base

LEMMA AnswersAgree ==
  ASSUME NEW g, NEW h, NEW ids, NEW more, NEW sent, Good(g, ids, sent), h.panics = {}, Follows(g, h, more)
  PROVE  /\ \A r \in sent \cup Answers(h.sent) : r[1] \in Nat /\ r[1] <= h.generationID
         /\ \A r, s \in sent \cup Answers(h.sent) : r[1] = s[1] => r = s
         /\ h.state \in Led => \A r \in sent \cup Answers(h.sent) :
              r[1] = h.generationID => r = <<h.generationID, h.leader, h.protocolName>>
<1> DEFINE new == Answers(h.sent)
           now == <<h.generationID, h.leader, h.protocolName>>
<1>1. /\ Base(h, more) /\ h.generationID >= g.generationID /\ new \subseteq {now}
      /\ new # {} \/ h.state \in Led =>
           \/ h.generationID > g.generationID
           \/ /\ g.state \in Led /\ h.generationID = g.generationID
              /\ h.leader = g.leader /\ h.protocolName = g.protocolName
  BY DEF Follows
<1>2. h.generationID \in Nat /\ g.generationID \in Nat
  BY <1>1 DEF Good, Base
<1>3. \A r \in sent : r[1] \in Nat /\ r[1] <= g.generationID
  BY DEF Good
<1>4. \A r, s \in sent : r[1] = s[1] => r = s
  BY DEF Good
<1>5. now[1] = h.generationID
  OBVIOUS
<1>6. \A r \in new : r = now
  BY <1>1
<1>7. new # {} \/ h.state \in Led => \A r \in sent : r[1] = h.generationID => r = now
  <2>1. CASE h.generationID > g.generationID
    BY <1>2, <1>3, <2>1
  <2>2. CASE /\ g.state \in Led /\ h.generationID = g.generationID
             /\ h.leader = g.leader /\ h.protocolName = g.protocolName
    BY <2>2 DEF Good
  <2> QED
    BY <1>1, <2>1, <2>2
<1> HIDE DEF new, now
<1>8. \A r \in sent \cup new : r[1] \in Nat /\ r[1] <= h.generationID
  <2>1. h.generationID >= g.generationID
    BY <1>1
  <2>2. \A r \in sent : r[1] \in Nat /\ r[1] <= h.generationID
    BY <1>2, <1>3, <2>1
  <2>3. \A r \in new : r[1] \in Nat /\ r[1] <= h.generationID
    BY <1>2, <1>5, <1>6
  <2> QED
    BY <2>2, <2>3
<1>9. \A r, s \in sent \cup new : r[1] = s[1] => r = s
  BY <1>4, <1>5, <1>6, <1>7
<1>10. h.state \in Led => \A r \in sent \cup new : r[1] = h.generationID => r = now
  BY <1>6, <1>7
<1> QED
  BY <1>8, <1>9, <1>10 DEF new, now

\* A call that follows from the group keeps the invariant.
LEMMA StepKeeps ==
  ASSUME Inv, NEW h, known \subseteq known', Follows(group, h, known'), NEW running, NEW asking,
         Step(h, running, asking)
  PROVE  Inv'
<1>1. /\ group' = IF h.panics # {} THEN group ELSE [h EXCEPT !.cancelled = {}, !.orphans = {}, !.sent = {}]
      /\ results' = results \cup Answers(h.sent) /\ panics' = h.panics
  BY DEF Step, Answers
<1>2. "cannot find protocol" \notin panics'
  BY <1>1 DEF Follows
<1>3. CASE h.panics # {}
  <2>1. Answers(h.sent) = {}
    BY <1>3 DEF Follows
  <2>2. group' = group /\ results' = results
    BY <1>1, <1>3, <2>1
  <2>3. Good(group, known, results)
    BY DEF Inv
  <2>4. Base(group, known')
    BY <2>3, MoreIds DEF Good
  <2>5. Good(group, known', results)
    BY <2>3, <2>4 DEF Good
  <2> QED
    BY <1>2, <2>2, <2>5 DEF Inv
<1>4. CASE h.panics = {}
  <2> DEFINE k == [h EXCEPT !.cancelled = {}, !.orphans = {}, !.sent = {}]
  <2>1. Base(h, known') /\ Placed(h)
    BY <1>4 DEF Follows
  <2>2. DOMAIN h = Fields
    BY <2>1 DEF Base
  <2>3. /\ DOMAIN k = Fields /\ k.state = h.state /\ k.members = h.members /\ k.sent = {} /\ k.panics = {}
        /\ k.pendingMemberIDs = h.pendingMemberIDs /\ k.leader = h.leader
        /\ k.supportedProtocolCounts = h.supportedProtocolCounts
        /\ k.protocolName = h.protocolName /\ k.generationID = h.generationID
    BY <1>4, <2>2 DEF Fields
  <2>4. group' = k
    BY <1>1, <1>4
  <2> HIDE DEF k
  <2>5. Base(k, known') /\ Placed(k)
    BY <2>1, <2>3 DEF Base, Placed, Members
  <2>6. /\ \A r \in results \cup Answers(h.sent) : r[1] \in Nat /\ r[1] <= h.generationID
        /\ \A r, s \in results \cup Answers(h.sent) : r[1] = s[1] => r = s
        /\ h.state \in Led => \A r \in results \cup Answers(h.sent) :
             r[1] = h.generationID => r = <<h.generationID, h.leader, h.protocolName>>
    BY <1>4, AnswersAgree DEF Inv
  <2>7. Good(k, known', results \cup Answers(h.sent))
    BY <2>3, <2>5, <2>6 DEF Good
  <2> QED
    BY <1>2, <1>1, <2>4, <2>7 DEF Inv
<1> QED
  BY <1>3, <1>4

LEMMA AlikeBefore ==
  ASSUME NEW g, NEW k, NEW h, NEW ids, Alike(g, k), Follows(k, h, ids)
  PROVE  Follows(g, h, ids)
  BY Silent DEF Alike

\* A client that is given an id does not join yet.
LEMMA Pends ==
  ASSUME NEW g, NEW ids, Base(g, ids), Quiet(g), Placed(g), NEW memberID \in ids, memberID \notin Members(g),
         NEW h, h = Sends([g EXCEPT !.pendingMemberIDs = @ \cup {memberID}], JoinError(memberID, "unknown member"))
  PROVE  Follows(g, h, ids)
<1> DEFINE k == [g EXCEPT !.pendingMemberIDs = @ \cup {memberID}]
<1>1. /\ DOMAIN k = Fields /\ k.state = g.state /\ k.members = g.members /\ k.sent = g.sent /\ k.panics = g.panics
      /\ k.pendingMemberIDs = g.pendingMemberIDs \cup {memberID} /\ k.leader = g.leader
      /\ k.supportedProtocolCounts = g.supportedProtocolCounts
      /\ k.protocolName = g.protocolName /\ k.generationID = g.generationID
  BY DEF Base, Fields
<1>2. h = Sends(k, JoinError(memberID, "unknown member"))
  OBVIOUS
<1> HIDE DEF k
<1>3. Base(k, ids) /\ Quiet(k) /\ Placed(k)
  BY <1>1 DEF Base, Quiet, Placed, Members
<1>4. AlikeButSent(k, h) /\ Answers(h.sent) = Answers(k.sent)
  <2>1. DOMAIN k = Fields
    BY <1>1
  <2>2. AlikeButSent(k, h)
    BY <1>2, <2>1, SendsOnly
  <2>3. Answers(Sends(k, JoinError(memberID, "unknown member")).sent) = Answers(k.sent)
    BY <2>1, OtherAnswers
  <2> QED
    BY <1>2, <2>2, <2>3
<1>5. Base(h, ids) /\ Quiet(h) /\ Placed(h)
  BY <1>3, <1>4, Silent
<1>6. g.generationID \in Nat
  BY DEF Base
<1> QED
  BY <1>1, <1>4, <1>5, <1>6, Nothing DEF AlikeButSent

LEMMA JoinGroupKeeps ==
  ASSUME Inv, JoinGroup
  PROVE  Inv'
<1>1. PICK memberID \in MemberID, protocols \in Protocols :
        JoinNew(memberID, protocols) \/ JoinKnown(memberID, protocols)
  BY DEF JoinGroup
<1>2. Base(group, known) /\ Quiet(group) /\ Placed(group)
  BY GoodCalls DEF Inv
<1>3. DOMAIN group = Fields /\ Members(group) \subseteq known
  BY <1>2 DEF Base
<1>4. CASE JoinNew(memberID, protocols)
  <2> DEFINE g == setTimer(group, Session(memberID, memberID))
             pends == Sends([g EXCEPT !.pendingMemberIDs = @ \cup {memberID}],
                            JoinError(memberID, "unknown member"))
  <2>1. /\ memberID \notin known /\ known' = known \cup {memberID}
        /\ group.state # "Empty" => canSupportProtocols(group, protocols)
        /\ \E h \in {pends} \cup Join(g, memberID, protocols) : Step(h, late, Asking(memberID, "join"))
    BY <1>4 DEF JoinNew
  <2>2. PICK h \in {pends} \cup Join(g, memberID, protocols) : Step(h, late, Asking(memberID, "join"))
    BY <2>1
  <2>3. Alike(group, g)
    BY <1>3, TimerMethods
  <2>4. h = pends \/ h \in Join(g, memberID, protocols)
    BY <2>2
  <2>5. pends = Sends([g EXCEPT !.pendingMemberIDs = @ \cup {memberID}], JoinError(memberID, "unknown member"))
    OBVIOUS
  <2> HIDE DEF g, pends
  <2>6. Base(g, known') /\ Quiet(g) /\ Placed(g) /\ memberID \notin Members(g) /\ memberID \in known'
    <3>1. Base(g, known) /\ Quiet(g) /\ Placed(g) /\ Members(g) = Members(group)
      BY <1>2, <2>3, AlikeGood
    <3>2. known \subseteq known' /\ memberID \in known'
      BY <2>1
    <3> QED
      BY <1>3, <2>1, <3>1, <3>2, MoreIds
  <2>7. Follows(g, h, known')
    <3>1. g.state # "Empty" => canSupportProtocols(g, protocols)
      BY <2>1, <2>3 DEF canSupportProtocols, Alike, AlikeButSent, Members
    <3>2. CASE h = pends
      BY <2>5, <2>6, <3>2, Pends
    <3>3. CASE h \in Join(g, memberID, protocols)
      BY <2>6, <3>1, <3>3, JoinFollows
    <3> QED
      BY <2>4, <3>2, <3>3
  <2>8. Follows(group, h, known')
    BY <2>3, <2>7, AlikeBefore
  <2> QED
    BY <2>1, <2>2, <2>8, StepKeeps
<1>5. CASE JoinKnown(memberID, protocols)
  <2>1. memberID \in known /\ known' = known
    BY <1>5 DEF JoinKnown
  <2>2. PICK h : /\ \/ h = Sends(group, JoinError(memberID, "inconsistent protocol"))
                    \/ /\ group.state # "Empty" => canSupportProtocols(group, protocols)
                       /\ h \in Join(group, memberID, protocols)
                 /\ Step(h, late, Asking(memberID, "join"))
    BY <1>5 DEF JoinKnown
  <2>3. Follows(group, h, known')
    <3>1. CASE h = Sends(group, JoinError(memberID, "inconsistent protocol"))
      <4>1. AlikeButSent(group, h)
        BY <1>3, <3>1, SendsOnly
      <4>2. Answers(Sends(group, JoinError(memberID, "inconsistent protocol")).sent) = Answers(group.sent)
        BY <1>3, OtherAnswers
      <4>3. Base(h, known) /\ Quiet(h) /\ Placed(h)
        BY <1>2, <3>1, <4>1, <4>2, Silent
      <4>4. group.generationID \in Nat
        BY <1>2 DEF Base
      <4> QED
        BY <2>1, <4>1, <4>3, <4>4, Nothing DEF AlikeButSent
    <3>2. CASE /\ group.state # "Empty" => canSupportProtocols(group, protocols)
               /\ h \in Join(group, memberID, protocols)
      BY <1>2, <2>1, <3>2, JoinFollows
    <3> QED
      BY <2>2, <3>1, <3>2
  <2> QED
    BY <2>1, <2>2, <2>3, StepKeeps
<1> QED
  BY <1>1, <1>4, <1>5

LEMMA NextKeeps ==
  ASSUME Inv, [Next]_vars
  PROVE  Inv'
<1>1. Base(group, known) /\ Quiet(group) /\ Placed(group)
  BY GoodCalls DEF Inv
<1>2. DOMAIN group = Fields
  BY <1>1 DEF Base
<1>3. CASE JoinGroup
  BY <1>3, JoinGroupKeeps
<1>4. ASSUME NEW m \in MemberID, SyncGroup(m)
      PROVE  Inv'
  <2>1. PICK h : h = Sync(group, m, told[m].generation, told[m].members) /\ Step(h, late, Asking(m, "sync"))
    BY <1>4 DEF SyncGroup
  <2>2. known' = known
    BY <1>4 DEF SyncGroup
  <2>3. Follows(group, h, known')
    BY <1>1, <2>1, <2>2, SyncFollows
  <2> QED
    BY <2>1, <2>2, <2>3, StepKeeps
<1>5. ASSUME NEW m \in MemberID, HeartbeatGroup(m)
      PROVE  Inv'
  <2>1. PICK h : h = Heartbeat(group, m, told[m].generation) /\ Step(h, late, asks)
    BY <1>5 DEF HeartbeatGroup
  <2>2. known' = known
    BY <1>5 DEF HeartbeatGroup
  <2>3. Follows(group, h, known')
    BY <1>1, <2>1, <2>2, HeartbeatFollows
  <2> QED
    BY <2>1, <2>2, <2>3, StepKeeps
<1>6. ASSUME NEW m \in MemberID, LeaveGroup(m)
      PROVE  Inv'
  <2>1. PICK h \in Leave(group, m) : Step(h, late, Asking(m, "none"))
    BY <1>6 DEF LeaveGroup
  <2>2. known' = known
    BY <1>6 DEF LeaveGroup
  <2>3. Follows(group, h, known')
    BY <1>1, <2>1, <2>2, LeaveFollows
  <2> QED
    BY <2>1, <2>2, <2>3, StepKeeps
<1>7. ASSUME NEW k \in Key, TimerFires(k)
      PROVE  Inv'
  <2> DEFINE g == [group EXCEPT !.timers[k] = NoTimer]
  <2>1. PICK h : (h = g \/ h \in Run(g, group.timers[k])) /\ Step(h, late, asks)
    BY <1>7 DEF TimerFires
  <2>2. known' = known
    BY <1>7 DEF TimerFires
  <2>3. Alike(group, g)
    BY <1>2 DEF Alike, AlikeButSent, Fields
  <2> HIDE DEF g
  <2>4. Base(g, known) /\ Quiet(g) /\ Placed(g)
    BY <1>1, <2>3, AlikeGood
  <2>5. CASE h = g
    BY <1>1, <2>1, <2>2, <2>3, <2>5, TimersOnly, StepKeeps
  <2>6. CASE h \in Run(g, group.timers[k])
    <3>1. Follows(g, h, known')
      BY <2>2, <2>4, <2>6, RunFollows
    <3>2. Follows(group, h, known')
      BY <2>3, <3>1, AlikeBefore
    <3> QED
      BY <2>1, <2>2, <3>2, StepKeeps
  <2> QED
    BY <2>1, <2>5, <2>6
<1>8. CASE LateTimerRuns
  <2>1. PICK timer, running, h : /\ h = group \/ h \in Run(group, timer)
                                 /\ Step(h, running, asks)
    BY <1>8 DEF LateTimerRuns
  <2>2. known' = known
    BY <1>8 DEF LateTimerRuns
  <2>3. Follows(group, group, known')
    BY <1>1, <2>2, TimersOnly DEF Alike, AlikeButSent
  <2>4. h \in Run(group, timer) => Follows(group, h, known')
    BY <1>1, <2>2, RunFollows
  <2> QED
    BY <2>1, <2>2, <2>3, <2>4, StepKeeps
<1>9. CASE Stop
  <2> DEFINE h == cancelTimers(group, Members(group) \cup {"group"})
  <2>1. Step(h, late, asks) /\ known' = known
    BY <1>9 DEF Stop
  <2>2. Alike(group, h)
    BY <1>2, TimerMethods
  <2> HIDE DEF h
  <2>3. Follows(group, h, known')
    BY <1>1, <2>1, <2>2, TimersOnly
  <2> QED
    BY <2>1, <2>3, StepKeeps
<1>10. CASE UNCHANGED vars
  BY <1>10 DEF vars, Inv
<1> QED
  BY <1>3, <1>4, <1>5, <1>6, <1>7, <1>8, <1>9, <1>10 DEF Next, Timers

LEMMA InitGood == Init => Inv
<1> SUFFICES ASSUME Init
             PROVE  Inv
  OBVIOUS
<1>1. /\ DOMAIN group = Fields /\ group.state = "Empty" /\ group.members = <<>>
      /\ group.pendingMemberIDs = {} /\ group.generationID = 0 /\ group.sent = {} /\ group.panics = {}
  BY DEF Init, Fields
<1>2. Members(group) = {}
  BY <1>1 DEF Members
<1>3. Backed(group.members, group.supportedProtocolCounts)
  <2>1. DOMAIN group.members = {}
    BY <1>2 DEF Members
  <2>2. \A p \in Protocol : group.supportedProtocolCounts[p] = -1 /\ Supporters(group.members, p) = {}
    BY <2>1 DEF Init, Supporters
  <2> QED
    BY <2>1, <2>2, FS_EmptySet DEF Backed
<1>4. Base(group, known) /\ Placed(group)
  <2>1. Base(group, known)
    BY <1>1, <1>2, <1>3 DEF Base
  <2>2. Placed(group)
    BY <1>1, <1>2 DEF Placed, States, Led
  <2> QED
    BY <2>1, <2>2
<1>5. results = {} /\ panics = {}
  BY DEF Init
<1> QED
  BY <1>1, <1>4, <1>5 DEF Inv, Good

\* Whatever requests and timers, late ones included, run in which order, the group
\* stays well-formed, and the JoinResults sent so far agree with it on the generation
\* (JoinGroup, LeaveGroup, the timers of the group and of its members).
THEOREM Invariance == Spec => []Inv
<1>1. Init => Inv
  BY InitGood
<1>2. Inv /\ [Next]_vars => Inv'
  BY NextKeeps
<1> QED
  BY <1>1, <1>2, PTL DEF Spec

\* The JoinResults of a generation agree on its leader and protocol, and while
\* members wait for an assignment or have one the leader is one of them, for any
\* number of members and of joins: whoever joins again, leaves or expires, a
\* group only announces the generation it is in or starts a new one.
THEOREM GenerationAgreed == Spec => []OneLeaderPerGeneration
<1>1. Inv => OneLeaderPerGeneration
  BY DEF Inv, Good, Base, OneLeaderPerGeneration
<1> QED
  BY <1>1, Invariance, PTL

\* The members of a group always have a protocol in common, the counts that
\* canSupportProtocols and chooseProtocol go by are right, and createMemberInfos
\* finds the chosen protocol in the list of every member, for any lists of
\* protocols and any number of members.
THEOREM ProtocolShared == Spec => []CommonProtocol
<1>1. ASSUME Inv
      PROVE  CommonProtocol
  <2> DEFINE S(p) == {m \in Members(group) : p \in Range(group.members[m].protocols)}
  <2>1. Backed(group.members, group.supportedProtocolCounts) /\ "cannot find protocol" \notin panics
    BY <1>1 DEF Inv, Good, Base
  <2>2. \A p : Supporters(group.members, p) = S(p)
    BY DEF Supporters, Members
  <2>3. Members(group) # {} =>
          \E p \in Protocol : \A m \in Members(group) : p \in Range(group.members[m].protocols)
    BY <2>1, <2>2 DEF Backed, Members
  <2>4. ASSUME NEW p \in Protocol
        PROVE  Cardinality(S(p))
                 = IF group.supportedProtocolCounts[p] = -1 THEN 0 ELSE group.supportedProtocolCounts[p]
    <3>1. IsFiniteSet(DOMAIN group.members)
      BY <2>1 DEF Backed
    <3>2. Cardinality(S(p)) \in Nat
      BY <2>2, <3>1, SupportersFinite
    <3>3. \/ group.supportedProtocolCounts[p] = Cardinality(S(p))
          \/ group.supportedProtocolCounts[p] = -1 /\ S(p) = {}
      BY <2>1, <2>2 DEF Backed
    <3> QED
      BY <3>2, <3>3, FS_EmptySet
  <2> QED
    BY <2>1, <2>3, <2>4 DEF CommonProtocol
<1> QED
  BY <1>1, Invariance, PTL
=============================================================================
