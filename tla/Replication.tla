------------------------------ MODULE Replication ------------------------------
(***************************************************************************)
(* Log replication of the raft-server module: the Replicator of a leader,  *)
(* the append handlers (AbstractState, LeaderState), commit and apply      *)
(* (ServerStateMachine), and the reconfiguration that puts entries in the  *)
(* log (LeaderState.handle(JoinRequest), handle(LeaveRequest)).            *)
(*                                                                         *)
(* Every server has a RaftLogger.  What that may answer is taken from      *)
(* RaftStore: an append stores the entry or throws, a read finds what is   *)
(* in the buffer; what is on disk only it may miss, if MayMiss, because of *)
(* an index that went to no record.                                        *)
(*                                                                         *)
(* Elections are those of RaftElection seen from outside: a quorum of      *)
(* servers in older terms adopts a new term and votes in it, whatever      *)
(* their logs.  That two servers win one term is left to RaftElection.     *)
(***************************************************************************)
EXTENDS Integers, FiniteSets

CONSTANTS
  Server,         \* all servers
  Members,        \* the members every server is configured with
  MaxAppendSize,  \* entries in one request
  MayMiss,        \* whether a read from disk may miss a stored entry
  MaxTerm,        \* bound: elections
  MaxIndex,       \* bound: indexes
  MaxEntries,     \* bound: entries put in the log by leaders
  MaxInFlight     \* bound: messages in flight

ASSUME ServerAssumption == /\ IsFiniteSet(Server) /\ Members \subseteq Server
                           /\ Members # {}
ASSUME SizeAssumption   == MaxAppendSize \in Nat \ {0} /\ MayMiss \in BOOLEAN
ASSUME BoundAssumption  == {MaxTerm, MaxIndex, MaxEntries, MaxInFlight} \subseteq Nat

VARIABLES
  term,          \* RaftMember.term
  state,         \* ServerContext.state; a candidate is a FOLLOWER here
  cluster,       \* RaftClusterImpl.members
  nextIndex,     \* nextIndex[s][m]: RaftMember.nextLogIndex of m at s
  matchedIndex,  \* matchedIndex[s][m]: RaftMember.matchedIndex of m at s
  commitIndex,   \* RaftMember.commitIndex; 0 stands for the initial -1 too
  lastApplied,   \* RaftMember.lastApplied
  generator,     \* SegmentManager.indexGenerator
  log,           \* entries in the segments: index -> entry
  buffer,        \* indexes in RaftLogger.entryBuffer
  applying,      \* indexes handed to LogApplyThread, not yet applied
  configuring,   \* RaftMemberState.configuring # 0
  joins,         \* pool threads between the check of configuring and append
  replicating,   \* servers that have started their replicators
  net,           \* requests and responses in flight
  entries,       \* number of entries that leaders have put in their log
  led            \* terms that have had a leader

electVars == <<term, state, led, replicating>>
viewVars  == <<cluster, nextIndex, matchedIndex>>
logVars   == <<generator, log, buffer>>
applyVars == <<commitIndex, lastApplied, applying>>
joinVars  == <<configuring, joins, entries>>
vars      == <<electVars, viewVars, logVars, applyVars, joinVars, net>>

Index   == 1 .. MaxIndex
Term    == 0 .. MaxTerm
\* Of an entry only the term is kept.
LogType == UNION {[D -> Term] : D \in SUBSET Index}

Quorum(members) == (Cardinality(members) + 1) \div 2
-----------------------------------------------------------------------------
(* Reading the log.                                                         *)

\* The sets of indexes for which RaftLogger.get may find the entry.
Readable(s) ==
  {found \in SUBSET DOMAIN log[s] :
     buffer[s] \subseteq found /\ (MayMiss \/ found = DOMAIN log[s])}

\* What RaftLogger.lastIndex may return: the last of the buffer, or else
\* what the last slot of the current segment says, 0 if that is empty.
LastIndexes(s) ==
  IF buffer[s] = {} THEN {0} \cup DOMAIN log[s]
  ELSE {i \in buffer[s] : \A j \in buffer[s] : j <= i}

Over(new, old) ==
  [i \in DOMAIN new \cup DOMAIN old |-> IF i \in DOMAIN new THEN new[i] ELSE old[i]]
-----------------------------------------------------------------------------
Init ==
  /\ term = [s \in Server |-> 0] /\ state = [s \in Server |-> "FOLLOWER"]
  /\ cluster = [s \in Server |-> Members \cup {s}]
  /\ nextIndex = [s \in Server |-> [m \in Server |-> -1]]
  /\ matchedIndex = [s \in Server |-> [m \in Server |-> 0]]
  /\ commitIndex = [s \in Server |-> 0] /\ lastApplied = [s \in Server |-> 0]
  /\ generator = [s \in Server |-> 0]
  /\ log = [s \in Server |-> [i \in {} |-> 0]] /\ buffer = [s \in Server |-> {}]
  /\ applying = [s \in Server |-> {}]
  /\ configuring = [s \in Server |-> FALSE] /\ joins = {}
  /\ replicating = {} /\ net = {} /\ entries = 0 /\ led = {}
-----------------------------------------------------------------------------
(* Elections, as far as they matter to replication.                         *)

\* updateTerm with a newer term.  A leader stops its replicators, but they
\* may go on: one asleep in replicateTo sends once more, a stop that overlaps
\* a start is lost (ReplicateTask), and configure starts them in any role.
FallBehind(s, t) ==
  /\ term' = [term EXCEPT ![s] = t]
  /\ state' = [state EXCEPT ![s] = "FOLLOWER"]
  /\ UNCHANGED <<led, replicating>>

\* s wins an election in a new term.  One that nobody wins only moves the
\* voters to that term, which a leader that does nothing does too.
Elect(s, voters) ==
  LET t == term[s] + 1 IN
  /\ state[s] = "FOLLOWER" /\ t <= MaxTerm /\ t \notin led
  /\ s \in voters /\ Cardinality(voters) >= Quorum(cluster[s])
  /\ \A v \in voters : term[v] < t /\ state[v] # "EXITED"
  /\ term' = [v \in Server |-> IF v \in voters THEN t ELSE term[v]]
  /\ state' = [v \in Server |->
                 IF v = s THEN "LEADER" ELSE IF v \in voters THEN "FOLLOWER" ELSE state[v]]
  /\ led' = led \cup {t} /\ replicating' = replicating \cup {s}

\* LeaderState.wakeup: what is known of the members' matchedIndex is kept
\* from an earlier time as a leader.
WakeUp(s) ==
  /\ \E last \in LastIndexes(s) :
       nextIndex' = [nextIndex EXCEPT ![s] =
                       [m \in Server |->
                          IF m \in cluster[s] \ {s} THEN last + 1 ELSE @[m]]]
  /\ UNCHANGED <<cluster, matchedIndex>>

Campaign(s) ==
  /\ \E voters \in SUBSET cluster[s] : Elect(s, voters)
  /\ WakeUp(s)
  /\ UNCHANGED <<logVars, applyVars, joinVars, net>>
-----------------------------------------------------------------------------
(* Reconfiguration, on pool threads: the role and configuring are checked   *)
(* when the request is handled, the entry is appended later.                *)

\* A server that is not a member joins.
JoinRequest(s) ==
  /\ state[s] = "LEADER" /\ ~configuring[s]
  /\ entries + Cardinality(joins) < MaxEntries
  /\ \E m \in Server \ cluster[s] :
       joins' = joins \cup {[at |-> s, members |-> cluster[s] \cup {m}]}
  /\ UNCHANGED <<electVars, viewVars, logVars, applyVars, configuring, entries, net>>

\* A member leaves: it is removed from a copy of the members only.
LeaveRequest(s) ==
  /\ state[s] = "LEADER" /\ ~configuring[s]
  /\ entries + Cardinality(joins) < MaxEntries
  /\ \E m \in cluster[s] :
       joins' = joins \cup {[at |-> s, members |-> cluster[s] \ {m}]}
  /\ UNCHANGED <<electVars, viewVars, logVars, applyVars, configuring, entries, net>>

\* LeaderState.configure: contain() is always false, so every member of the
\* copy is taken for new.  configuring is never reset.
Configure(j) ==
  LET s == j.at
      i == generator[s] + 1
  IN
  /\ j \in joins /\ joins' = joins \ {j}
  /\ i <= MaxIndex
  /\ generator' = [generator EXCEPT ![s] = i] /\ entries' = entries + 1
  /\ \/ \* append throws
        UNCHANGED <<log, buffer, viewVars, configuring>>
     \/ /\ log' = [log EXCEPT ![s] =
                     Over([k \in {i} |-> term[s]], @)]
        /\ buffer' = [buffer EXCEPT ![s] = @ \cup {i}]
        /\ configuring' = [configuring EXCEPT ![s] = TRUE]
        /\ cluster' = [cluster EXCEPT ![s] = @ \cup j.members]
        /\ nextIndex' = [nextIndex EXCEPT ![s] =
                           [m \in Server |-> IF m \in j.members THEN 1 ELSE @[m]]]
        /\ UNCHANGED matchedIndex
  /\ UNCHANGED <<electVars, applyVars, net>>
-----------------------------------------------------------------------------
(* The replicator of s to member d.                                         *)

AppendRequest(s, d, found, last) ==
  LET next  == nextIndex[s][d]
      after == {i \in found : next <= i /\ i <= last}
      batch == {i \in after : Cardinality({j \in after : j < i}) < MaxAppendSize}
      prev  == IF next - 1 \in found THEN next - 1 ELSE 0
  IN [type |-> "AppendRequest", from |-> s, to |-> d, term |-> term[s], prev |-> prev,
      prevTerm |-> IF prev = 0 THEN 0 ELSE log[s][prev],
      commit |-> commitIndex[s], batch |-> [i \in batch |-> log[s][i]]]

\* Replicator.replicateTo; with nothing to send it sleeps and then builds the
\* request from what the server is by then.
SendAppend(s, d) ==
  /\ s \in replicating /\ state[s] # "EXITED" /\ d \in cluster[s] \ {s}
  /\ Cardinality(net) < MaxInFlight
  /\ \E found \in Readable(s), last \in LastIndexes(s) :
       net' = net \cup {AppendRequest(s, d, found, last)}
  /\ UNCHANGED <<electVars, viewVars, logVars, applyVars, joinVars>>

\* A request or a response is lost, refused by the connection, or times out.
Lose(m) ==
  /\ net' = net \ {m}
  /\ UNCHANGED <<electVars, viewVars, logVars, applyVars, joinVars>>
-----------------------------------------------------------------------------
(* The append handlers.                                                     *)

Receives(m, type) == m \in net /\ m.type = type /\ state[m.to] # "EXITED"

AppendResponse(m, t, success, next) ==
  [type |-> "AppendResponse", from |-> m.to, to |-> m.from, term |-> t,
   success |-> success, next |-> next]

Answer(m, success, next) ==
  net' = (net \ {m}) \cup {AppendResponse(m, term'[m.to], success, next)}

\* An older term; the response has no nextIndex.
RefuseTerm(m) ==
  /\ Receives(m, "AppendRequest") /\ m.term < term[m.to]
  /\ net' = (net \ {m}) \cup {AppendResponse(m, term[m.to], FALSE, 0)}
  /\ UNCHANGED <<electVars, viewVars, logVars, applyVars, joinVars>>

\* LeaderState.doHandle, after updateTerm.
Exit(m) ==
  /\ Receives(m, "AppendRequest") /\ m.term >= term[m.to] /\ state[m.to] = "LEADER"
  /\ term' = [term EXCEPT ![m.to] = m.term]
  /\ state' = [state EXCEPT ![m.to] = "EXITED"]
  /\ net' = net \ {m}
  /\ UNCHANGED <<led, replicating, viewVars, logVars, applyVars, joinVars>>

\* The request is not older and its receiver does not lead.
Accepts(m) ==
  /\ Receives(m, "AppendRequest") /\ m.term >= term[m.to] /\ state[m.to] # "LEADER"
  /\ IF m.term > term[m.to] THEN FallBehind(m.to, m.term) ELSE UNCHANGED electVars

Mismatch(m, found) ==
  m.prev > 0 /\ (m.prev \in found => log[m.to][m.prev] # m.prevTerm)

\* appendWithPrevLog without the entry before, or with one of another term.
RefusePrev(m) ==
  LET s == m.to IN
  /\ Accepts(m)
  /\ \E found \in Readable(s), last \in LastIndexes(s) :
       /\ Mismatch(m, found)
       /\ Answer(m, FALSE, IF m.prev \in found /\ last > 0 THEN m.prev ELSE last + 1)
  /\ UNCHANGED <<viewVars, logVars, applyVars, joinVars>>

First(batch) == CHOOSE i \in DOMAIN batch : \A j \in DOMAIN batch : i <= j
Last(batch)  == CHOOSE i \in DOMAIN batch : \A j \in DOMAIN batch : j <= i

\* Deviation: every entry is appended the way the first one is.
PlacedAhead(s, batch, i) == generator[s] + i

\* The first entry of a batch is appended as many indexes after the last one
\* given out as its own index says; the following ones get their own index.
Placed(s, batch, i) == IF i = First(batch) THEN generator[s] + i ELSE i

\* What the batch leaves in the segments, a later entry over an earlier one.
Stored(s, batch) ==
  [k \in {Placed(s, batch, i) : i \in DOMAIN batch} |->
     LET at == {i \in DOMAIN batch : Placed(s, batch, i) = k}
     IN batch[CHOOSE i \in at : \A j \in at : j <= i]]

\* truncate(prev) and the appends of batch.
Store(s, prev, batch) ==
  /\ log' = [log EXCEPT ![s] = Over(Stored(s, batch), @)]
  /\ buffer' = [buffer EXCEPT ![s] = {i \in @ : i < prev} \cup DOMAIN Stored(s, batch)]

\* appendInitial when an append throws: what came before it is stored, its
\* own index is gone, and no response is sent.
FailAppend(m) ==
  LET s == m.to IN
  /\ Accepts(m)
  /\ \E found \in Readable(s) : ~Mismatch(m, found)
  /\ \E i \in DOMAIN m.batch :
       LET before == {j \in DOMAIN m.batch : j < i} IN
       /\ Placed(s, m.batch, First(m.batch)) <= MaxIndex
       /\ Store(s, m.prev, [j \in before |-> m.batch[j]])
       /\ generator' = [generator EXCEPT ![s] = Placed(s, m.batch, i)]
  /\ net' = net \ {m}
  /\ UNCHANGED <<viewVars, applyVars, joinVars>>

Lesser(i, j) == IF i <= j THEN i ELSE j

\* Deviation: an index is committed as soon as it is stored here.
CommitOwn(s, last, index) ==
  commitIndex' = [commitIndex EXCEPT ![s] = IF last > @ THEN last ELSE @]

\* Deviation: the commit index follows that of the request back.
CommitBack(s, last, index) ==
  commitIndex' = [commitIndex EXCEPT ![s] = Lesser(last, index)]

\* commit(index).
Commit(s, last, index) ==
  commitIndex' = [commitIndex EXCEPT ![s] =
                    IF Lesser(last, index) > @ THEN Lesser(last, index) ELSE @]

\* ServerStateMachine.apply of what is found up to the commit index.
Apply(s, found) ==
  applying' = [applying EXCEPT ![s] = @ \cup
                      {i \in found : lastApplied[s] < i /\ i <= commitIndex'[s]}]

Append(m) ==
  LET s   == m.to
      end == IF DOMAIN m.batch = {} THEN 0 ELSE Placed(s, m.batch, Last(m.batch))
  IN
  /\ Accepts(m)
  /\ \E found \in Readable(s) : ~Mismatch(m, found)
  /\ DOMAIN m.batch # {} => Placed(s, m.batch, First(m.batch)) <= MaxIndex
  /\ Store(s, m.prev, m.batch)
  /\ generator' = IF DOMAIN m.batch = {} THEN generator ELSE [generator EXCEPT ![s] = end]
  /\ \E last \in LastIndexes(s)' : Commit(s, last, m.commit)
  /\ \E found \in Readable(s)' : Apply(s, found)
  /\ Answer(m, TRUE, end + 1)
  /\ UNCHANGED <<viewVars, lastApplied, joinVars>>
-----------------------------------------------------------------------------
(* Responses.                                                               *)

\* members.sort and members.get(quorum - 1): at least n - quorum + 1 members
\* are at i or beyond, and not so many beyond.
IsQuorumIndex(s, i) ==
  LET members == cluster[s]
      beyond(k) == Cardinality({m \in members : matchedIndex'[s][m] >= k})
      needed  == Cardinality(members) - Quorum(members) + 1
  IN beyond(i) >= needed /\ beyond(i + 1) < needed

\* Deviation: the next index is taken for the matched one.
AcknowledgeNext(m) ==
  LET s == m.to IN
  /\ Receives(m, "AppendResponse") /\ m.term <= term[s] /\ state[s] = "LEADER" /\ m.success
  /\ nextIndex' = [nextIndex EXCEPT ![s][m.from] = m.next]
  /\ matchedIndex' = [matchedIndex EXCEPT ![s][m.from] = m.next]
  /\ \E last \in LastIndexes(s), i \in 0 .. MaxIndex :
       IsQuorumIndex(s, i) /\ Commit(s, last, i)
  /\ net' = net \ {m}
  /\ UNCHANGED <<electVars, cluster, logVars, lastApplied, applying, joinVars>>

\* LeaderState.handle(AppendResponse).  The leader itself applies nothing.
Acknowledge(m) ==
  LET s == m.to IN
  /\ Receives(m, "AppendResponse") /\ m.term <= term[s] /\ state[s] = "LEADER" /\ m.success
  /\ nextIndex' = [nextIndex EXCEPT ![s][m.from] = m.next]
  /\ matchedIndex' = [matchedIndex EXCEPT ![s][m.from] = m.next - 1]
  /\ \E last \in LastIndexes(s), i \in 0 .. MaxIndex :
       IsQuorumIndex(s, i) /\ Commit(s, last, i)
  /\ net' = net \ {m}
  /\ UNCHANGED <<electVars, cluster, logVars, lastApplied, applying, joinVars>>

Retry(m) ==
  /\ Receives(m, "AppendResponse") /\ m.term <= term[m.to] /\ state[m.to] = "LEADER" /\ ~m.success
  /\ nextIndex' = [nextIndex EXCEPT ![m.to][m.from] = m.next]
  /\ net' = net \ {m}
  /\ UNCHANGED <<electVars, cluster, matchedIndex, logVars, applyVars, joinVars>>

\* updateTerm of any role; a server that does not lead looks at nothing else.
LearnTerm(m) ==
  /\ Receives(m, "AppendResponse")
  /\ \/ m.term > term[m.to] /\ FallBehind(m.to, m.term)
     \/ m.term <= term[m.to] /\ state[m.to] # "LEADER" /\ UNCHANGED electVars
  /\ net' = net \ {m}
  /\ UNCHANGED <<viewVars, logVars, applyVars, joinVars>>
-----------------------------------------------------------------------------
(* Other threads.                                                           *)

\* The clean-up of RaftLogger.commit, ten seconds later.
Clean(s) ==
  /\ \E i \in buffer[s] :
       /\ i <= commitIndex[s]
       /\ buffer' = [buffer EXCEPT ![s] = {j \in @ : j > i}]
  /\ UNCHANGED <<electVars, viewVars, generator, log, applyVars, joinVars, net>>

\* The future of LogStateMachine.apply is completed, in any order.
Complete(s) ==
  /\ \E i \in applying[s] :
       /\ applying' = [applying EXCEPT ![s] = @ \ {i}]
       /\ lastApplied' = [lastApplied EXCEPT ![s] = IF i > @ THEN i ELSE @]
  /\ UNCHANGED <<electVars, viewVars, logVars, commitIndex, joinVars, net>>
-----------------------------------------------------------------------------
Deliver(m) ==
  RefuseTerm(m) \/ Exit(m) \/ RefusePrev(m) \/ FailAppend(m) \/ Append(m)
    \/ Acknowledge(m) \/ Retry(m) \/ LearnTerm(m) \/ Lose(m)

Next ==
  \/ \E s \in Server : Campaign(s) \/ JoinRequest(s) \/ LeaveRequest(s)
                         \/ Clean(s) \/ Complete(s)
  \/ \E s \in Server : \E d \in Server : SendAppend(s, d)
  \/ \E j \in joins : Configure(j)
  \/ \E m \in net : Deliver(m)

Spec == Init /\ [][Next]_vars
-----------------------------------------------------------------------------
(* Properties.                                                              *)

Requests ==
  [type : {"AppendRequest"}, from : Server, to : Server, term : Term, prev : Nat,
   prevTerm : Term, commit : Index \cup {0}, batch : LogType]
Responses ==
  [type : {"AppendResponse"}, from : Server, to : Server, term : Term,
   success : BOOLEAN, next : Int]

\* Every variable keeps its type.
TypeOK ==
  /\ term \in [Server -> Term]
  /\ state \in [Server -> {"FOLLOWER", "LEADER", "EXITED"}]
  /\ led \subseteq Term /\ replicating \subseteq Server
  /\ cluster \in [Server -> SUBSET Server]
  /\ nextIndex \in [Server -> [Server -> Int]]
  /\ matchedIndex \in [Server -> [Server -> Int]]
  /\ commitIndex \in [Server -> Index \cup {0}]
  /\ lastApplied \in [Server -> Index \cup {0}]
  /\ generator \in [Server -> Nat]
  /\ log \in [Server -> LogType] /\ buffer \in [Server -> SUBSET Index]
  /\ \A s \in Server : buffer[s] \subseteq DOMAIN log[s]
  /\ applying \in [Server -> SUBSET Index]
  /\ configuring \in [Server -> BOOLEAN]
  /\ joins \subseteq [at : Server, members : SUBSET Server]
  /\ net \subseteq Requests \cup Responses
  /\ entries \in Nat

Held == [s \in Server |-> DOMAIN log[s]]

Point == INSTANCE CommitPoint WITH held <- Held, point <- commitIndex, done <- lastApplied

\* matchedIndex never goes beyond what the member has stored: not by a late
\* response, one to an earlier leadership, a refused or a half stored batch.
MatchedIsHeld ==
  \A s, m \in Server :
    matchedIndex[s][m] > 0 => Point!Reaches(Held, m, matchedIndex[s][m])

\* Leaders and followers move their commit index, and the apply thread its
\* own, as CommitPoint says, although getQuorum counts from the lowest and
\* the leader never counts itself.
ImplementsCommitPoint == Point!Spec

\* What any server has committed, a majority has stored something for.
CommittedIsHeld == Point!CommittedIsHeld
=============================================================================
