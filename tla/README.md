# A TLA+ verification of vein

vein is a Java toolkit for distributed servers: a transport over Netty, a raft
server, a gossip-based discovery service and, half finished, a replicated
message storage on top of them. This directory holds TLA+ modules translated
from its source, the TLC runs that check them on small instances and the
theorems TLAPS proves about them for every instance. Paths below leave out
`src/main/java/com/vein`.

## 1. The system

### Components, their state, what makes them hard

**Raft server** (`raft-server`). A `ServerContext` holds the current role
(`state`: `FollowerState`, `CandidateState`, `LeaderState`, `PassiveState`), a
`RaftMember` (`term`, `votedFor`), the cluster (`master`, quorum) and the log.
Requests and responses are handled one at a time on an event thread; heartbeat
and election timeouts come from timer threads (`AbstractRaftTimer`).

| part | state | operations |
|---|---|---|
| election | `term`, `votedFor`, `state`, `VoteQuorum` (two counters and a future), `master` | `handle(VoteRequest/VoteResponse)`, the term rules of `handle(AppendRequest/AppendResponse)`, `onHeartbeatTimeout`, `onElectTimeout`, `onElectAsMaster`, `onFallBehind` |
| replication and commit | `nextLogIndex` and `matchedIndex` of each member, the entries, `commitIndex`, `lastApplied`, the flags of each `ReplicateTask` | `ReplicateTask.start/stop/execute`, `Replicator.replicateTo`, `appendWithPrevLog`, `appendInitial`, `commit`, `ServerStateMachine.apply` |
| membership change | cluster configuration, `configuring` | `handle(JoinRequest)`, `handle(LeaveRequest)`, `configure` |
| command path | commit futures | `handle(CommandRequest)`, forwarding to the master |
| snapshots | `SnapshotInstallContext`, snapshot files | `handle(InstallSnapshotRequest)`, `PassiveState` |
| storage | segments, offset index, member state | `RaftLogger`, `SegmentManager`, `OffsetIndex`, `FileMemberStateManager` |

Hard: late responses of an earlier election; handlers of a role that is not
the current one any more; timer threads that change the role under a handler;
replicators that build their request after a pause, go on after their leader
has stopped leading, and start and stop themselves from three sides; appends
that throw half way or come late; join requests that are checked in one term
and appended in another; a vote that is not persisted; even clusters. Correct
means: one vote per voter and term, one leader per term, a leader never
believes that a member has more than it has, what is committed a majority
holds, commit indexes do not go back, a started member is replicated to and a
stopped one is left alone.

**Transport** (`transport`). An `AbstractConnection` keeps three concurrent
maps, `responseFutures`, `requestMap` and the `scheduledMap` of its
`TimeoutScheduler`. `request()` runs on any thread, responses are read by
Netty's event loop, timeouts fire on executor threads, `close()` may come from
any of them. Correct means: one of them decides how a future ends, an answer is
that to its own request, and nobody waits for ever.

**Discovery** (`discovery`). A `DiscoveryServerImpl` keeps `Nodes` (a node list
and maps of alive, suspect and dead nodes) and an incarnation. Probes make
suspects, a `SuspectTask` makes a suspect dead, gossip and push-pull spread
it, the accused refutes with a newer incarnation. A `MessageGossiper` queues
what is to be gossiped. Messages are lost, repeated and reordered; servers
crash and restart with nothing on disk. Correct means: incarnations belong to
their node, knowledge does not go backwards, a suspicion ends or is refuted, a
message accepted for gossip is sent and its notifier called.

**Server groups** (`cluster`). A group elects its leader through the raft
server; the members pull messages from it and a watermark follows the slowest.
Its parts cannot be put together yet, see section 5.

**Sequential storage** (`storage`). Message files with an index, written through
a double buffer (`WriterBuffer`).

**The rest**: `raft-client`, `common`, `serializer`, `buffer`, `vein-spring` and
the transport's mock and local connections: no state worth a model, or test
doubles.

### How they interact

Raft, discovery and groups all send through `transport` and receive on its
event loop; raft and discovery hand the requests to threads of their own. The
raft election sees the transport as messages that may be lost, late, or late
after their sender has been told of a timeout; discovery sees it as a set of
gossip that may arrive at any time and any number of times, because gossip is
sent on by others. The `Gossiper` decides when a message of `Membership` goes
out and who is told that it is through. A `ReplicateTask` lives on the end of its request: what `Connection` throws away in
`close()` is a loop that never goes on (`Vanish`). `Replication` takes the terms
and winners of `RaftElection` from outside, stands on what `RaftStore` shows that a
`RaftLogger` may answer, and lets every replicator send whenever it might,
which covers what `ReplicateTask` shows.

`PROJECT.json` lists every component with its sources and status, and every
hazard with the line where it bites and the properties that watch it.

## 2. The modules

| module | models | kind |
|---|---|---|
| `Voting` | what an election relies on: terms grow, one vote per voter and term | abstract specification |
| `RaftElection` | elections among servers: votes, roles, timeouts, heartbeats | detailed, implements `Voting` |
| `ServerThreads` | the event thread and the timer thread inside one raft server | detailed |
| `RaftStore` | the raft log on disk, with crashes and starts | detailed |
| `CommitPoint` | what a commit index promises: it grows, a majority holds it, only what is committed is applied | abstract specification |
| `Replication` | replicators, append handlers, commit, apply and reconfiguration among servers | detailed, implements `CommitPoint` |
| `ReplicateTask` | the flags and threads of one member's replication task | detailed |
| `RequestReply` | what a caller of `Connection.request` relies on | abstract specification |
| `Connection` | one side of a connection with all its threads | detailed, implements `RequestReply` |
| `Membership` | the discovery cluster | detailed |
| `Gossiper` | the gossip queue and its thread | detailed |
| `MC...` | model values, symmetry and constants for TLC | |
| `RaftElectionProofs` (with `Voting`), `ServerThreadsProofs`, `RaftStoreProofs`, `ReplicationProofs`, `ReplicateTaskProofs`, `ConnectionProofs`, `MembershipProofs`, `GossiperProofs` | theorems and proofs | |

A definition whose comment starts with `Deviation:` is no part of a
specification: it is the definition after it with a plausible slip, and
documents which property notices that slip (`mutants` in `PROJECT.json`).

### RaftElection

A step is one handler or one timeout of one server. `term`, `votedFor`,
`state`, `voteQuorum` and `master` are the fields of the same name;
`EXITED` stands for `System.exit` in `LeaderState`. `net` is a set of messages:
any may be delivered in any order or never; delivery removes it. `sending`
holds the replicators that are past the check of their `stopped` flag and have
not yet built a request. `ballots` and `elected` are history.

| code | action |
|---|---|
| `AbstractState.handle(VoteRequest)`, newer term | `VoteInNewerTerm`: granted without looking at the log |
| the same, own or older term | `VoteInOwnTerm` with `MayGrant` |
| `CandidateState.handle(VoteResponse)` | `CountVote`; the term of the response is only compared to see whether it is newer |
| `AbstractState.handle(VoteResponse)`, `handle(AppendResponse)` | `LearnTerm` |
| `onException` of a vote request | `VoteTimeout` |
| `FollowerState.onHeartbeatTimeout`, `CandidateState.onElectTimeout` | `HeartbeatTimeout`, `ElectTimeout`, both `BecomeCandidate` |
| `CandidateState.onElectAsMaster` | `BecomeLeader`, part of the step that merges the last vote |
| `ReplicateTask`, `Replicator.replicateTo` | `StartReplicate`, `SendAppend` |
| `AbstractState.handle(AppendRequest)` | `RefuseAppend`, `AcceptAppend`, `ExitOnAppend`, by term and by the role that was current when it arrived |

Abstracted: a log is the index of its last entry and does not change; entries
in append requests are left out (heartbeats). `RaftElection` assumes three
members or more, because with one or two the election completes inside
`wakeup()`; `VoteForSelf` of `ServerThreads` has that case.

### ServerThreads

One raft server, where a step is one access to what its two threads share:
`term`, `votedFor`, the role (`ServerContext.state`), the timers of the roles
(`clock`), the `VoteQuorum` (`quorum` indexes the `elections` opened so far) and
whether replicators run. The event thread (`event`) picks a message, waits for
the monitor of the context in `getServerState`, and goes through `updateTerm`
(`CompareTerm`, `AdoptTerm`, `ClearVote`, `FallBehind`), the vote
(`HandleVoteRequest`, `CheckVote`, `Grant`) or the count (`HandleVoteResponse`,
`Merge`, `BecomeMaster`, `Lead`). The timer thread (`timer`) goes through
`CallRole`, `EnterCandidate`, `IncreaseTerm`, `VoteForSelf`, `RequestVotes`. Since
every `onXxx` of the context assigns the role again after `transition` has
released the monitor, `AssignCandidate`, `AssignFollower` and `AssignLeader` are
steps of their own, and may overwrite each other. `Abort` is what
`RaftEventExecutor` makes of an exception. Messages are any the other members
could send; `raced` remembers that a timeout has overlapped a handler.

### Replication

A step is one handler, one request built and sent, or one step of a pool
thread. An entry is its term under its index; `log[s]` is what lies in the
segments, `buffer[s]` the indexes also in `entryBuffer`.

| code | action |
|---|---|
| `Replicator.replicateTo`, `buildAppendRequest` | `SendAppend` with `AppendRequest`: the entry before `nextLogIndex` and at most `MaxAppendSize` after it, as far as they are found |
| `AbstractState.handle(AppendRequest)`, older term | `RefuseTerm` |
| `LeaderState.doHandle(AppendRequest)` | `Exit`, after `updateTerm` |
| `appendWithPrevLog` | `RefusePrev`: the entry before is missing, or has another term |
| `truncate`, `appendInitial`, `commit`, `apply` | `Append`; `FailAppend` when an append of the batch throws |
| `LeaderState.handle(AppendResponse)` | `Acknowledge` with `IsQuorumIndex` and `Commit`, or `Retry` |
| `handle(AppendResponse)` of the other roles, a newer term | `LearnTerm` |
| timeouts, `onException`, lost messages | `Lose` |
| `LeaderState.wakeup` | `Campaign`, the election of `RaftElection` in one step, with `WakeUp` |
| `LeaderState.handle(JoinRequest/LeaveRequest)` | `JoinRequest`, `LeaveRequest`: the checks; then `Configure`: append, add the members, reset `nextLogIndex` |
| the clean-up ten seconds after `RaftLogger.commit` | `Clean` |
| the end of `LogStateMachine.apply` | `Complete` |

What makes the code differ from the raft paper is in the model as it is:

- `appendInitial` skips as many indexes as the first entry's index says *after
  the last index given out*, so `Placed` may put an entry far behind its own
  index; logs of different servers do not agree index by index, and nothing
  here claims that they do.
- `truncate` takes entries out of the buffer only; those in the segments come back.
- `matchedIndex` is not reset by a new leadership, the leader's own stays 0, and
  `IsQuorumIndex` counts from the lowest: member number `quorum - 1` of the
  members in increasing order.
- `commit` does not ask for the term of the entry. The leader applies nothing.
- `contain` is always false, so `configure` takes all members for new; what leaves
  is removed from a copy only; `configuring` is set for ever.

Abstracted: `RaftLogger` is its contract (an append stores or throws, a read of
the disk may miss an entry if `MayMiss`, `lastIndex` of an empty buffer is
whatever the current segment says). `AppendRequest` is built in one step,
`Replicator.java:96-134` reads term, log and commit index one after the other. `Complete` is
the check and the assignment of `ServerStateMachine.java:67-69` in one step, which
holds only because one apply thread completes the entries. Elections take a quorum that is in older
terms, whatever its logs; that two servers may win one term is `RaftElection`'s
subject, here the winners of a term are one. Replicators of a server that once
led may send at any time, more than the code does. Entries that `apply` schedules
twice are one element of `applying`. The initial commit index -1 is 0: no index
lies between.

### ReplicateTask

The `ReplicateTask` of one member at one server. `start` is `TryStart` (the
`compareAndSet`), `Submit`, `KeepFuture`, `Release`; `stop` is `TryStop`, `Cancel`,
`Clear`; `execute` is `Execute`, then `NoConnection` (a stop by the task itself) or
`Send`, then `Answered`, `Submit`, `KeepFuture`. `start` is called by the event thread
(`WakeUp`) and by pool threads with a join request (`JoinStart`), `stop` by the
event thread (`Suspect`) and by the task. A task is the object handed to the
executor; one that has ended stands for the next one submitted. `lost` is
history: since the last start, a task has run before `start` had cleared
`stopped`, has thrown, or its request was thrown away by a closing connection,
and nobody submits it again.

### RaftStore

`RaftLogger` on its files, for one caller. `files[b]` holds the records of the
segment with base index `b`, `indexFiles[b]` the slots of its `OffsetIndex`;
both outlive a crash. `segments[b]` is the `Segment` object: a new one, one open for
writing, closed, or opened for reading by the first `get`, `lastEntry` or
`firstIndex` that needs it (`Open`). That opening takes every slot of the
index file for an entry and replaces the channel of the segment, also of the
current one, which then refuses every append (`Refuse`). An append takes an index
(`AppendEntry`), writes the record (`Write`), indexes it (`IndexEntry`), rolls
(`Roll`) and is put into the buffer (`BufferEntry`); a crash may come between
any two or leave a torn record. `Commit` schedules a clean-up, for an index its
caller (`AbstractState.commit`) has not committed before and that is not beyond the
last; `Clean` takes one entry after the other out of the buffer, at any time later.
`Truncate` does what the code does: it takes the entries from `index` on out of the
buffer and leaves the records where they are, although the comment of `truncate`
(`RaftLogger.java:152`) says that they are deleted. `returned` is history: the entries
whose append has returned and that no `truncate` was asked to delete. `Start` is `loadSegments` and `check`; `StartFails` is a
start that throws or never ends. `Read` and `Last` are what `get` and
`lastEntry` return. Records have one size, and segments roll by the number of
their entries. A record with a wrong checksum (`BadDataException`) does not occur.

In the assembled server every election calls `lastEntry` while the buffer is
empty, so the current segment is open for reading before anything is
appended, and every append is refused. The module therefore takes the calls of
`RaftLogger` in any order, as `RaftLoggerTest` does, and covers that order too.
For the same reason `Replication` is a model of the handlers on a `RaftLogger` that
takes appends; the assembled server would throw in each of them (`FailAppend`).

### Connection

A step is one access to one shared structure. `request()` is `Register`,
`RecordRequest`, `SendRequest` or `SendThrows`, `StartTimer`, `RecordTimer` (or
`FailUnsent` in its `catch`). A response or a timeout goes through `TakeFuture`
(the `remove` that decides who goes on), `TakeRequest`, `CancelTimer`,
`CompleteFuture`, on the event loop or on the timer thread of the request: `handling`
says for each of the two how far it is, so both may be inside `handResponse` with
one request at once if the `remove` lets them. `close()` is `Close`, one `ClearFuture` per id (a
`ConcurrentHashMap` is cleared bin by bin while others use it) and `Closed`.
The other side answers not at all, with an answer, with an error, or with an
answer and, when that could not be written in time, an error after it. History:
`served` counts how often it has carried a request out, `responses` how often
`CompleteFuture` has handed a response to a future (which would ignore a second),
`overtaken` holds the requests whose timer was cancelled before `schedule()` had
recorded it, `cleared` those whose future `close()` threw away.

### Membership

`view[o][n]` is the `Node` that `o` keeps for `n`: incarnation, status and the
map it is in, which the code keeps apart and which really come apart
(`aliveNode` moves a known node into the alive map and then updates the
discarded new object). Each handler (`AliveNode`, `SuspectNode`, `DeadNode`) is
one step since it holds the node's lock. What the code reads without that lock
is a step of its own: `ProbeFails` and `RunSuspectTask` build a message, `HandIn`
handles it later. `net` only grows: gossip is sent on, so a message may come
twice, late or to the node it is about. Handlers treat different nodes
independently, so a run may track one node (`Subject`) and still let every
server do everything to it. `Listen` and `Bootstrap` are the two halves of
`doStart`, between which messages are handled already; `Crash` loses everything.
`early` is history: the servers that have heard an alive message about themselves
between the two halves. Such a server has put itself among its nodes as a dead one
before it adds itself, keeps that status, and refutes no suspicion, because
`suspectNode` looks for a node that is `ALIVE`.

Three orders of the code are steps of another size here. `removeDeadNodes` takes no
node lock, so a handler that holds the removed `Node` may still put it into
`aliveNodes` (`GossipMessageServiceImpl.java:58-63`, `:106`); `RemoveDeadNodes` removes
nodes between two handlers, and that state is not expressed. `SuspectTask` compares
`statusChangeTime` with the time it was made; here a node has one slot for its task,
which `DeadNode` empties. `ProbeTask` tests the status before the pings, `ProbeFails`
when they have failed; a node whose status changes during the pings is accused by
the code all the same, and the handler of that message then ignores it.

### Gossiper

`gossip()` is `Enter` (the node's lock and the monitor), `Scan` with
`FinishOlder` and `InvalidateOlder` for each older message about the node,
`Register`, `Put` (outside the monitor, waits for room) and `WakeUp`.
`PutInterrupted` is the `catch` of `gossip()`: the message has taken the place of the
older ones, but is not queued, and nobody is woken up. The lock of `Enter` is one per
node id; the code locks the `Node` object, which `removeDeadNodes` and `addIfAbsent`
may replace (`Nodes.java:143-156`, `:211-226`), so two callers about one node id can
be in `put` at once, which the model does not have. A message is sent
`MaxTransmit + 1` times before it is dropped, because `MessageGossiper.java:136` compares
with `>`: one more than the "maximum" of `DiscoveryConfig.java:104`. The thread is `ChooseNodes`, `Take` and `Judge` for each message of the weakly
consistent iterator, `EndRound`, `EndThread`.

## 3. What the runs check

Twelve runs; the four marked (violation) check one claim of the repository that
the code does not keep.

**`election`** (`RaftElection.cfg`, about two and a half minutes). Three servers,
one with a longer log, terms up to 2, three elections in all, one message of
the replicators at a time; the two servers with equal logs are symmetric. Two
elections of one server and one of another is the least with which a late vote
can matter; two terms give every order of newer, equal and older; one append in
flight is enough for a leader to be found behind, because the message waits in
`net` while elections go on.

- `OneVotePerTerm`, `ImplementsVoting`: whatever sequence of grants, newer terms,
  timeouts and role changes a server goes through, it votes once per term.
- `FreshElectionSafety`: two winners of one term who both have a quorum of votes
  given *in that term* are one server. This is all of election safety that the
  code has, see below.
- `WinIsBacked`: a win rests on as many distinct ballots as a majority has members:
  the winner's own of the term it has won, and others' for the winner, of that term
  or an older one. Refusals, timeouts, repeated answers and the candidate's own votes
  of earlier elections never help. A member that voted for the winner in two terms
  may count for both, since the code does not ask which election an answer is to.
- `MasterWasElected`: a server only takes a server for master that has won an
  election in a term not newer than its own, although replicators build
  their request after a pause.

`LeaderState.doHandle(AppendRequest)` exits the process because "more than one
master has the same term". `AbstractState.handle` adopts a newer term first and
then calls `doHandle` of the role the request found, so a leader that is merely
behind exits as well: `ExitOnAppend` has both cases, and no property excludes the
second.

**`election_safety`** (violation). `ElectionSafety`, at most one winner per
term, fails: `CandidateState.handle(VoteResponse)` counts a granted response of
its *earlier* election, so a second server can win the same term with votes of
that term. `LeaderState.java:52` takes this for impossible ("there must be a bug").

**`server_threads`** (`ServerThreads.cfg`, about a minute and a half, 1.6 million states). One of three
servers, two timeouts that open an election, messages of terms 1 and 2. Two
elections are needed for a `VoteQuorum` to be replaced while a response to the
old one is being counted; with own terms up to 4, messages are newer, equal
or older than the server.

- `RolesInStep`, `VotesInStep`: as long as a timeout has never overlapped a
  handler, timer, `VoteQuorum` and replicators are those of the role, and a term
  gets one vote. The condition is needed: with an overlap all of it can fail,
  which `server_term` shows for the term, on which the rest depends.
- `LeaderWasElected`: in every interleaving, replicators are started only after
  a `VoteQuorum` has had the votes of a majority.
- `HandlersEnd`: the event thread gets through every handler, whatever monitor it
  waits for and whatever a handler throws.

**`server_term`** (violation). `TermIncreases` fails: `CandidateState.wakeup` reads
`term` on the timer thread, the event thread adopts a newer one, `wakeup` writes
the old one plus one. `RaftMember.java:16-18` calls the term a version number that
increments.

**`replication`** (`Replication.cfg`, about a minute, 1.6 million states). Two members
and a third server that may join, two terms, two indexes, one entry put in a log by
a leader, one message in flight, no missed reads; the two members are symmetric.
Two terms and two indexes are the least with which a leader of a new term commits
an entry of an old one and an entry lands behind its own index; a message in
flight waits there through an election, so it comes late. The third server makes
the cluster odd and the members in question strangers to each other. Batches of
two, followers that commit and apply, and entries that come back after a
`truncate` all occur.

- `MatchedIsHeld`: `matchedIndex` never exceeds what the member has stored. It is
  set from `nextIndex` of a response that may be late, to an earlier leadership,
  or to a batch stored elsewhere than its indexes say.
- `CommittedIsHeld`: a majority of a cluster that contains the configured members
  has stored something at every committed index or beyond it, although
  `getQuorum` is half of an even cluster and the leader never counts itself.
- `ImplementsCommitPoint`: commit indexes never go back, move only to what a
  majority holds, and only committed entries are applied.

**`replicate_task`** (`ReplicateTask.cfg`). The event thread, two joining threads,
three tasks: two calls of `start` can meet a `stop` of the event thread or of the
task, and two loops of different starts can run beside each other; the bound
`Room` only keeps a start from being left without a task object.

- `OneCallAtATime`: the two flags together are a lock. No two calls of `start` or
  `stop` overlap, and between calls one flag is the negation of the other.
- `LoopIsThere`: a started member has a task in the queue or at work, unless it
  is `lost`.
- `StoppedDrains`: when a member stays stopped every loop ends, also those of
  earlier starts that run beside the last one.

Deadlock is checked in this run: a start can always be called again.

**`raft_store`** (`RaftStore.cfg`, about a minute and a half, 2.2 million states). Five appends to segments of two
entries: two full segments and a third with one entry, so there are closed,
full, empty and current ones at once. One skip and any number of refused
entries make gaps; two crashes allow a start on the files of a start.

- `ReadsAreRight`: `get` returns an entry of that index or none, never a
  neighbour, although `lookup` guesses the slot and walks back.
- `ReturnedIsFound`: an entry whose append returned is found until a `truncate` is
  asked to delete it, as long as no index was used up without a record and no start
  began at 0 with records on disk. The conditions are needed: `lookup` looks past an
  entry that follows a gap, and `SegmentManager.check` begins at 0 when the last
  segment is empty. Of the truncated entries nothing is claimed: the comment of
  `truncate` says they are deleted, `get` still finds those on disk.
- `IndexIsFresh`: under the second condition an index is never given twice, also
  after a crash in the middle of an append. A start that begins at 0 is what the
  condition leaves out; it does give indexes twice.
- `LastIsNewest`: `lastEntry` may find nothing where there are entries (blank slots
  at the end of an index, an empty segment after a roll), but never something old.

**`connection`** (`Connection.cfg`). Two requests, so that one's response can be
handled while the other is anywhere in `request()`, and `close()` can meet both.
Responses to one request never touch the maps under another id, so a third
would repeat the second.

- `ImplementsRequestReply`: of the up to three that come with a response of one
  request (answer, error after it, timeout) one at most gets through to the future,
  an answer only after the request was carried out under its id, and it is carried
  out at most once. Both are counted, so that a second response would show although
  `CompletableFuture` ignores it.
- `InfoIsThere`: `handResponse` dereferences the `RequestInfo` it removes second;
  it is always there.
- `EndsUnlessCleared`: a future that is not thrown away by `close()` ends, also
  when the write throws and for a request made after `close()`.
- `NothingLeftBehind`: what a request that is over can leave in the maps. A
  `RequestInfo` stays only of one whose write threw or that `close()` cut off, a
  `scheduledMap` entry only of one that `close()` cut off or whose response was
  handled before `schedule()` had recorded the timer; and a timer that is still
  armed has its entry.

**`connection_close`** (violation). `EveryRequestEnds` fails: `doClose` clears
`responseFutures` and completes none. `Connection.java:63` and `:72` promise that the
future blocks until there is a message or a timeout.

**`membership`** (`Membership.cfg`). Two servers, one tracked node, incarnations up
to 3, one crash of either. Incarnation 1 is the start, 2 and 3 leave room for a
refutation after a refutation and for a restart among messages of a former
life. A second observer only adds a second copy of the first one's view: a
variant with three servers, two incarnations and no crash was checked too
(153,342 states) and is left out for its time.

- `IncarnationIsOwned`: nobody invents an incarnation for another node.
- `MapsAgree`: status and map agree, but for the nodes that `aliveNode` has put
  back among the alive without changing the `Node` it knows; those have given
  themselves a newer incarnation than the one recorded (`Refuted`).
- `SelfNeverDoubted`: in whatever order messages, its restarts and `left()` come, a
  running server is `ALIVE` to itself and in its map of alive nodes, unless it has
  heard of itself before `Bootstrap` (`early`): exactly those servers are `DEAD` to
  themselves, in no map, for as long as they run.
- `DeadWasAccused`: a node is dead only at an incarnation in which a probe of it
  failed, or that it pushed itself. That the node may be alive again at a newer
  incarnation when it is declared dead is not excluded: the code does that, because
  `aliveNode` does not record the newer incarnation of a node it knows.
- `SuspicionEnds`: the status `SUSPECT` ends, or the node is refuted; no order of
  cancelling and running tasks strands another suspect. A refuted one may be
  stranded: `aliveNode` cancels its task and sets the status of the `Node` it
  discards, so it stays `SUSPECT` among the alive, and no later suspicion is heard.
- `IncarnationGrows`: knowledge of an incarnation never goes back.

`left()` hands the dead message about the local node to `deadNode`, which refutes
it like any accusation, and drops the notifier that would close the server:
`Leave` is modelled that way, so a server does not leave.

**`gossiper`** (`Gossiper.cfg`). Four messages, three about one node and one about
another, a queue of two, two transmissions each (`MaxTransmit` 1), one per round. Three
about one node are needed for a message to be replaced by one that is replaced
itself; a queue of two makes `put` wait; the fourth message runs beside the
monitor.

- `NewestStands`: the last message about a node is valid, and queued or about to be,
  until it has been sent at least `MaxTransmit` times and its notifier told, whatever
  the thread does to the older ones meanwhile. One whose caller was interrupted in
  `put` is the only exception: it is lost, and the older ones with it.
- `OneLiveMessage`: one message per node has transmissions left.
- `EndedIsFinished`: what was queued and has left the queue has called its notifier.
- `ThreadEnds`: the thread does not spin.

**`gossip_stuck`** (violation). `FinishIsNotified` fails under fairness: the thread
finds the queue empty, a caller puts a message and finds `gossiping` still true,
the thread sets it to false and ends. The message stays until another comes.
`GossipFinishNotifier.java:7` says the notifier is called once the message is sent.

`CHECK_DEADLOCK FALSE` is in every run but `replicate_task`: in the others the
system may rest (all bounds used up, every request ended, no thread running).

### Fairness

`RaftElection` and `Replication` have none: they state safety only, and no fairness of
the code makes an election succeed or a message arrive. `ReplicateTask`: a thread
inside `start`, `stop` or `execute` goes on, the executor runs what it is given, a
request ends one way or another (`Answered` or `Vanish`); nobody has to become
leader, to join or to step down. `Submit` is strongly fair because the model's
stock of task objects may be used up for a while, the code's is not. `ServerThreads`: a thread inside a handler or a timeout goes
on, as any thread of a pool does; no message and no timeout is owed. `Connection`: a thread inside `request()`, `handResponse` or
`close()` goes on, and an armed timer fires; the other side owes nothing. Reading
from the socket is not fair either, since the other side may never write.
`Membership`: the scheduled pool runs the tasks it has been given and hands in
their messages; probes and deliveries owe nothing. That `HandIn` is fair takes
`gossip()` to return, which it does not when the queue is full and no `GossipThread`
runs (`MessageGossiper.java:70`): then a caller waits in `put` with the node's lock, and
a suspicion of that node may last as long. `Gossiper`: the thread and a
caller inside `gossip()` go on when they can; nobody has to call `gossip()`, and no
interrupt has to come.

## 4. What is proved

For every set of servers, logs and bounds within the named assumptions:

| theorem | states | rests on |
|---|---|---|
| `RaftElectionProofs!VotingSafe` | `Voting` never gives two votes of one voter in one term | `VotingConstants` |
| `RaftElectionProofs!TypeCorrect` | `Spec => []TypeOK` | `ServerAssumption`, `LogAssumption`, `BoundAssumption` |
| `RaftElectionProofs!VotesAsSpecified` | `RaftElection` implements `Voting` | `TypeCorrect` |
| `RaftElectionProofs!OneVote` | `Spec => []OneVotePerTerm` | the two above and `VotingSafe` |
| `RaftElectionProofs!FreshSafe` | `Spec => []FreshElectionSafety`, for an odd number of servers | `OneVote`, `BackedInv` |
| `RaftElectionProofs!MastersWereElected` | `Spec => []MasterWasElected` | `TypeCorrect`, `WonInv` |
| `RaftElectionProofs!WinSafe` | `Spec => []WinIsBacked`, for an odd number of servers | `TypeCorrect`, `WinInv` |
| `ServerThreadsProofs!LeadersWereElected` | `ServerThreads`: `Spec => []LeaderWasElected` | `MemberAssumption` |
| `ServerThreadsProofs!Typing` | `ServerThreads`: `Spec => []TypeOK` | `MemberAssumption`, `BoundAssumption`, `TypeInv` |
| `ServerThreadsProofs!RolesSafety` | `Spec => []RolesInStep`, for two other members or more | `RolesInv` |
| `ServerThreadsProofs!VotesSafety` | `Spec => []VotesInStep` | `VotesInv` |
| `RaftStoreProofs!Typing`, `ReadsSafety` | `RaftStore`: `Spec => []TypeOK`, `[]ReadsAreRight` | `SizeAssumption`, `BoundAssumption`, the inductive `Sound` |
| `RaftStoreProofs!FreshIndexes`, `NewestSafety`, `FoundSafety` | `Spec => []` of `IndexIsFresh`, `LastIsNewest`, `ReturnedIsFound` | `Sound`, `StoreInv` |
| `ReplicationProofs!Typing` | `Replication`: `Spec => []TypeOK` | `ServerAssumption`, `SizeAssumption`, `BoundAssumption` |
| `ReplicationProofs!MatchedSafety`, `CommitSafety` | `Spec => []MatchedIsHeld`, `Spec => []CommittedIsHeld` | the inductive `IInv` |
| `ReplicationProofs!Refinement` | `Replication` implements `CommitPoint` | `IInv` |
| `ReplicateTaskProofs!CallSafety`, `LoopSafety` | `Spec => []OneCallAtATime`, `Spec => []LoopIsThere` | `ActorAssumption`, inductive invariant |
| `ConnectionProofs!Typing`, `InfoSafety`, `LeftBehindSafety` | `Connection`: `Spec => []TypeOK`, `[]InfoIsThere`, `[]NothingLeftBehind` | the inductive `IInv` |
| `ConnectionProofs!Refinement` | `Connection` implements `RequestReply` | `IInv` |
| `MembershipProofs!Typing`, `IncarnationSafety`, `MapSafety`, `SelfSafety`, `DeathSafety` | `Membership`: `Spec => []` of `TypeOK`, `IncarnationIsOwned`, `MapsAgree`, `SelfNeverDoubted`, `DeadWasAccused` | `SubjectAssumption`, `IncarnationAssumption`, the inductive `IInv` |
| `MembershipProofs!KnowledgeGrows` | `Spec => IncarnationGrows` | `IInv` |
| `GossiperProofs!Typing`, `NewestSafety`, `OneLiveSafety`, `EndedSafety` | `Gossiper`: `Spec => []` of `TypeOK`, `NewestStands`, `OneLiveMessage`, `EndedIsFinished` | `MessageAssumption`, `ConfigAssumption`, the inductive `IInv` |

*One vote.* `OneVotePerTerm` is not inductive: a ballot of the past has to be
protected from a vote in the present. `BallotsKept` says that every ballot lies
in its voter's past, or is the vote the voter holds now. `KeptAhead` shows that
moving to a newer term keeps it, `NoSecondVote` that a vote given in a newer
term, or repeated in this one, adds no second. `RaftElection` gets the property
by refinement: each of its actions is a step of `Voting` or leaves its
variables alone.

*Fresh elections.* `BackedInv` follows a vote from the ballot to the response
that reports it, to the fresh voters of a running election and to those of one
that is won. Two fresh quorums then meet in a voter (`FreshMajorities`, by the
cardinality of a union) and `OneVote` makes both winners one. The quorum of the
code, `(n + 1) / 2`, is a majority only for odd `n`: the theorem assumes that, and
for even `n` the two halves of a cluster may elect a leader each.

*Masters.* `WonInv` carries "has won an election no later than this term" from
leaders to the replicators that are sending, to their append requests and to
the `master` of a follower. It needs that terms and `elected` only grow.

*Wins.* `FreshSafe` says nothing of votes that come late from an earlier election,
`WinIsBacked` is what remains true of them: distinct ballots, of the winner's own only
the one of the term it has won (`BallotsFor`). A candidate counts numbers, not voters,
so the invariant has to show that each number is a ballot of its own. `WinInv` follows
a ballot on its way: a member is asked by a candidate at most once in a term, and as
long as the request is in `net` it has not given that vote (`RequestsOpen`,
`OneRequest`); a granting answer stands for one ballot, and a ballot has one answer
(`GrantsOnce`). `Arrived(s)` are the ballots for `s` whose answer is not on its way
any more; a candidate's count never exceeds them (`YesBacked`), and an answer that is
counted adds one to either side. The theorem takes an odd cluster for the same
reason as `FreshSafe`.

*Threads.* `LeaderWasElected` is not inductive either: between the vote that completes
a `VoteQuorum` and the start of the replicators lie several steps of the event
thread. `ElectedInv` says that it has a majority behind it in all of them;
`VotesKept`, that no step of any thread takes a vote back, carries this through
the steps of the other thread. Apart from the shape of the variables nothing
else is needed, in particular nothing about which role the server is in.

`RolesInStep` and `VotesInStep` are conditional on `~raced`, and their invariants say
what that buys: one of the two threads is at rest (`InTurn`), so a step of a handler
may rely on what the steps before it have read. `RolesInv` lists the few places
where the server is not all of one role (`Waking`: the timer runs, the role is not
assigned yet). It needs two other members: with a quorum of one, `VoteForSelf`
wins the election inside `wakeup`, suspends the candidate that is still waking
up and leaves its timers in disorder, which is the hazard at
`CandidateState.java:55`. `VotesInv` says when `votedFor` is the vote of the
term (`NewTerm` marks the steps at which it is not yet), and that what `check` has
decided about a vote still holds when it is given (`DecisionOK`). `BoundsOK` of the
type invariant is needed in races too: a term that `wakeup` writes may be older
than the one it replaces, but is bounded by the elections opened so far.

*Storage.* `Sound` holds without any condition: a slot is blank or tells of
the record at its own place in the file (`Tells`), slots beyond the entries of the
writable segment are blank (`WriteOK`), and the append that is running knows how far
it has come (`CallOK`). Reads are right because `lookup` ends at a slot, and a slot
tells the truth. The rest needs that no start began at 0 over records on disk
(`renumbered`): then the current segment is the last, it is written at its end
(`LastOK`), indexes grow along a file and from file to file (`Ordered`, `Placed`),
and an entry whose append has returned and that was not truncated keeps a slot (`KeptOK`). Without
gaps the index also tells the place (`DenseOK`); that is what makes the slot that
`lookup` guesses the right one. `StoreInv` joins the three, each under its
condition, and `HistoryStays` lets a step assume the condition before it from the
condition after it. A torn record can only be the last of the last file
(`TornOK`), and no server starts on it.

*Replication.* What a leader believes (`matchedIndex`) and what it commits are true
only because of what is under way, so the inductive invariant is about messages:
`MessagesOK` says that a successful response from a member carries a `nextIndex`
no further than one beyond what that member has stored, and that the commit index
in a request is one a majority holds. `ClustersGrow` keeps the configured members
in every cluster. Everything is monotone in what the servers hold (`ReachesMono`,
`ChosenMono`): `Kept` shows that a step in which logs only grow and messages only
disappear keeps the invariant, and only the appends, the acknowledgement and the
apply thread need more. `QuorumIsChosen` is the arithmetic: the members at or above
the `quorum - 1`st of the sorted ones are more than half, for odd and even clusters,
and a leader whose own `matchedIndex` is 0 only makes the count lower. `Refinement`
maps `held`, `point` and `done` to the domains of the logs, `commitIndex` and
`lastApplied`; an append is one `Advance`, `Complete` is `Apply` or a stutter (that
needs `AppliedIsCommitted`: what is scheduled has been committed), everything else
leaves the three alone. The theorems hold for both values of `MayMiss`.

*ReplicateTask.* `Lock` spells out the four combinations of the two flags and who
is inside a call in each; the entry into a call needs a flag that the other call
has not released. `Loop` adds to `LoopIsThere` that from `Submit` to `Release` the
submitted task is alive, unless it is lost; a `stop` cannot come between
(`NoStarter`), because of `Lock`.

*Connection.* The invariant is one predicate per request, `Good(r)`, because no step
looks at two of them except `close()`. Its parts say who owns the request:
the future in `responseFutures` (`Waiting`) or the one thread that has taken
it out (`Taken`), never both and never two threads; `Owned` says that a `RequestInfo`
still in its map has somebody who will take it out, or is in `cleared`, and `Watched`
the same of a timer: somebody will still cancel it, or it was overtaken. That the
other side's answers are about requests it has carried out (`Genuine`) is part of the
shape, and `Delivered` that a request is on the wire or served, once.
`RequestReply` shares `future`, `served` and `responses`: `Register` is `Call`,
`HandRequest` is `Serve`, `FailUnsent` is `Fail` or a stutter when a response was
faster, and `CompleteFuture` is `Respond`, which allows a request one response only:
that it is the first is what `Taken` says of the thread that comes with it.

*Membership.* `IInv` is about nodes and messages alike: what a server knows of a node
(`NodeOK`) and what it says of it (`MessageOK`) carries an incarnation the node
has issued and, unless it says "alive", one somebody has accused it of. The three
handlers have one contract, `Handles`: they add only such messages and make one
such view, not older than before, and one that is put back among the alive with
another status has a newer incarnation issued by the node. What a server knows of
itself is a second invariant, `SelfOK(n)`, proved beside it: one that has heard of
itself before `Bootstrap` has refuted what it heard, so its view of itself has an
incarnation above 1, and `Bootstrap` comes with an older one and changes nothing;
any other is alive to itself from `Bootstrap` on, and every accusation ends in a
refutation. Two facts make the statements inductive: a
node known only by name has incarnation 0 and is never suspected, so that nobody
declares it dead without an accusation; and a server that is not running has no
incarnation, so that its first one is newer than 0. Messages are never removed from
`net`, so late, repeated and reordered delivery is covered by the proof.

*Gossip queue.* The node's lock and the monitor of `gossip()` protect the scan but
not the queue, from which the thread takes messages at any time. `OlderOver` is the core:
a message that is registered and not over is the newest of its node, or the
caller in the monitor has it still before it (`rest`, `hit`). `OneLiveMessage` is
its consequence. For `NewestStands` one needs that only older messages are
invalidated (`InvalidOK`) and that what has left the queue was over and finished
(`GoneOK`), an interrupted one apart; for that, that a message is queued at most once and the thread holds
nothing that has left (`QueueOK`, `ThreadOK`). `Counted` says who may finish a
message: the thread that drops it and a caller that invalidates it, so that it
is at most twice, which is in the type of `finished`.

Every invariant, action property and refinement that a run checks is proved.
Only model-checked are the liveness properties (`HandlersEnd`, `StoppedDrains`,
`EndsUnlessCleared`, `SuspicionEnds`, `ThreadEnds`), which are out of the prover's
reach, the four violations, and `WinIsBacked` and `FreshElectionSafety` for
clusters of even size, where a quorum is a half and neither is true in general.
Nothing here needs induction over data or a RECURSIVE operator: the greatest and
the least element of a set of numbers come from a well-founded order (`MaxFacts`,
`MinFacts`).

## 5. What is not modelled

The program is the Java source, and `PROJECT.json` maps every definition to it. The
JavaScript files, by far the most lines of the repository, are libraries vendored
for the web pages under `view/`; nothing of them is modelled.

- *Snapshots.* `FileSnapshotManager` is never started and knows no snapshot, so
  `replicateTo` never takes its snapshot branch, every `InstallSnapshotRequest` is
  refused, and a server becomes passive only by code that nothing calls.
- *Commands.* No handler is registered for `CommandRequest`, and nothing makes a
  server its own master, so no command gets into a log. The entries of
  `Replication` are those of `configure`.
- *Equal logs.* The log of a follower need not be the leader's, index by index or
  entry by entry (see `Placed`); that committed entries are the same everywhere is
  not claimed by any module.
- *Restart of a raft server.* `FileMemberStateManager` writes nothing.
- *Clusters of one or two members* in elections, and the thread that joins a
  cluster (`RaftServerImpl.java:257` wakes the current role a second time).
- *Concurrent appends* to one segment, and rolling by size.
- *A node that is replaced under a handler* in discovery: `removeDeadNodes` and
  `addIfAbsent` put another `Node` under an id whose old object a handler holds.
- *Server groups.* `joinGroup` waits for ever in `findLeader`: `pullState` returns
  an empty list, the quorum of the election is never set, nobody calls
  `Server.setConnection`, `ClusterServiceImpl.store` is null. There is no
  reachable state with a group leader.
- *Sequential storage.* It opens its files with the mode `"wr"`, which
  `RandomAccessFile` refuses.
- `doClose` and the retries of `join` in discovery. Which node is probed next and
  which nodes gossip goes to are any.
- Wrap-around of request ids after 2^31 requests.
- Serialization, buffers, Netty set-up, mocks, Spring, the web pages: conversions,
  glue and test doubles.

## 6. What could follow

Proofs of more than the runs state: that `ReplicateTask` implements what
`Replication` assumes of a replicator (it sends only for a member that was
started), and that `RaftStore` without gaps implements the log `Replication`
takes for granted. In the models: a restart in `RaftElection` once member
state is written, the joining thread and small clusters in `ServerThreads`, two
callers of a segment in `RaftStore`.
