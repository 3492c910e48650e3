---------------------------- MODULE ServerThreads ----------------------------
(***************************************************************************)
(* The threads inside one raft server.  Messages are handled one at a time *)
(* on the event thread (RaftEventExecutor), heartbeat and elect timeouts   *)
(* run on the one thread of the timer pool.  ServerContext.transition is   *)
(* synchronized, but the handlers read and write term, votedFor and the    *)
(* role outside of it, and every onXxx assigns the role once more after    *)
(* transition has returned.  RaftElection takes each handler and each      *)
(* timeout for one step; here a step is one access to what they share.     *)
(***************************************************************************)
EXTENDS Integers, Sequences, FiniteSets

CONSTANTS
  Self, NoServer,
  Other,         \* the other members
  MaxTerm,       \* bound: no message has a newer term
  MaxElections   \* bound: elections the server opens

ASSUME MemberAssumption ==
  Self # NoServer /\ {Self, NoServer} \cap Other = {} /\ IsFiniteSet(Other)
ASSUME BoundAssumption == MaxTerm \in Nat /\ MaxElections \in Nat

VARIABLES
  term, votedFor,  \* RaftMember
  role,         \* ServerContext.state
  clock,        \* the timer of a role; "spent": started, but it has fired
  elections,    \* the VoteQuorums made so far
  quorum,       \* RaftMemberState.voteQuorum, an index of elections, 0: null
  replicating,  \* the replicators are started
  event,        \* the event thread and the message it handles
  timer,        \* the timer thread
  asked,        \* vote requests whose response or failure is to come
  ballots,      \* history: votes given, by the term they were given in
  raced         \* history: a timeout and a handler have overlapped

member  == <<term, votedFor>>
votes   == <<elections, quorum>>
history == <<ballots, raced>>
vars == <<member, role, clock, votes, replicating, event, timer, asked, history>>

Term   == 0 .. MaxTerm + MaxElections
Quorum == (Cardinality(Other) + 2) \div 2
Timed  == {"FOLLOWER", "CANDIDATE"}
Kind   == {"VoteRequest", "VoteResponse", "AppendRequest", "AppendResponse"}

EventIdle == [at |-> "idle"]
TimerIdle == [at |-> "idle"]

\* transition() keeps the monitor of the context while it wakes a candidate.
MonitorFree == timer.at \notin {"setTerm", "setVote", "request"}

Init ==
  /\ term = 0 /\ votedFor = NoServer /\ role = "FOLLOWER"
  /\ clock = [r \in Timed |-> IF r = "FOLLOWER" THEN "armed" ELSE "off"]
  /\ elections = <<>> /\ quorum = 0 /\ replicating = FALSE
  /\ event = EventIdle /\ timer = TimerIdle
  /\ asked = 0 /\ ballots = {} /\ raced = FALSE
-----------------------------------------------------------------------------
(* ServerState.suspect and wakeup.                                          *)

\* AbstractRaftTimer.start does nothing to a timer already started.
Start(c, r) == [c EXCEPT ![r] = IF @ = "off" THEN "armed" ELSE @]
Stop(c, r)  == [c EXCEPT ![r] = "off"]

\* CandidateState.suspect finds no VoteQuorum to cancel.
NothingToCancel == role = "CANDIDATE" /\ quorum = 0

\* Deviation: a candidate that is suspended leaves its timer running.
SuspendTimerless(woken) ==
  /\ clock' = IF role = "FOLLOWER" THEN Start(Stop(clock, role), woken)
              ELSE IF woken \in Timed THEN Start(clock, woken) ELSE clock
  /\ IF role = "CANDIDATE"
     THEN /\ elections' = [elections EXCEPT ![quorum].outcome =
                             IF @ = "open" THEN "cancelled" ELSE @]
          /\ quorum' = 0
     ELSE UNCHANGED votes

\* The old role is suspended, the timer of the new one started.
Suspend(woken) ==
  /\ LET stopped == IF role \in Timed THEN Stop(clock, role) ELSE clock
     IN clock' = IF woken \in Timed THEN Start(stopped, woken) ELSE stopped
  /\ IF role = "CANDIDATE"
     THEN /\ elections' = [elections EXCEPT ![quorum].outcome =
                             IF @ = "open" THEN "cancelled" ELSE @]
          /\ quorum' = 0
     ELSE UNCHANGED votes

\* The timer is stopped before clearVoteQuorum throws.
FailToSuspend == clock' = Stop(clock, role) /\ UNCHANGED votes
-----------------------------------------------------------------------------
(* The timer thread.                                                        *)

TimerAt(step) == timer' = [timer EXCEPT !.at = step]

Fire(r) ==
  /\ timer.at = "idle" /\ clock[r] = "armed" /\ Len(elections) < MaxElections
  /\ clock' = [clock EXCEPT ![r] = "spent"]
  /\ timer' = [at |-> "fired", of |-> r, read |-> 0]
  /\ raced' = (raced \/ event.at # "idle")
  /\ UNCHANGED <<member, role, votes, replicating, event, asked, ballots>>

\* RaftState.onHeartbeatTimeout and onElectTimeout throw in any other role.
CallRole ==
  /\ timer.at = "fired"
  /\ timer' = IF role = timer.of THEN [timer EXCEPT !.at = "entering"] ELSE TimerIdle
  /\ UNCHANGED <<member, role, clock, votes, replicating, event, asked, history>>

\* transition(CANDIDATE), up to the term read by CandidateState.wakeup.
EnterCandidate ==
  /\ timer.at = "entering"
  /\ IF NothingToCancel
     THEN FailToSuspend /\ timer' = TimerIdle /\ UNCHANGED replicating
     ELSE /\ Suspend("CANDIDATE")
          /\ replicating' = (replicating /\ role # "LEADER")
          /\ timer' = [timer EXCEPT !.at = "setTerm", !.read = term]
  /\ UNCHANGED <<member, role, event, asked, history>>

\* Deviation: the term grows by two.
IncreaseTermTwice ==
  /\ timer.at = "setTerm" /\ TimerAt("setVote")
  /\ term' = timer.read + 2
  /\ UNCHANGED <<votedFor, role, clock, votes, replicating, event, asked, history>>

IncreaseTerm ==
  /\ timer.at = "setTerm" /\ TimerAt("setVote")
  /\ term' = timer.read + 1
  /\ UNCHANGED <<votedFor, role, clock, votes, replicating, event, asked, history>>

\* With a quorum of one the election is won before anybody knows about it:
\* onElectAsMaster throws in a follower, and in a candidate it stops the
\* timer before it finds no VoteQuorum to cancel.
VoteForSelf ==
  /\ timer.at = "setVote" /\ TimerAt("request")
  /\ votedFor' = Self
  /\ elections' = Append(elections, [yes |-> 1, no |-> 0,
                                     outcome |-> IF Quorum = 1 THEN "won" ELSE "open"])
  /\ quorum' = Len(elections) + 1
  /\ clock' = IF Quorum = 1 /\ role = "CANDIDATE" THEN Stop(clock, role) ELSE clock
  /\ UNCHANGED <<term, role, replicating, event, asked, history>>

\* requestVotes reads the term again; transition sets the role and returns.
RequestVotes ==
  /\ timer.at = "request" /\ TimerAt("assign")
  /\ asked' = asked + Cardinality(Other)
  /\ ballots' = ballots \cup {[term |-> term, candidate |-> Self]}
  /\ role' = "CANDIDATE"
  /\ UNCHANGED <<member, clock, votes, replicating, event, raced>>

AssignCandidate ==
  /\ timer.at = "assign"
  /\ timer' = TimerIdle
  /\ role' = "CANDIDATE"
  /\ UNCHANGED <<member, clock, votes, replicating, event, asked, history>>

TimerStep ==
  \/ CallRole \/ EnterCandidate \/ IncreaseTerm \/ VoteForSelf
  \/ RequestVotes \/ AssignCandidate
-----------------------------------------------------------------------------
(* The event thread.                                                        *)

At(step) == event.at = step
GoOn(step) == event' = [event EXCEPT !.at = step]

\* Deviation: an exception ends the event thread.
AbortForGood == GoOn("dead")

\* RaftEventExecutor catches whatever a handler throws.
Abort == event' = EventIdle

Done == event' = EventIdle

\* getServerState waits for the monitor, then the handler of that role runs.
\* Whose vote it is and whether the candidate's log is new enough (ok), or
\* the vote was granted (ok), are kept only where a handler looks at them.
Pick(kind, t, from, ok) ==
  /\ At("idle") /\ MonitorFree
  /\ kind = "VoteRequest" <=> from # NoServer
  /\ kind \in {"AppendRequest", "AppendResponse"} => ok
  /\ kind = "VoteResponse" => asked > 0
  /\ kind = "AppendResponse" => \E id \in DOMAIN elections : elections[id].outcome = "won"
  /\ asked' = IF kind = "VoteResponse" THEN asked - 1 ELSE asked
  /\ event' = [at |-> "compare", kind |-> kind, term |-> t, from |-> from,
               ok |-> ok, as |-> role, read |-> 0]
  /\ raced' = (raced \/ timer.at # "idle")
  /\ UNCHANGED <<member, role, clock, votes, replicating, timer, ballots>>

\* updateTerm, access by access.  What a leader does with an append response
\* of its own term moves none of the state of this module.
CompareTerm ==
  /\ At("compare")
  /\ IF term < event.term THEN GoOn("adopt")
     ELSE IF event.kind = "AppendResponse" THEN Done ELSE GoOn("handle")
  /\ UNCHANGED <<member, role, clock, votes, replicating, timer, asked, history>>

AdoptTerm ==
  /\ At("adopt") /\ GoOn("clear")
  /\ term' = event.term
  /\ UNCHANGED <<votedFor, role, clock, votes, replicating, timer, asked, history>>

ClearVote ==
  /\ At("clear") /\ GoOn("fallBehind")
  /\ votedFor' = NoServer
  /\ UNCHANGED <<term, role, clock, votes, replicating, timer, asked, history>>

FallBehind ==
  /\ At("fallBehind") /\ MonitorFree
  /\ IF NothingToCancel
     THEN FailToSuspend /\ Abort /\ UNCHANGED <<role, replicating>>
     ELSE /\ Suspend("FOLLOWER") /\ GoOn("assignFollower")
          /\ role' = "FOLLOWER"
          /\ replicating' = (replicating /\ role # "LEADER")
  /\ UNCHANGED <<member, timer, asked, history>>

AssignFollower ==
  /\ At("assignFollower")
  /\ role' = "FOLLOWER"
  /\ IF event.kind = "VoteRequest" THEN GoOn("answer")
     ELSE IF event.kind = "AppendRequest" THEN GoOn("handle") ELSE Done
  /\ UNCHANGED <<member, clock, votes, replicating, timer, asked, history>>

\* The response to a vote request of a newer term gets the term of now.
AnswerNewerTerm ==
  /\ At("answer")
  /\ event' = [event EXCEPT !.at = "grant", !.read = term]
  /\ UNCHANGED <<member, role, clock, votes, replicating, timer, asked, history>>

\* The term is read, then the vote: in between a timeout may vote.
HandleVoteRequest ==
  /\ At("handle") /\ event.kind = "VoteRequest"
  /\ IF event.term < term THEN Done
     ELSE event' = [event EXCEPT !.at = "check", !.read = term]
  /\ UNCHANGED <<member, role, clock, votes, replicating, timer, asked, history>>

\* Deviation: the vote already given is not looked at.
MayGrantAnyone == event.ok

MayGrant == votedFor \in {NoServer, event.from} /\ event.ok

CheckVote ==
  /\ At("check")
  /\ IF MayGrant THEN GoOn("grant") ELSE Done
  /\ UNCHANGED <<member, role, clock, votes, replicating, timer, asked, history>>

Grant ==
  /\ At("grant") /\ Done
  /\ votedFor' = event.from
  /\ ballots' = ballots \cup {[term |-> event.read, candidate |-> event.from]}
  /\ UNCHANGED <<term, role, clock, votes, replicating, timer, asked, raced>>

\* Only the candidate's handler counts, and only if there is a VoteQuorum.
HandleVoteResponse ==
  /\ At("handle") /\ event.kind = "VoteResponse"
  /\ IF event.as = "CANDIDATE" /\ quorum # 0
     THEN event' = [event EXCEPT !.at = "merge", !.read = quorum] ELSE Done
  /\ UNCHANGED <<member, role, clock, votes, replicating, timer, asked, history>>

\* Deviation: the answers are counted, whatever they say.
CountAll(e, ok) ==
  LET yes == e.yes + (IF ok THEN 1 ELSE 0)
      no  == e.no + (IF ok THEN 0 ELSE 1)
  IN IF e.outcome # "open" THEN e
     ELSE [yes |-> yes, no |-> no,
           outcome |-> IF yes + no >= Quorum THEN "won" ELSE "open"]

\* mergeSuccess and mergeFailure; what is counted after the future has
\* completed has no effect, and is left out.
Count(e, ok) ==
  LET yes == e.yes + (IF ok THEN 1 ELSE 0)
      no  == e.no + (IF ok THEN 0 ELSE 1)
  IN IF e.outcome # "open" THEN e
     ELSE [yes |-> yes, no |-> no,
           outcome |-> IF yes >= Quorum THEN "won"
                       ELSE IF no >= Quorum THEN "lost" ELSE "open"]

Merge ==
  /\ At("merge")
  /\ LET e == elections[event.read]
         counted == Count(e, event.ok)
     IN /\ elections' = [elections EXCEPT ![event.read] = counted]
        /\ IF e.outcome = "open" /\ counted.outcome = "won"
           THEN GoOn("elected") ELSE Done
  /\ UNCHANGED <<member, role, clock, quorum, replicating, timer, asked, history>>

\* onElectAsMaster throws unless the role is still that of a candidate.
BecomeMaster ==
  /\ At("elected")
  /\ IF role = "CANDIDATE" THEN GoOn("lead") ELSE Abort
  /\ UNCHANGED <<member, role, clock, votes, replicating, timer, asked, history>>

Lead ==
  /\ At("lead") /\ MonitorFree
  /\ IF NothingToCancel
     THEN FailToSuspend /\ Abort /\ UNCHANGED <<role, replicating>>
     ELSE /\ Suspend("LEADER") /\ GoOn("assignLeader")
          /\ role' = "LEADER" /\ replicating' = TRUE
  /\ UNCHANGED <<member, timer, asked, history>>

AssignLeader ==
  /\ At("assignLeader") /\ Done
  /\ role' = "LEADER"
  /\ UNCHANGED <<member, clock, votes, replicating, timer, asked, history>>

\* doHandle of the role that was picked.  A leader exits the process, with
\* all its threads; a follower resets its timer, and reset throws if that is
\* stopped.
ExitOnAppend ==
  /\ event.as = "LEADER"
  /\ event' = [at |-> "exited"] /\ timer' = [at |-> "exited"]
  /\ UNCHANGED clock

ResetTimer ==
  /\ event.as = "FOLLOWER"
  /\ IF clock["FOLLOWER"] = "off"
     THEN Abort /\ UNCHANGED clock
     ELSE Done /\ clock' = [clock EXCEPT !["FOLLOWER"] = "armed"]
  /\ UNCHANGED timer

HandleAppendRequest ==
  /\ At("handle") /\ event.kind = "AppendRequest"
  /\ IF event.term < term \/ event.as = "CANDIDATE"
     THEN Done /\ UNCHANGED <<clock, timer>>
     ELSE ExitOnAppend \/ ResetTimer
  /\ UNCHANGED <<member, role, votes, replicating, asked, history>>

EventStep ==
  \/ CompareTerm \/ AdoptTerm \/ ClearVote \/ FallBehind \/ AssignFollower
  \/ AnswerNewerTerm \/ HandleVoteRequest \/ CheckVote \/ Grant
  \/ HandleVoteResponse \/ Merge \/ BecomeMaster \/ Lead \/ AssignLeader
  \/ HandleAppendRequest
-----------------------------------------------------------------------------
\* onException of a vote request, on a thread of the transport; once the
\* election is over it moves nothing.
FailVote ==
  /\ asked > 0 /\ ~At("exited")
  /\ asked' = asked - 1
  /\ \E id \in DOMAIN elections :
       /\ elections[id].outcome = "open"
       /\ elections' = [elections EXCEPT ![id] = Count(@, FALSE)]
  /\ UNCHANGED <<member, role, clock, quorum, replicating, event, timer, history>>

Next ==
  \/ \E r \in Timed : Fire(r)
  \/ TimerStep
  \/ \E kind \in Kind, t \in 1 .. MaxTerm, from \in Other \cup {NoServer}, ok \in BOOLEAN :
       Pick(kind, t, from, ok)
  \/ EventStep
  \/ FailVote

\* Both threads go on; nobody owes a message, and a timer may be late.
Fairness == WF_vars(EventStep) /\ WF_vars(TimerStep)

Spec == Init /\ [][Next]_vars /\ Fairness
-----------------------------------------------------------------------------
(* Properties.                                                              *)

\* The variables hold what the fields of the code can hold.
TypeOK ==
  /\ term \in Term /\ votedFor \in Other \cup {Self, NoServer}
  /\ role \in Timed \cup {"LEADER"}
  /\ clock \in [Timed -> {"off", "armed", "spent"}]
  /\ Len(elections) <= MaxElections /\ quorum \in {0} \cup DOMAIN elections
  /\ \A id \in DOMAIN elections :
       elections[id].outcome \in {"open", "won", "lost", "cancelled"}
  /\ replicating \in BOOLEAN /\ raced \in BOOLEAN
  /\ asked \in 0 .. MaxElections * Cardinality(Other)
  /\ ballots \subseteq [term : Term, candidate : Other \cup {Self}]

AtRest == event.at = "idle" /\ timer.at = "idle"

\* As long as no timeout has overlapped a handler, a server at rest is all of
\* one role: the timer, the VoteQuorum and the replicators that run are those
\* of ServerContext.state (suspect and wakeup come in pairs).
RolesInStep ==
  AtRest /\ ~raced =>
    /\ \A r \in Timed : clock[r] # "off" <=> role = r
    /\ quorum # 0 <=> role = "CANDIDATE"
    /\ replicating <=> role = "LEADER"

\* As long as no timeout has overlapped a handler, a term gets one vote, and
\* votedFor is the vote of the present term (AbstractState.handle(VoteRequest),
\* updateTerm and CandidateState.wakeup agree on it).
VotesInStep ==
  AtRest /\ ~raced =>
    /\ \A b, c \in ballots : b.term = c.term => b.candidate = c.candidate
    /\ votedFor # NoServer => [term |-> term, candidate |-> votedFor] \in ballots

\* However the threads interleave, the replicators are started only by a
\* VoteQuorum that a majority of the members has voted into success.
LeaderWasElected ==
  replicating => \E id \in DOMAIN elections : elections[id].yes >= Quorum

\* Neither the monitor of the context nor an exception ends the event thread:
\* every handler comes to its end, or to the exit of the process.
HandlersEnd == event.at # "idle" ~> event.at \in {"idle", "exited"}

\* RaftMember.term is a number that increases (RaftMember.java:16-18); the code
\* loses an increase: wakeup writes the term it has read before updateTerm
\* adopted a newer one.
TermIncreases == [][term' >= term]_vars
=============================================================================
