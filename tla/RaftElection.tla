---------------------------- MODULE RaftElection ----------------------------
(***************************************************************************)
(* Leader election of the raft-server module: the VoteRequest/VoteResponse *)
(* and AppendRequest/AppendResponse handlers of the server states           *)
(* (AbstractState, FollowerState, CandidateState, LeaderState), the        *)
(* elections they open (VoteQuorum) and the role changes (RaftState,       *)
(* ServerContext.transition).  Handlers of one server run one at a time on *)
(* its event thread, and a timeout is one step here too.  The logs do not  *)
(* change here: LastIndex is the index of every server's last entry.       *)
(***************************************************************************)
EXTENDS Integers, FiniteSets

CONSTANTS
  Server,     \* the members every server is configured with
  NoServer,   \* the Java null of votedFor and master
  LastIndex,  \* LastIndex[s]: index of the last log entry of s, 0 if none
  MaxTerm,       \* bound: no server opens an election beyond this term
  MaxElections,  \* bound: elections opened in all
  MaxAppends     \* bound: messages of the replicators in flight

\* With one or two members the quorum is 1 and the future of the election is
\* completed inside wakeup(), before the server is a candidate.
ASSUME ServerAssumption == /\ IsFiniteSet(Server)
                           /\ Cardinality(Server) >= 3
                           /\ NoServer \notin Server
ASSUME LogAssumption    == LastIndex \in [Server -> Nat]
ASSUME BoundAssumption  == {MaxTerm, MaxElections, MaxAppends} \subseteq Nat

VARIABLES
  term,        \* RaftMember.term
  votedFor,    \* RaftMember.votedFor
  state,       \* ServerContext.state; EXITED after System.exit
  voteQuorum,  \* RaftMemberState.voteQuorum of the server itself
  master,      \* RaftClusterImpl.master
  sending,     \* <<s, d>>: the replicator of s to d is past its stopped check
  net,         \* requests and responses in flight
  ballots,     \* history: [voter, term, candidate] of every vote given
  elected      \* history: [leader, term, fresh] of every election won

vars == <<term, votedFor, state, voteQuorum, master, sending, net, ballots,
          elected>>

RaftState  == {"FOLLOWER", "CANDIDATE", "LEADER"}
Term       == 0 .. MaxTerm
Quorum     == (Cardinality(Server) + 1) \div 2
Others(s)  == Server \ {s}
Opened     == {b \in ballots : b.voter = b.candidate}
Appends    == {m \in net : m.type \in {"AppendRequest", "AppendResponse"}}
-----------------------------------------------------------------------------
(* Elections.  yes and no are the two counters of a VoteQuorum; fresh is a *)
(* ghost: the voters whose vote was given in the term of the election.     *)

Election == [yes : Nat, no : Nat, fresh : SUBSET Server]

NoElection == [yes |-> 0, no |-> 0, fresh |-> {}]

\* The candidate merges its own success before any request is sent.
OpenElection(s, unreachable) ==
  [yes |-> 1, no |-> Cardinality(unreachable), fresh |-> {s}]

\* mergeSuccess by a response of voter v given in term t.
MergeSuccess(s, v, t) ==
  [voteQuorum[s] EXCEPT !.yes   = @ + 1,
                        !.fresh = IF t = term[s] THEN @ \cup {v} ELSE @]

\* Deviation: the failure counter is the success counter.
MergeFailureAsSuccess(s) == [voteQuorum[s] EXCEPT !.yes = @ + 1]

MergeFailure(s) == [voteQuorum[s] EXCEPT !.no = @ + 1]

\* The future completes once: with true only if not already false.
Wins(q) == q.yes >= Quorum /\ q.no < Quorum
-----------------------------------------------------------------------------
(* Messages.  A vote request is awaited until its sender's response        *)
(* handler ran; of is the term of the election a response belongs to.      *)

VoteRequest(s, d, t) ==
  [type |-> "VoteRequest", from |-> s, to |-> d, term |-> t,
   last |-> LastIndex[s], awaited |-> TRUE]

VoteResponse(m, t, granted) ==
  [type |-> "VoteResponse", from |-> m.to, to |-> m.from, term |-> t,
   granted |-> granted, of |-> m.term]

AppendRequest(s, d) ==
  [type |-> "AppendRequest", from |-> s, to |-> d, term |-> term[s]]

AppendResponse(m, t) ==
  [type |-> "AppendResponse", from |-> m.to, to |-> m.from, term |-> t]

AnswerVote(m, t, granted) ==
  net' = (net \ {m}) \cup
         (IF m.awaited THEN {VoteResponse(m, t, granted)} ELSE {})

Receives(m, type) == m.type = type /\ state[m.to] # "EXITED"
-----------------------------------------------------------------------------
Init ==
  /\ term = [s \in Server |-> 0]
  /\ votedFor = [s \in Server |-> NoServer]
  /\ state = [s \in Server |-> "FOLLOWER"]
  /\ voteQuorum = [s \in Server |-> NoElection]
  /\ master = [s \in Server |-> NoServer]
  /\ sending = {}
  /\ net = {}
  /\ ballots = {}
  /\ elected = {}

\* Deviation: the term adopted is one beyond the message's.
FallBehindTooFar(s, t, vote) ==
  /\ term' = [term EXCEPT ![s] = t + 1]
  /\ votedFor' = [votedFor EXCEPT ![s] = vote]
  /\ state' = [state EXCEPT ![s] = "FOLLOWER"]
  /\ voteQuorum' = [voteQuorum EXCEPT ![s] = NoElection]

\* updateTerm with a newer term, then onFallBehind: the old role is
\* suspended (its election cancelled) and the server follows.
FallBehind(s, t, vote) ==
  /\ term' = [term EXCEPT ![s] = t]
  /\ votedFor' = [votedFor EXCEPT ![s] = vote]
  /\ state' = [state EXCEPT ![s] = "FOLLOWER"]
  /\ voteQuorum' = [voteQuorum EXCEPT ![s] = NoElection]

\* Deviation: the candidate forgets to vote for itself.
BecomeCandidateWithoutVote(s) ==
  \E unreachable \in SUBSET Others(s) :
    /\ term[s] < MaxTerm /\ Cardinality(Opened) < MaxElections
    /\ term' = [term EXCEPT ![s] = @ + 1]
    /\ state' = [state EXCEPT ![s] = "CANDIDATE"]
    /\ voteQuorum' = [voteQuorum EXCEPT ![s] = OpenElection(s, unreachable)]
    /\ net' = net \cup
              {VoteRequest(s, d, term[s] + 1) : d \in Others(s) \ unreachable}
    /\ ballots' = ballots \cup
                    {[voter |-> s, term |-> term[s] + 1, candidate |-> s]}
    /\ UNCHANGED <<votedFor, master, sending, elected>>

\* CandidateState.wakeup and requestVotes; a member without a connection
\* counts as a failure at once.
BecomeCandidate(s) ==
  \E unreachable \in SUBSET Others(s) :
    /\ term[s] < MaxTerm /\ Cardinality(Opened) < MaxElections
    /\ term' = [term EXCEPT ![s] = @ + 1]
    /\ votedFor' = [votedFor EXCEPT ![s] = s]
    /\ state' = [state EXCEPT ![s] = "CANDIDATE"]
    /\ voteQuorum' = [voteQuorum EXCEPT ![s] = OpenElection(s, unreachable)]
    /\ net' = net \cup
              {VoteRequest(s, d, term[s] + 1) : d \in Others(s) \ unreachable}
    /\ ballots' = ballots \cup
                    {[voter |-> s, term |-> term[s] + 1, candidate |-> s]}
    /\ UNCHANGED <<master, sending, elected>>

HeartbeatTimeout(s) == state[s] = "FOLLOWER" /\ BecomeCandidate(s)

ElectTimeout(s) == state[s] = "CANDIDATE" /\ BecomeCandidate(s)

\* A newer term wins the vote at once: neither the log nor the quorum is
\* looked at, and nothing is persisted.
VoteInNewerTerm(m) ==
  LET s == m.to IN
  /\ Receives(m, "VoteRequest")
  /\ m.term > term[s]
  /\ FallBehind(s, m.term, m.from)
  /\ AnswerVote(m, m.term, TRUE)
  /\ ballots' = ballots \cup
                  {[voter |-> s, term |-> m.term, candidate |-> m.from]}
  /\ UNCHANGED <<master, sending, elected>>

\* Deviation: the vote already given in this term is not looked at.
MayGrantAnyone(m) ==
  /\ m.term = term[m.to]
  /\ m.last >= LastIndex[m.to]

MayGrant(m) ==
  /\ m.term = term[m.to]
  /\ votedFor[m.to] \in {NoServer, m.from}
  /\ m.last >= LastIndex[m.to]

VoteInOwnTerm(m) ==
  LET s == m.to IN
  /\ Receives(m, "VoteRequest")
  /\ m.term <= term[s]
  /\ AnswerVote(m, term[s], MayGrant(m))
  /\ IF MayGrant(m)
     THEN /\ votedFor' = [votedFor EXCEPT ![s] = m.from]
          /\ ballots' = ballots \cup
                          {[voter |-> s, term |-> m.term, candidate |-> m.from]}
     ELSE UNCHANGED <<votedFor, ballots>>
  /\ UNCHANGED <<term, state, voteQuorum, master, sending, elected>>

\* onElectAsMaster: the election is cleared and the replicators start.
BecomeLeader(s, q) ==
  /\ state' = [state EXCEPT ![s] = "LEADER"]
  /\ voteQuorum' = [voteQuorum EXCEPT ![s] = NoElection]
  /\ elected' = elected \cup
                  {[leader |-> s, term |-> term[s], fresh |-> q.fresh]}

Merge(s, q) ==
  /\ IF Wins(q)
     THEN BecomeLeader(s, q)
     ELSE /\ voteQuorum' = [voteQuorum EXCEPT ![s] = q]
          /\ UNCHANGED <<state, elected>>
  /\ UNCHANGED <<term, votedFor>>

\* CandidateState.handle(VoteResponse).  The term of a granted response is
\* compared with the candidate's only to find out whether it is newer.
CountVote(m) ==
  LET s == m.to IN
  /\ Receives(m, "VoteResponse")
  /\ state[s] = "CANDIDATE"
  /\ m.term <= term[s]
  /\ Merge(s, IF m.granted THEN MergeSuccess(s, m.from, m.term)
                           ELSE MergeFailure(s))
  /\ net' = net \ {m}
  /\ UNCHANGED <<master, sending, ballots>>

\* AbstractState.handle(VoteResponse) and handle(AppendResponse): a
\* response only moves a server that is behind.
LearnTerm(m) ==
  LET s == m.to IN
  /\ m.type \in {"VoteResponse", "AppendResponse"}
  /\ state[s] # "EXITED"
  /\ \/ m.term > term[s] /\ FallBehind(s, m.term, NoServer)
     \/ /\ m.term <= term[s]
        /\ m.type = "VoteResponse" => state[s] # "CANDIDATE"
        /\ UNCHANGED <<term, votedFor, state, voteQuorum>>
  /\ net' = net \ {m}
  /\ UNCHANGED <<master, sending, ballots, elected>>

\* onException of a vote request: the failure goes to the election the
\* request belongs to.  The request may still be delivered, a response is
\* thrown away.  When that election is over already the timeout only makes
\* sure that no response arrives, which no message in net has to.
VoteTimeout(m) ==
  LET request == m.type = "VoteRequest"
      owner   == IF request THEN m.from ELSE m.to
  IN
  /\ \/ request /\ m.awaited /\ term[owner] = m.term
     \/ m.type = "VoteResponse" /\ term[owner] = m.of
  /\ state[owner] = "CANDIDATE"
  /\ Merge(owner, MergeFailure(owner))
  /\ net' = (net \ {m}) \cup
            (IF request THEN {[m EXCEPT !.awaited = FALSE]} ELSE {})
  /\ UNCHANGED <<master, sending, ballots>>

\* Deviation: the replicators of a server run whatever its role.
StartReplicateInAnyRole(s, d) ==
  /\ state[s] # "EXITED" /\ <<s, d>> \notin sending
  /\ Cardinality(Appends) + Cardinality(sending) < MaxAppends
  /\ sending' = sending \cup {<<s, d>>}
  /\ UNCHANGED <<term, votedFor, state, voteQuorum, master, net, ballots,
                 elected>>

\* ReplicateTask.execute and Replicator.replicateTo, as a heartbeat: with
\* nothing to send the replicator sleeps before it builds its request, so
\* the term in it is the term of a server that may not lead any more.
StartReplicate(s, d) ==
  /\ state[s] = "LEADER" /\ <<s, d>> \notin sending
  /\ Cardinality(Appends) + Cardinality(sending) < MaxAppends
  /\ sending' = sending \cup {<<s, d>>}
  /\ UNCHANGED <<term, votedFor, state, voteQuorum, master, net, ballots,
                 elected>>

SendAppend(s, d) ==
  /\ <<s, d>> \in sending /\ state[s] # "EXITED"
  /\ sending' = sending \ {<<s, d>>}
  /\ net' = net \cup {AppendRequest(s, d)}
  /\ UNCHANGED <<term, votedFor, state, voteQuorum, master, ballots, elected>>

\* A request or a response of the replicators is lost or times out.
AppendLost(m) ==
  /\ m.type \in {"AppendRequest", "AppendResponse"}
  /\ net' = net \ {m}
  /\ UNCHANGED <<term, votedFor, state, voteQuorum, master, sending, ballots,
                 elected>>

RefuseAppend(m) ==
  /\ Receives(m, "AppendRequest")
  /\ m.term < term[m.to]
  /\ net' = (net \ {m}) \cup {AppendResponse(m, term[m.to])}
  /\ UNCHANGED <<term, votedFor, state, voteQuorum, master, sending, ballots,
                 elected>>

\* AbstractState.handle(AppendRequest) of a follower or a candidate: doHandle
\* is that of the role the request found, so only a follower learns who the
\* master is, and a candidate of the same term stays candidate.
AcceptAppend(m) ==
  LET s == m.to IN
  /\ Receives(m, "AppendRequest")
  /\ m.term >= term[s]
  /\ state[s] # "LEADER"
  /\ IF m.term > term[s]
     THEN FallBehind(s, m.term, NoServer)
     ELSE UNCHANGED <<term, votedFor, state, voteQuorum>>
  /\ master' = IF state[s] = "FOLLOWER" THEN [master EXCEPT ![s] = m.from]
                                        ELSE master
  /\ net' = (net \ {m}) \cup {AppendResponse(m, m.term)}
  /\ UNCHANGED <<sending, ballots, elected>>

\* The same for a leader: after updateTerm, LeaderState.doHandle exits.
ExitOnAppend(m) ==
  LET s == m.to IN
  /\ Receives(m, "AppendRequest")
  /\ m.term >= term[s]
  /\ state[s] = "LEADER"
  /\ term' = [term EXCEPT ![s] = m.term]
  /\ votedFor' = [votedFor EXCEPT ![s] = IF m.term > term[s] THEN NoServer ELSE @]
  /\ state' = [state EXCEPT ![s] = "EXITED"]
  /\ net' = net \ {m}
  /\ UNCHANGED <<voteQuorum, master, sending, ballots, elected>>

Timeout(s) == HeartbeatTimeout(s) \/ ElectTimeout(s)

Deliver(m) ==
  \/ VoteInNewerTerm(m)
  \/ VoteInOwnTerm(m)
  \/ CountVote(m)
  \/ LearnTerm(m)
  \/ RefuseAppend(m)
  \/ AcceptAppend(m)
  \/ ExitOnAppend(m)

Next ==
  \/ \E s \in Server : Timeout(s)
  \/ \E s \in Server : \E d \in Others(s) : StartReplicate(s, d) \/ SendAppend(s, d)
  \/ \E m \in net : Deliver(m) \/ VoteTimeout(m) \/ AppendLost(m)

Spec == Init /\ [][Next]_vars
-----------------------------------------------------------------------------
VoteRequests ==
  [type : {"VoteRequest"}, from : Server, to : Server, term : Term,
   last : Nat, awaited : BOOLEAN]

VoteResponses ==
  [type : {"VoteResponse"}, from : Server, to : Server, term : Term,
   granted : BOOLEAN, of : Term]

AppendMessages ==
  [type : {"AppendRequest", "AppendResponse"}, from : Server, to : Server,
   term : Term]

Message == VoteRequests \cup VoteResponses \cup AppendMessages

\* The type of every variable.  Terms stay below the bound because a server
\* only adopts terms another server has opened.
TypeOK ==
  /\ term \in [Server -> Term]
  /\ votedFor \in [Server -> Server \cup {NoServer}]
  /\ state \in [Server -> RaftState \cup {"EXITED"}]
  /\ voteQuorum \in [Server -> Election]
  /\ master \in [Server -> Server \cup {NoServer}]
  /\ sending \subseteq Server \X Server
  /\ net \subseteq Message
  /\ ballots \subseteq [voter : Server, term : Term, candidate : Server]
  /\ elected \subseteq [leader : Server, term : Term, fresh : SUBSET Server]

Ballots == INSTANCE Voting
  WITH term <- term, votedFor <- votedFor, ballots <- ballots, Term <- Term

\* Votes are given as Voting says: terms never go back, and a vote given in
\* a term is kept for that term (AbstractState.handle(VoteRequest),
\* updateTerm and CandidateState.wakeup between them).
ImplementsVoting == Ballots!Spec

OneVotePerTerm == Ballots!OneVotePerTerm

\* Two servers that both won one term with a quorum of votes given in that
\* term are the same server.  The votes CandidateState counts for an
\* election without being given in it are why this is all that holds.
FreshElectionSafety ==
  \A x, y \in elected :
    /\ x.term = y.term
    /\ Cardinality(x.fresh) >= Quorum /\ Cardinality(y.fresh) >= Quorum
    => x.leader = y.leader

\* What may count for a win: the ballots of others for the winner, of its term
\* or an older one, and its own ballot of that term.
BallotsFor(e) ==
  {b \in ballots : /\ b.candidate = e.leader /\ b.term <= e.term
                   /\ b.voter = e.leader => b.term = e.term}

\* A win is backed by as many distinct ballots as a majority has members: no
\* refusal or timeout counts as a vote, no ballot counts twice, and the own
\* ballots of earlier elections do not count (CandidateState.handle(VoteResponse)
\* and VoteTaskQuorum).  Somebody who voted for the winner in two terms may
\* count once for each of them: the code does not ask which election a granted
\* response is of.
WinIsBacked ==
  \A e \in elected : 2 * Cardinality(BallotsFor(e)) > Cardinality(Server)

\* A server only takes for master (setMaster in FollowerState.doHandle) one
\* that has won an election in its own term or an older one.
MasterWasElected ==
  \A s \in Server :
    master[s] # NoServer =>
      \E e \in elected : e.leader = master[s] /\ e.term <= term[s]

\* At most one leader per term: LeaderState.doHandle takes an append request
\* of another leader in its own term for a bug.
ElectionSafety ==
  \A x, y \in elected : x.term = y.term => x.leader = y.leader
=============================================================================
