------------------------- MODULE RaftElectionProofs -------------------------
(***************************************************************************)
(* RaftElection is type correct, implements Voting and, in a cluster of    *)
(* odd size, elects at most one leader per term with votes of that term,   *)
(* each with a majority of ballots; whom a server calls master has won.    *)
(***************************************************************************)
EXTENDS RaftElection, FiniteSetTheorems, TLAPS

RolesOK ==
  /\ term \in [Server -> Term]
  /\ votedFor \in [Server -> Server \cup {NoServer}]
  /\ state \in [Server -> RaftState \cup {"EXITED"}]
  /\ voteQuorum \in [Server -> Election]

LEMMA NoElectionType == NoElection \in Election
  BY DEF NoElection, Election

LEMMA MessageFields ==
  ASSUME net \subseteq Message, NEW m \in net
  PROVE  /\ m.from \in Server /\ m.to \in Server /\ m.term \in Term
         /\ m.type = "VoteRequest" => m \in VoteRequests
         /\ m.type = "VoteResponse" => m \in VoteResponses
  BY DEF Message, VoteRequests, VoteResponses, AppendMessages

LEMMA FallBehindType ==
  ASSUME RolesOK, NEW s \in Server, NEW t \in Term,
         NEW v \in Server \cup {NoServer}, FallBehind(s, t, v)
  PROVE  RolesOK'
  BY NoElectionType DEF RolesOK, FallBehind, RaftState

LEMMA AnswerVoteType ==
  ASSUME net \subseteq Message, NEW m \in net, m.type = "VoteRequest",
         NEW t \in Term, NEW g \in BOOLEAN, AnswerVote(m, t, g)
  PROVE  net' \subseteq Message
<1>1. m \in VoteRequests
  BY MessageFields
<1>2. VoteResponse(m, t, g) \in VoteResponses
  BY <1>1 DEF VoteResponse, VoteResponses, VoteRequests
<1> QED BY <1>2 DEF AnswerVote, Message

LEMMA MergeType ==
  ASSUME TypeOK, NEW s \in Server, NEW q \in Election, Merge(s, q)
  PROVE  RolesOK' /\ elected' \subseteq
           [leader : Server, term : Term, fresh : SUBSET Server]
<1>1. CASE Wins(q)
  <2>1. RolesOK'
    BY <1>1, NoElectionType DEF TypeOK, RolesOK, Merge, BecomeLeader, RaftState
  <2>2. term[s] \in Term /\ q.fresh \in SUBSET Server
    BY DEF TypeOK, Election
  <2> QED BY <1>1, <2>1, <2>2 DEF TypeOK, Merge, BecomeLeader
<1>2. CASE ~Wins(q)
  BY <1>2 DEF TypeOK, RolesOK, Merge
<1> QED BY <1>1, <1>2

LEMMA MergeSuccessType ==
  ASSUME TypeOK, NEW s \in Server, NEW v \in Server, NEW t \in Term
  PROVE  MergeSuccess(s, v, t) \in Election
<1> DEFINE q == voteQuorum[s]
           f == IF t = term[s] THEN q.fresh \cup {v} ELSE q.fresh
<1>1. q \in Election /\ q.yes + 1 \in Nat /\ f \in SUBSET Server
  BY DEF TypeOK, Election
<1>2. MergeSuccess(s, v, t) = [q EXCEPT !.yes = q.yes + 1, !.fresh = f]
  BY DEF MergeSuccess
<1> HIDE DEF q, f
<1> QED BY <1>1, <1>2 DEF Election

LEMMA MergeFailureType ==
  ASSUME TypeOK, NEW s \in Server
  PROVE  MergeFailure(s) \in Election
  BY voteQuorum[s] \in Election DEF TypeOK, MergeFailure, Election

LEMMA TypeInit == Init => TypeOK
  BY BoundAssumption, NoElectionType DEF Init, TypeOK, Term, RaftState

LEMMA RolesType == TypeOK => RolesOK
  BY DEF TypeOK, RolesOK

\* The bounds the run gives the terms are kept by every message.
LEMMA TermFacts ==
  ASSUME TypeOK, NEW s \in Server
  PROVE  /\ term[s] \in Term /\ term[s] \in Nat
         /\ \A t \in Term : t \in Nat
  BY BoundAssumption DEF TypeOK, Term

LEMMA BallotType ==
  ASSUME TypeOK, NEW s \in Server, NEW t \in Term, NEW c \in Server,
         ballots' = ballots \cup {[voter |-> s, term |-> t, candidate |-> c]}
  PROVE  ballots' \subseteq [voter : Server, term : Term, candidate : Server]
  BY DEF TypeOK

LEMMA CandidateType ==
  ASSUME TypeOK, NEW s \in Server, BecomeCandidate(s)
  PROVE  TypeOK'
<1> PICK unreachable \in SUBSET Others(s) :
      /\ term[s] < MaxTerm /\ Cardinality(Opened) < MaxElections
      /\ term' = [term EXCEPT ![s] = @ + 1]
      /\ votedFor' = [votedFor EXCEPT ![s] = s]
      /\ state' = [state EXCEPT ![s] = "CANDIDATE"]
      /\ voteQuorum' = [voteQuorum EXCEPT ![s] = OpenElection(s, unreachable)]
      /\ net' = net \cup
                {VoteRequest(s, d, term[s] + 1) : d \in Others(s) \ unreachable}
      /\ ballots' = ballots \cup
                      {[voter |-> s, term |-> term[s] + 1, candidate |-> s]}
      /\ UNCHANGED <<master, sending, elected>>
  BY DEF BecomeCandidate
<1>1. term[s] + 1 \in Term
  BY TermFacts, BoundAssumption DEF Term
<1>2. OpenElection(s, unreachable) \in Election
  <2>1. Cardinality(unreachable) \in Nat
    BY ServerAssumption, FS_Subset, FS_CardinalityType DEF Others
  <2> QED BY <2>1 DEF OpenElection, Election
<1>3. \A d \in Others(s) : VoteRequest(s, d, term[s] + 1) \in Message
  BY <1>1, LogAssumption DEF VoteRequest, Message, VoteRequests, Others
<1>4. net' \subseteq Message
  BY <1>3 DEF TypeOK
<1>5. RolesOK'
  BY <1>1, <1>2 DEF TypeOK, RolesOK, RaftState
<1> QED BY <1>1, <1>4, <1>5, BallotType DEF TypeOK, RolesOK

LEMMA TypeStep == TypeOK /\ [Next]_vars => TypeOK'
<1> SUFFICES ASSUME TypeOK, [Next]_vars PROVE TypeOK'
  OBVIOUS
<1>0. RolesOK /\ net \subseteq Message
  BY DEF TypeOK, RolesOK
<1>1. ASSUME NEW s \in Server, Timeout(s) PROVE TypeOK'
  BY <1>1, CandidateType DEF Timeout, HeartbeatTimeout, ElectTimeout
<1>2. ASSUME NEW s \in Server, NEW d \in Others(s), StartReplicate(s, d)
      PROVE  TypeOK'
  BY <1>2 DEF StartReplicate, TypeOK, Others
<1>3. ASSUME NEW s \in Server, NEW d \in Others(s), SendAppend(s, d)
      PROVE  TypeOK'
  <2>1. AppendRequest(s, d) \in Message
    BY <1>3 DEF TypeOK, AppendRequest, Message, AppendMessages, Others
  <2> QED BY <1>3, <2>1 DEF SendAppend, TypeOK
<1>4. ASSUME NEW m \in net, VoteInNewerTerm(m) PROVE TypeOK'
  <2>1. m.from \in Server /\ m.to \in Server /\ m.term \in Term
    BY <1>0, MessageFields
  <2>2. RolesOK'
    BY <1>0, <1>4, <2>1, FallBehindType DEF VoteInNewerTerm
  <2>3. net' \subseteq Message
    BY <1>0, <1>4, <2>1, AnswerVoteType DEF VoteInNewerTerm, Receives
  <2>4. ballots' \subseteq [voter : Server, term : Term, candidate : Server]
    BY <1>4, <2>1, BallotType DEF VoteInNewerTerm
  <2> QED BY <1>4, <2>2, <2>3, <2>4 DEF VoteInNewerTerm, TypeOK, RolesOK
<1>5. ASSUME NEW m \in net, VoteInOwnTerm(m) PROVE TypeOK'
  <2>1. m.from \in Server /\ m.to \in Server /\ m.term \in Term
    BY <1>0, MessageFields
  <2>2. net' \subseteq Message
    <3>1. MayGrant(m) \in BOOLEAN
      BY DEF MayGrant
    <3>2. term[m.to] \in Term
      BY <2>1, TermFacts
    <3> QED BY <1>0, <1>5, <3>1, <3>2, AnswerVoteType DEF VoteInOwnTerm, Receives
  <2>3. votedFor' \in [Server -> Server \cup {NoServer}]
    BY <1>5, <2>1 DEF VoteInOwnTerm, TypeOK
  <2>4. ballots' \subseteq [voter : Server, term : Term, candidate : Server]
    <3>1. CASE MayGrant(m)
      BY <1>5, <2>1, <3>1, BallotType DEF VoteInOwnTerm
    <3>2. CASE ~MayGrant(m)
      BY <1>5, <3>2 DEF VoteInOwnTerm, TypeOK
    <3> QED BY <3>1, <3>2
  <2> QED BY <1>5, <2>2, <2>3, <2>4 DEF VoteInOwnTerm, TypeOK
<1>6. ASSUME NEW m \in net, CountVote(m) PROVE TypeOK'
  <2>1. m.from \in Server /\ m.to \in Server /\ m.term \in Term
    BY <1>0, MessageFields
  <2> DEFINE q == IF m.granted THEN MergeSuccess(m.to, m.from, m.term)
                               ELSE MergeFailure(m.to)
  <2>2. q \in Election
    BY <2>1, MergeSuccessType, MergeFailureType
  <2>3. Merge(m.to, q)
    BY <1>6 DEF CountVote
  <2> HIDE DEF q
  <2>4. RolesOK' /\ elected' \subseteq
          [leader : Server, term : Term, fresh : SUBSET Server]
    BY <2>1, <2>2, <2>3, MergeType
  <2> QED BY <1>6, <2>4 DEF CountVote, TypeOK, RolesOK
<1>7. ASSUME NEW m \in net, LearnTerm(m) PROVE TypeOK'
  <2>1. m.from \in Server /\ m.to \in Server /\ m.term \in Term
    BY <1>0, MessageFields
  <2>2. RolesOK'
    <3>1. CASE FallBehind(m.to, m.term, NoServer)
      BY <1>0, <2>1, <3>1, FallBehindType
    <3>2. CASE UNCHANGED <<term, votedFor, state, voteQuorum>>
      BY <1>0, <3>2 DEF RolesOK
    <3> QED BY <1>7, <3>1, <3>2 DEF LearnTerm
  <2> QED BY <1>7, <2>2 DEF LearnTerm, TypeOK, RolesOK
<1>8. ASSUME NEW m \in net, VoteTimeout(m) PROVE TypeOK'
  <2> DEFINE c == IF m.type = "VoteRequest" THEN m.from ELSE m.to
  <2>1. c \in Server
    BY <1>0, MessageFields
  <2>2. MergeFailure(c) \in Election
    BY <2>1, MergeFailureType
  <2>3. Merge(c, MergeFailure(c))
    BY <1>8 DEF VoteTimeout
  <2>4. RolesOK' /\ elected' \subseteq
          [leader : Server, term : Term, fresh : SUBSET Server]
    BY <2>1, <2>2, <2>3, MergeType
  <2>5. net' \subseteq Message
    <3>1. CASE m.type = "VoteRequest"
      <4>1. m \in VoteRequests
        BY <1>0, <3>1, MessageFields
      <4>2. [m EXCEPT !.awaited = FALSE] \in Message
        BY <4>1 DEF VoteRequests, Message
      <4> QED BY <1>0, <1>8, <4>2 DEF VoteTimeout
    <3>2. CASE m.type # "VoteRequest"
      BY <1>0, <1>8, <3>2 DEF VoteTimeout
    <3> QED BY <3>1, <3>2
  <2> QED BY <1>8, <2>4, <2>5 DEF VoteTimeout, TypeOK, RolesOK
<1>9. ASSUME NEW m \in net, AppendLost(m) PROVE TypeOK'
  BY <1>9 DEF AppendLost, TypeOK
<1>10. ASSUME NEW m \in net, NEW t \in Term
       PROVE  AppendResponse(m, t) \in Message
  <2>1. m.from \in Server /\ m.to \in Server
    BY <1>0, MessageFields
  <2> QED BY <2>1 DEF AppendResponse, Message, AppendMessages
<1>11. ASSUME NEW m \in net, RefuseAppend(m) PROVE TypeOK'
  <2>1. term[m.to] \in Term
    BY <1>0, MessageFields, TermFacts
  <2> QED BY <1>10, <1>11, <2>1 DEF RefuseAppend, TypeOK
<1>12. ASSUME NEW m \in net, AcceptAppend(m) PROVE TypeOK'
  <2>1. m.from \in Server /\ m.to \in Server /\ m.term \in Term
    BY <1>0, MessageFields
  <2>2. RolesOK'
    <3>1. CASE FallBehind(m.to, m.term, NoServer)
      BY <1>0, <2>1, <3>1, FallBehindType
    <3>2. CASE UNCHANGED <<term, votedFor, state, voteQuorum>>
      BY <1>0, <3>2 DEF RolesOK
    <3> QED BY <1>12, <3>1, <3>2 DEF AcceptAppend
  <2>3. net' \subseteq Message
    BY <1>0, <1>10, <1>12, <2>1 DEF AcceptAppend
  <2>4. master' \in [Server -> Server \cup {NoServer}]
    BY <1>12, <2>1 DEF AcceptAppend, TypeOK
  <2> QED BY <1>12, <2>2, <2>3, <2>4 DEF AcceptAppend, TypeOK, RolesOK
<1>13. ASSUME NEW m \in net, ExitOnAppend(m) PROVE TypeOK'
  <2>1. m.from \in Server /\ m.to \in Server /\ m.term \in Term
    BY <1>0, MessageFields
  <2> QED BY <1>13, <2>1 DEF ExitOnAppend, TypeOK
<1>14. CASE UNCHANGED vars
  BY <1>14 DEF vars, TypeOK
<1> QED BY <1>1, <1>2, <1>3, <1>4, <1>5, <1>6, <1>7, <1>8, <1>9, <1>11, <1>12,
           <1>13, <1>14 DEF Next, Deliver

\* Every variable keeps its type, and every term stays within the bound.
THEOREM TypeCorrect == Spec => []TypeOK
  BY TypeInit, TypeStep, PTL DEF Spec
-----------------------------------------------------------------------------
(* Voting: one vote of a server in a term, whatever the messages do.        *)

LEMMA Constants == Ballots!VotingConstants
  BY ServerAssumption, BoundAssumption DEF Ballots!VotingConstants, Term

VotesTyped ==
  /\ term \in [Server -> Term]
  /\ votedFor \in [Server -> Server \cup {NoServer}]
  /\ ballots \subseteq Ballots!Ballot

\* Every ballot lies in the voter's past or is the vote it holds now.
Kept(b) ==
  /\ b.term <= term[b.voter]
  /\ b.term = term[b.voter] => votedFor[b.voter] = b.candidate

BallotsKept == \A b \in ballots : Kept(b)

VotesInv == VotesTyped /\ BallotsKept /\ Ballots!OneVotePerTerm

LEMMA VotingInit ==
  ASSUME Ballots!Init PROVE VotesInv
  BY Constants DEF Ballots!VotingConstants, Ballots!Init, VotesInv, VotesTyped,
     BallotsKept, Ballots!OneVotePerTerm

\* The fields of a ballot and the term of its voter.
LEMMA BallotFields ==
  ASSUME VotesTyped, NEW b \in ballots
  PROVE  /\ b.voter \in Server /\ b.candidate \in Server
         /\ b.term \in Nat /\ term[b.voter] \in Nat
  BY Constants DEF Ballots!VotingConstants, VotesTyped, Ballots!Ballot

\* A ballot stays kept when its voter moves to a newer term.
LEMMA KeptAhead ==
  ASSUME VotesTyped, NEW b \in ballots, Kept(b),
         NEW s \in Server, NEW t \in Term, NEW v \in Server \cup {NoServer},
         t > term[s],
         term' = [term EXCEPT ![s] = t], votedFor' = [votedFor EXCEPT ![s] = v]
  PROVE  Kept(b)'
<1>1. /\ b.voter \in Server /\ b.term \in Nat
      /\ term[b.voter] \in Nat /\ t \in Nat
  BY Constants, BallotFields DEF Ballots!VotingConstants
<1>2. b.term <= term[b.voter]
  BY DEF Kept
<1>3. CASE b.voter = s
  <2>1. term'[b.voter] = t
    BY <1>1, <1>3 DEF VotesTyped
  <2> QED BY <1>1, <1>2, <1>3, <2>1 DEF Kept
<1>4. CASE b.voter # s
  <2>1. term'[b.voter] = term[b.voter] /\ votedFor'[b.voter] = votedFor[b.voter]
    BY <1>1, <1>4 DEF VotesTyped
  <2> QED BY <2>1 DEF Kept
<1> QED BY <1>3, <1>4

\* A ballot equal to its voter's vote in the voter's current term, or beyond
\* every ballot of that voter, adds no second vote.
LEMMA NoSecondVote ==
  ASSUME VotesTyped, BallotsKept, Ballots!OneVotePerTerm,
         NEW s \in Server, NEW t \in Term, NEW c \in Server,
         t > term[s] \/ (t = term[s] /\ votedFor[s] \in {NoServer, c}),
         ballots' = ballots \cup {[voter |-> s, term |-> t, candidate |-> c]}
  PROVE  Ballots!OneVotePerTerm'
<1> DEFINE new == [voter |-> s, term |-> t, candidate |-> c]
<1>1. ASSUME NEW b \in ballots, b.voter = s, b.term = t PROVE b.candidate = c
  <2>1. b.term \in Nat /\ term[s] \in Nat /\ t \in Nat /\ b.candidate \in Server
    BY Constants, <1>1, BallotFields DEF Ballots!VotingConstants
  <2>2. b.term <= term[s] /\ (b.term = term[s] => votedFor[s] = b.candidate)
    BY <1>1 DEF BallotsKept, Kept
  <2>3. t = term[s] /\ votedFor[s] \in {NoServer, c}
    BY Constants, <1>1, <2>1, <2>2
  <2> QED BY Constants, <1>1, <2>1, <2>2, <2>3 DEF Ballots!VotingConstants
<1>2. SUFFICES ASSUME NEW x \in ballots', NEW y \in ballots',
                      x.voter = y.voter, x.term = y.term
               PROVE  x.candidate = y.candidate
  BY DEF Ballots!OneVotePerTerm
<1>3. x \in ballots \/ x = new
  OBVIOUS
<1>4. y \in ballots \/ y = new
  OBVIOUS
<1>5. new.voter = s /\ new.term = t /\ new.candidate = c
  OBVIOUS
<1>6. CASE x \in ballots /\ y \in ballots
  BY <1>2, <1>6 DEF Ballots!OneVotePerTerm
<1> QED BY <1>1, <1>2, <1>3, <1>4, <1>5, <1>6

\* Each of the three steps keeps every old ballot in the voter's past or
\* equal to its vote, and the one it adds is the vote it leaves behind.
LEMMA VotingStep ==
  ASSUME VotesInv, [Ballots!Next]_Ballots!vars PROVE VotesInv'
<1>0. VotesTyped /\ BallotsKept /\ Ballots!OneVotePerTerm
  BY DEF VotesInv
<1>1. ASSUME NEW s \in Server, NEW t \in Term, Ballots!Abstain(s, t)
      PROVE  VotesInv'
  <2>1. VotesTyped'
    BY <1>0, <1>1 DEF Ballots!Abstain, VotesTyped
  <2>2. \A b \in ballots : Kept(b)'
    BY <1>0, <1>1, KeptAhead DEF Ballots!Abstain, BallotsKept
  <2> QED BY <1>0, <1>1, <2>1, <2>2
         DEF VotesInv, BallotsKept, Ballots!OneVotePerTerm, Ballots!Abstain
<1>2. ASSUME NEW s \in Server, NEW t \in Term, NEW c \in Server,
             Ballots!VoteAhead(s, t, c)
      PROVE  VotesInv'
  <2> DEFINE new == [voter |-> s, term |-> t, candidate |-> c]
  <2>1. VotesTyped'
    BY <1>0, <1>2 DEF Ballots!VoteAhead, Ballots!Cast, VotesTyped, Ballots!Ballot
  <2>2. \A b \in ballots : Kept(b)'
    BY <1>0, <1>2, KeptAhead DEF Ballots!VoteAhead, BallotsKept
  <2>3. term'[s] = t /\ votedFor'[s] = c /\ t \in Nat
    BY Constants, <1>0, <1>2 DEF Ballots!VotingConstants, Ballots!VoteAhead, VotesTyped
  <2>4. Kept(new)'
    BY <2>3 DEF Kept
  <2>5. Ballots!OneVotePerTerm'
    BY <1>0, <1>2, NoSecondVote DEF Ballots!VoteAhead, Ballots!Cast
  <2> QED BY <1>2, <2>1, <2>2, <2>4, <2>5
         DEF VotesInv, BallotsKept, Ballots!VoteAhead, Ballots!Cast
<1>3. ASSUME NEW s \in Server, NEW c \in Server, Ballots!VoteNow(s, c)
      PROVE  VotesInv'
  <2> DEFINE new == [voter |-> s, term |-> term[s], candidate |-> c]
  <2>1. VotesTyped'
    BY <1>0, <1>3 DEF Ballots!VoteNow, Ballots!Cast, VotesTyped, Ballots!Ballot
  <2>2. ASSUME NEW b \in ballots PROVE Kept(b)'
    <3>1. b.voter \in Server /\ b.candidate \in Server /\ Kept(b)
      BY <1>0, BallotFields DEF BallotsKept
    <3>2. term' = term /\ votedFor[s] \in {NoServer, c}
      BY <1>3 DEF Ballots!VoteNow
    <3>3. CASE b.voter = s
      <4>1. votedFor'[s] = c
        BY Constants, <1>0, <1>3 DEF Ballots!VoteNow, VotesTyped
      <4> QED BY Constants, <3>1, <3>2, <3>3, <4>1 DEF Ballots!VotingConstants, Kept
    <3>4. CASE b.voter # s
      <4>1. votedFor'[b.voter] = votedFor[b.voter]
        BY <1>0, <1>3, <3>1, <3>4 DEF Ballots!VoteNow, VotesTyped
      <4> QED BY <3>1, <3>2, <4>1 DEF Kept
    <3> QED BY <3>3, <3>4
  <2>3. term'[s] = term[s] /\ votedFor'[s] = c /\ term[s] \in Nat
    BY Constants, <1>0, <1>3 DEF Ballots!VotingConstants, Ballots!VoteNow, VotesTyped
  <2>4. Kept(new)'
    BY <2>3 DEF Kept
  <2>5. Ballots!OneVotePerTerm'
    <3>1. term[s] \in Term
      BY <1>0 DEF VotesTyped
    <3> QED BY <1>0, <1>3, <3>1, NoSecondVote DEF Ballots!VoteNow, Ballots!Cast
  <2> QED BY <1>3, <2>1, <2>2, <2>4, <2>5
         DEF VotesInv, BallotsKept, Ballots!VoteNow, Ballots!Cast
<1>4. CASE UNCHANGED Ballots!vars
  BY <1>0, <1>4 DEF Ballots!vars, VotesInv, VotesTyped, BallotsKept, Kept,
     Ballots!OneVotePerTerm
<1> QED BY <1>1, <1>2, <1>3, <1>4 DEF Ballots!Next

\* In every behaviour of Voting a server gives its vote to one candidate per
\* term.
THEOREM VotingSafe == Ballots!Spec => []Ballots!OneVotePerTerm
<1>1. VotesInv => Ballots!OneVotePerTerm
  BY DEF VotesInv
<1> QED BY <1>1, VotingInit, VotingStep, PTL DEF Ballots!Spec
-----------------------------------------------------------------------------
(* Refinement of Voting.                                                    *)

LEMMA ImplementsInit == Init => Ballots!Init
  BY DEF Init, Ballots!Init

LEMMA FallBehindVotes ==
  ASSUME NEW s \in Server, NEW t \in Term, t > term[s],
         FallBehind(s, t, NoServer), UNCHANGED ballots
  PROVE  Ballots!Next
<1>1. Ballots!Abstain(s, t)
  BY DEF FallBehind, Ballots!Abstain
<1> QED BY <1>1 DEF Ballots!Next

LEMMA ImplementsStep ==
  ASSUME TypeOK, [Next]_vars PROVE [Ballots!Next]_Ballots!vars
<1>0. net \subseteq Message
  BY DEF TypeOK
<1> DEFINE Still == UNCHANGED <<term, votedFor, ballots>>
<1>1. ASSUME Still PROVE [Ballots!Next]_Ballots!vars
  BY <1>1 DEF Ballots!vars
<1>2. ASSUME NEW s \in Server, BecomeCandidate(s) PROVE Ballots!Next
  <2>1. term[s] + 1 \in Term /\ term[s] + 1 > term[s]
    <3>1. term[s] < MaxTerm
      BY <1>2 DEF BecomeCandidate
    <3> QED BY <3>1, TermFacts, BoundAssumption DEF Term
  <2>2. term' = [term EXCEPT ![s] = term[s] + 1]
    BY <1>2 DEF BecomeCandidate
  <2>3. Ballots!VoteAhead(s, term[s] + 1, s)
    BY <1>2, <2>1, <2>2 DEF BecomeCandidate, Ballots!VoteAhead, Ballots!Cast
  <2> QED BY <2>1, <2>3 DEF Ballots!Next
<1>3. ASSUME NEW m \in net, VoteInNewerTerm(m) PROVE Ballots!Next
  <2>1. m.from \in Server /\ m.to \in Server /\ m.term \in Term
    BY <1>0, MessageFields
  <2>2. Ballots!VoteAhead(m.to, m.term, m.from)
    BY <1>3 DEF VoteInNewerTerm, FallBehind, Ballots!VoteAhead, Ballots!Cast
  <2> QED BY <2>1, <2>2 DEF Ballots!Next
<1>4. ASSUME NEW m \in net, VoteInOwnTerm(m) PROVE [Ballots!Next]_Ballots!vars
  <2>1. m.from \in Server /\ m.to \in Server
    BY <1>0, MessageFields
  <2>2. CASE MayGrant(m)
    <3>1. m.term = term[m.to] /\ votedFor[m.to] \in {NoServer, m.from}
      BY <2>2 DEF MayGrant
    <3>2. Ballots!VoteNow(m.to, m.from)
      BY <1>4, <2>2, <3>1 DEF VoteInOwnTerm, Ballots!VoteNow, Ballots!Cast
    <3> QED BY <2>1, <3>2 DEF Ballots!Next
  <2>3. CASE ~MayGrant(m)
    BY <1>1, <1>4, <2>3 DEF VoteInOwnTerm
  <2> QED BY <2>2, <2>3
<1>5. ASSUME NEW s \in Server, NEW q, Merge(s, q), UNCHANGED ballots
      PROVE  [Ballots!Next]_Ballots!vars
  BY <1>1, <1>5 DEF Merge
<1>6. ASSUME NEW m \in net, LearnTerm(m) PROVE [Ballots!Next]_Ballots!vars
  <2>1. m.to \in Server /\ m.term \in Term
    BY <1>0, MessageFields
  <2>2. CASE m.term > term[m.to] /\ FallBehind(m.to, m.term, NoServer)
    BY <1>6, <2>1, <2>2, FallBehindVotes DEF LearnTerm
  <2>3. CASE UNCHANGED <<term, votedFor, state, voteQuorum>>
    BY <1>1, <1>6, <2>3 DEF LearnTerm
  <2> QED BY <1>6, <2>2, <2>3 DEF LearnTerm
<1>7. ASSUME NEW m \in net, AcceptAppend(m) PROVE [Ballots!Next]_Ballots!vars
  <2>1. m.to \in Server /\ m.term \in Term
    BY <1>0, MessageFields
  <2>2. CASE m.term > term[m.to] /\ FallBehind(m.to, m.term, NoServer)
    BY <1>7, <2>1, <2>2, FallBehindVotes DEF AcceptAppend
  <2>3. CASE UNCHANGED <<term, votedFor, state, voteQuorum>>
    BY <1>1, <1>7, <2>3 DEF AcceptAppend
  <2> QED BY <1>7, <2>2, <2>3 DEF AcceptAppend
<1>8. ASSUME NEW m \in net, ExitOnAppend(m) PROVE [Ballots!Next]_Ballots!vars
  <2>1. m.to \in Server /\ m.term \in Term /\ term[m.to] \in Nat /\ m.term \in Nat
    BY <1>0, MessageFields, TermFacts
  <2>2. CASE m.term > term[m.to]
    <3>1. Ballots!Abstain(m.to, m.term)
      BY <1>8, <2>2 DEF ExitOnAppend, Ballots!Abstain
    <3> QED BY <2>1, <3>1 DEF Ballots!Next
  <2>3. CASE m.term = term[m.to]
    <3>1. term' = term /\ votedFor' = votedFor
      BY <1>8, <2>1, <2>3 DEF ExitOnAppend, TypeOK
    <3> QED BY <1>1, <1>8, <3>1 DEF ExitOnAppend
  <2> QED BY <1>8, <2>1, <2>2, <2>3 DEF ExitOnAppend
<1>9. ASSUME NEW s \in Server, Timeout(s) PROVE Ballots!Next
  BY <1>2, <1>9 DEF Timeout, HeartbeatTimeout, ElectTimeout
<1>10. ASSUME NEW s \in Server, NEW d \in Others(s),
              StartReplicate(s, d) \/ SendAppend(s, d)
       PROVE  [Ballots!Next]_Ballots!vars
  BY <1>1, <1>10 DEF StartReplicate, SendAppend
<1>11. ASSUME NEW m \in net, CountVote(m) \/ VoteTimeout(m)
       PROVE  [Ballots!Next]_Ballots!vars
  <2>1. m.to \in Server /\ m.from \in Server
    BY <1>0, MessageFields
  <2> QED BY <1>5, <1>11, <2>1 DEF CountVote, VoteTimeout
<1>12. ASSUME NEW m \in net, AppendLost(m) \/ RefuseAppend(m)
       PROVE  [Ballots!Next]_Ballots!vars
  BY <1>1, <1>12 DEF AppendLost, RefuseAppend
<1>13. CASE UNCHANGED vars
  BY <1>1, <1>13 DEF vars
<1> QED BY <1>3, <1>4, <1>6, <1>7, <1>8, <1>9, <1>10, <1>11, <1>12, <1>13
        DEF Next, Deliver

\* The handlers and timers of the servers give votes as Voting says.
THEOREM VotesAsSpecified == Spec => ImplementsVoting
<1>1. TypeOK /\ [Next]_vars => [Ballots!Next]_Ballots!vars
  BY ImplementsStep
<1> QED BY <1>1, ImplementsInit, TypeCorrect, PTL
        DEF Spec, ImplementsVoting, Ballots!Spec

\* No server votes for two candidates in one term.
THEOREM OneVote == Spec => []OneVotePerTerm
<1>1. Ballots!Spec => []OneVotePerTerm
  BY VotingSafe DEF OneVotePerTerm
<1> QED BY <1>1, VotesAsSpecified DEF ImplementsVoting
-----------------------------------------------------------------------------
(* Winners: two of one term with a quorum of votes of that term are one,    *)
(* and the master a server names has won an election.                       *)

Ballot(v, t, c) == [voter |-> v, term |-> t, candidate |-> c]

\* A response that grants a vote reports a ballot.
GrantsBacked ==
  \A m \in net :
    m.type = "VoteResponse" /\ m.granted => Ballot(m.from, m.term, m.to) \in ballots

\* The fresh voters of a running election have given their ballots.
FreshBackedAt(s) ==
  state[s] = "CANDIDATE" =>
    \A v \in voteQuorum[s].fresh : Ballot(v, term[s], s) \in ballots

FreshBacked == \A s \in Server : FreshBackedAt(s)

\* So have those of an election that is won.
ElectedBacked ==
  \A e \in elected : \A v \in e.fresh : Ballot(v, e.term, e.leader) \in ballots

BackedInv == GrantsBacked /\ FreshBacked /\ ElectedBacked

LEMMA BackedInit == Init => BackedInv
  BY DEF Init, BackedInv, GrantsBacked, FreshBacked, FreshBackedAt, ElectedBacked

\* Steps that open, win and change no election keep the ballots behind it.
LEMMA BackedQuiet ==
  ASSUME BackedInv, ballots \subseteq ballots', elected' = elected,
         \A m \in net' : m \in net \/ m.type # "VoteResponse",
         \A s \in Server :
            state'[s] = "CANDIDATE" =>
              /\ state[s] = "CANDIDATE" /\ term'[s] = term[s]
              /\ voteQuorum'[s] = voteQuorum[s]
  PROVE  BackedInv'
<1>1. GrantsBacked'
  BY DEF BackedInv, GrantsBacked
<1>2. FreshBacked'
  BY DEF BackedInv, FreshBacked, FreshBackedAt
<1>3. ElectedBacked'
  BY DEF BackedInv, ElectedBacked
<1> QED BY <1>1, <1>2, <1>3 DEF BackedInv

\* Merging a result whose fresh voters are backed keeps every ballot behind
\* its election, won or not.
LEMMA BackedMerge ==
  ASSUME TypeOK, BackedInv, NEW s \in Server, NEW q \in Election, Merge(s, q),
         \A v \in q.fresh : Ballot(v, term[s], s) \in ballots,
         UNCHANGED ballots, \A m \in net' : m \in net \/ m.type # "VoteResponse"
  PROVE  BackedInv'
<1>1. GrantsBacked'
  BY DEF BackedInv, GrantsBacked
<1>2. term' = term
  BY DEF Merge
<1>3. FreshBacked'
  <2>1. SUFFICES ASSUME NEW r \in Server, state'[r] = "CANDIDATE",
                        NEW v \in voteQuorum'[r].fresh
                 PROVE  Ballot(v, term[r], r) \in ballots
    BY <1>2 DEF FreshBacked, FreshBackedAt
  <2>2. CASE Wins(q)
    <3>1. r # s
      BY <2>1, <2>2 DEF Merge, BecomeLeader, TypeOK
    <3>2. state[r] = "CANDIDATE" /\ voteQuorum'[r] = voteQuorum[r]
      BY <2>1, <2>2, <3>1 DEF Merge, BecomeLeader, TypeOK
    <3> QED BY <2>1, <3>2 DEF BackedInv, FreshBacked, FreshBackedAt
  <2>3. CASE ~Wins(q) /\ r = s
    <3>1. voteQuorum'[r] = q
      BY <2>3 DEF Merge, TypeOK
    <3> QED BY <2>1, <2>3, <3>1
  <2>4. CASE ~Wins(q) /\ r # s
    <3>1. state[r] = "CANDIDATE" /\ voteQuorum'[r] = voteQuorum[r]
      BY <2>1, <2>4 DEF Merge, TypeOK
    <3> QED BY <2>1, <3>1 DEF BackedInv, FreshBacked, FreshBackedAt
  <2> QED BY <2>2, <2>3, <2>4
<1>4. ElectedBacked'
  <2>1. CASE Wins(q)
    <3> DEFINE new == [leader |-> s, term |-> term[s], fresh |-> q.fresh]
    <3>1. elected' = elected \cup {new}
      BY <2>1 DEF Merge, BecomeLeader
    <3>2. \A v \in new.fresh : Ballot(v, new.term, new.leader) \in ballots'
      OBVIOUS
    <3> QED BY <3>1, <3>2 DEF BackedInv, ElectedBacked
  <2>2. CASE ~Wins(q)
    BY <2>2 DEF Merge, BackedInv, ElectedBacked
  <2> QED BY <2>1, <2>2
<1> QED BY <1>1, <1>3, <1>4 DEF BackedInv

\* The election of s has no voter without a ballot, and a failure adds none.
LEMMA BackedFailure ==
  ASSUME TypeOK, BackedInv, NEW s \in Server, state[s] = "CANDIDATE"
  PROVE  \A v \in MergeFailure(s).fresh : Ballot(v, term[s], s) \in ballots
<1>1. MergeFailure(s).fresh = voteQuorum[s].fresh
  BY voteQuorum[s] \in Election DEF TypeOK, MergeFailure, Election
<1> QED BY <1>1 DEF BackedInv, FreshBacked, FreshBackedAt

\* A success adds its voter only when the vote was given in the term.
LEMMA BackedSuccess ==
  ASSUME TypeOK, BackedInv, NEW m \in net, m.type = "VoteResponse", m.granted,
         m.to \in Server, state[m.to] = "CANDIDATE"
  PROVE  \A v \in MergeSuccess(m.to, m.from, m.term).fresh :
            Ballot(v, term[m.to], m.to) \in ballots
<1> DEFINE s == m.to
           q == voteQuorum[s]
           f == IF m.term = term[s] THEN q.fresh \cup {m.from} ELSE q.fresh
<1>1. \A v \in q.fresh : Ballot(v, term[s], s) \in ballots
  BY DEF BackedInv, FreshBacked, FreshBackedAt
<1>2. Ballot(m.from, m.term, s) \in ballots
  BY DEF BackedInv, GrantsBacked
<1>3. MergeSuccess(s, m.from, m.term).fresh = f
  <2>1. q \in Election
    BY DEF TypeOK
  <2>2. MergeSuccess(s, m.from, m.term) = [q EXCEPT !.yes = q.yes + 1, !.fresh = f]
    BY DEF MergeSuccess
  <2> HIDE DEF q, f
  <2> QED BY <2>1, <2>2 DEF Election
<1> QED BY <1>1, <1>2, <1>3

LEMMA BackedStep == TypeOK /\ BackedInv /\ [Next]_vars => BackedInv'
<1> SUFFICES ASSUME TypeOK, BackedInv, [Next]_vars PROVE BackedInv'
  OBVIOUS
<1>0. net \subseteq Message
  BY DEF TypeOK
<1>1. ASSUME NEW s \in Server, BecomeCandidate(s) PROVE BackedInv'
  <2>1. PICK unreachable \in SUBSET Others(s) :
          /\ state' = [state EXCEPT ![s] = "CANDIDATE"]
          /\ term' = [term EXCEPT ![s] = @ + 1]
          /\ voteQuorum' = [voteQuorum EXCEPT ![s] = OpenElection(s, unreachable)]
          /\ net' = net \cup
               {VoteRequest(s, d, term[s] + 1) : d \in Others(s) \ unreachable}
          /\ ballots' = ballots \cup {Ballot(s, term[s] + 1, s)}
          /\ elected' = elected
    BY <1>1 DEF BecomeCandidate, Ballot
  <2>2. \A m \in net' : m \in net \/ m.type # "VoteResponse"
    BY <2>1 DEF VoteRequest
  <2>3. GrantsBacked'
    BY <2>1, <2>2 DEF BackedInv, GrantsBacked
  <2>4. FreshBacked'
    <3>1. SUFFICES ASSUME NEW r \in Server, state'[r] = "CANDIDATE",
                          NEW v \in voteQuorum'[r].fresh
                   PROVE  Ballot(v, term'[r], r) \in ballots'
      BY DEF FreshBacked, FreshBackedAt
    <3>2. CASE r = s
      <4>1. voteQuorum'[r].fresh = {s} /\ term'[r] = term[s] + 1
        BY <2>1, <3>2 DEF TypeOK, OpenElection
      <4> QED BY <2>1, <3>1, <3>2, <4>1
    <3>3. CASE r # s
      <4>1. /\ voteQuorum'[r] = voteQuorum[r] /\ term'[r] = term[r]
            /\ state[r] = "CANDIDATE"
        BY <2>1, <3>1, <3>3 DEF TypeOK
      <4> QED BY <2>1, <3>1, <4>1 DEF BackedInv, FreshBacked, FreshBackedAt
    <3> QED BY <3>2, <3>3
  <2>5. ElectedBacked'
    BY <2>1 DEF BackedInv, ElectedBacked
  <2> QED BY <2>3, <2>4, <2>5 DEF BackedInv
<1>2. ASSUME NEW s \in Server, NEW t, NEW v, FallBehind(s, t, v)
      PROVE  \A r \in Server :
               state'[r] = "CANDIDATE" =>
                 /\ state[r] = "CANDIDATE" /\ term'[r] = term[r]
                 /\ voteQuorum'[r] = voteQuorum[r]
  <2> SUFFICES ASSUME NEW r \in Server, state'[r] = "CANDIDATE"
               PROVE  /\ state[r] = "CANDIDATE" /\ term'[r] = term[r]
                      /\ voteQuorum'[r] = voteQuorum[r]
    OBVIOUS
  <2>1. r # s
    BY <1>2 DEF FallBehind, TypeOK
  <2> QED BY <1>2, <2>1 DEF FallBehind, TypeOK
<1>3. ASSUME NEW m \in net, NEW t, NEW g \in BOOLEAN, m.type = "VoteRequest",
             AnswerVote(m, t, g), ballots \subseteq ballots', elected' = elected,
             g => Ballot(m.to, t, m.from) \in ballots',
             \A r \in Server :
               state'[r] = "CANDIDATE" =>
                 /\ state[r] = "CANDIDATE" /\ term'[r] = term[r]
                 /\ voteQuorum'[r] = voteQuorum[r]
      PROVE  BackedInv'
  <2> DEFINE r == VoteResponse(m, t, g)
  <2>1. r.granted = g /\ r.from = m.to /\ r.to = m.from /\ r.term = t
    BY DEF VoteResponse
  <2>2. net' \subseteq net \cup {r}
    BY <1>3 DEF AnswerVote
  <2>3. GrantsBacked'
    BY <1>3, <2>1, <2>2 DEF BackedInv, GrantsBacked
  <2>4. FreshBacked'
    BY <1>3 DEF BackedInv, FreshBacked, FreshBackedAt
  <2>5. ElectedBacked'
    BY <1>3 DEF BackedInv, ElectedBacked
  <2> QED BY <2>3, <2>4, <2>5 DEF BackedInv
<1>4. ASSUME NEW m \in net, VoteInNewerTerm(m) PROVE BackedInv'
  <2>1. m.to \in Server
    BY <1>0, MessageFields
  <2>2. ballots' = ballots \cup {Ballot(m.to, m.term, m.from)}
    BY <1>4 DEF VoteInNewerTerm, Ballot
  <2>3. /\ FallBehind(m.to, m.term, m.from) /\ m.type = "VoteRequest"
        /\ AnswerVote(m, m.term, TRUE) /\ elected' = elected
    BY <1>4 DEF VoteInNewerTerm, Receives
  <2> QED BY <1>2, <1>3, <2>1, <2>2, <2>3
<1>5. ASSUME NEW m \in net, VoteInOwnTerm(m) PROVE BackedInv'
  <2>1. m.to \in Server
    BY <1>0, MessageFields
  <2>2. /\ m.type = "VoteRequest" /\ AnswerVote(m, term[m.to], MayGrant(m))
        /\ UNCHANGED <<term, state, voteQuorum, elected>> /\ MayGrant(m) \in BOOLEAN
    BY <1>5 DEF VoteInOwnTerm, Receives, MayGrant
  <2>3. ballots \subseteq ballots'
    BY <1>5 DEF VoteInOwnTerm
  <2>4. MayGrant(m) => Ballot(m.to, term[m.to], m.from) \in ballots'
    BY <1>5 DEF VoteInOwnTerm, MayGrant, Ballot
  <2> QED BY <1>3, <2>2, <2>3, <2>4
<1>6. ASSUME NEW m \in net, CountVote(m) PROVE BackedInv'
  <2>1. m.from \in Server /\ m.to \in Server /\ m.term \in Term
    BY <1>0, MessageFields
  <2> DEFINE q == IF m.granted THEN MergeSuccess(m.to, m.from, m.term)
                               ELSE MergeFailure(m.to)
  <2>2. q \in Election
    BY <2>1, MergeSuccessType, MergeFailureType
  <2>3. /\ Merge(m.to, q) /\ m.type = "VoteResponse" /\ UNCHANGED ballots
        /\ state[m.to] = "CANDIDATE" /\ net' \subseteq net
    BY <1>6 DEF CountVote, Receives
  <2>4. \A v \in q.fresh : Ballot(v, term[m.to], m.to) \in ballots
    BY <2>1, <2>3, BackedFailure, BackedSuccess
  <2> HIDE DEF q
  <2> QED BY <2>1, <2>2, <2>3, <2>4, BackedMerge
<1>7. ASSUME NEW m \in net, VoteTimeout(m) PROVE BackedInv'
  <2> DEFINE c == IF m.type = "VoteRequest" THEN m.from ELSE m.to
  <2>1. c \in Server
    BY <1>0, MessageFields
  <2>2. MergeFailure(c) \in Election
    BY <2>1, MergeFailureType
  <2>3. Merge(c, MergeFailure(c)) /\ state[c] = "CANDIDATE" /\ UNCHANGED ballots
    BY <1>7 DEF VoteTimeout
  <2>4. \A x \in net' : x \in net \/ x.type # "VoteResponse"
    <3>1. CASE m.type = "VoteRequest"
      <4>1. m \in VoteRequests
        BY <1>0, <3>1, MessageFields
      <4>2. [m EXCEPT !.awaited = FALSE].type = "VoteRequest"
        BY <4>1 DEF VoteRequests
      <4> QED BY <1>7, <4>2 DEF VoteTimeout
    <3>2. CASE m.type # "VoteRequest"
      BY <1>7, <3>2 DEF VoteTimeout
    <3> QED BY <3>1, <3>2
  <2>5. \A v \in MergeFailure(c).fresh : Ballot(v, term[c], c) \in ballots
    BY <2>1, <2>3, BackedFailure
  <2> QED BY <2>1, <2>2, <2>3, <2>4, <2>5, BackedMerge
<1>8. ASSUME NEW m \in net, LearnTerm(m) PROVE BackedInv'
  <2>1. m.to \in Server /\ UNCHANGED <<ballots, elected>> /\ net' \subseteq net
    BY <1>0, <1>8, MessageFields DEF LearnTerm
  <2>2. CASE FallBehind(m.to, m.term, NoServer)
    BY <1>2, <2>1, <2>2, BackedQuiet
  <2>3. CASE UNCHANGED <<term, votedFor, state, voteQuorum>>
    BY <2>1, <2>3, BackedQuiet
  <2> QED BY <1>8, <2>2, <2>3 DEF LearnTerm
<1>9. ASSUME NEW m \in net, AcceptAppend(m) PROVE BackedInv'
  <2>1. m.to \in Server /\ UNCHANGED <<ballots, elected>>
    BY <1>0, <1>9, MessageFields DEF AcceptAppend
  <2>2. \A x \in net' : x \in net \/ x.type # "VoteResponse"
    BY <1>9 DEF AcceptAppend, AppendResponse
  <2>3. CASE FallBehind(m.to, m.term, NoServer)
    BY <1>2, <2>1, <2>2, <2>3, BackedQuiet
  <2>4. CASE UNCHANGED <<term, votedFor, state, voteQuorum>>
    BY <2>1, <2>2, <2>4, BackedQuiet
  <2> QED BY <1>9, <2>3, <2>4 DEF AcceptAppend
<1>10. ASSUME NEW m \in net, ExitOnAppend(m) PROVE BackedInv'
  <2>1. m.to \in Server /\ UNCHANGED <<ballots, elected, voteQuorum>> /\ net' \subseteq net
    BY <1>0, <1>10, MessageFields DEF ExitOnAppend
  <2>2. ASSUME NEW r \in Server, state'[r] = "CANDIDATE"
        PROVE  state[r] = "CANDIDATE" /\ term'[r] = term[r]
    <3>1. r # m.to
      BY <1>10, <2>1, <2>2 DEF ExitOnAppend, TypeOK
    <3> QED BY <1>10, <2>2, <3>1 DEF ExitOnAppend, TypeOK
  <2> QED BY <2>1, <2>2, BackedQuiet
<1>11. ASSUME NEW m \in net, AppendLost(m) \/ RefuseAppend(m) PROVE BackedInv'
  <2>1. \A x \in net' : x \in net \/ x.type # "VoteResponse"
    BY <1>11 DEF AppendLost, RefuseAppend, AppendResponse
  <2> QED BY <1>11, <2>1, BackedQuiet DEF AppendLost, RefuseAppend
<1>12. ASSUME NEW s \in Server, NEW d \in Others(s),
              StartReplicate(s, d) \/ SendAppend(s, d)
       PROVE  BackedInv'
  <2>1. \A x \in net' : x \in net \/ x.type # "VoteResponse"
    BY <1>12 DEF StartReplicate, SendAppend, AppendRequest
  <2> QED BY <1>12, <2>1, BackedQuiet DEF StartReplicate, SendAppend
<1>13. ASSUME NEW s \in Server, Timeout(s) PROVE BackedInv'
  BY <1>1, <1>13 DEF Timeout, HeartbeatTimeout, ElectTimeout
<1>14. CASE UNCHANGED vars
  BY <1>14, BackedQuiet DEF vars
<1> QED BY <1>4, <1>5, <1>6, <1>7, <1>8, <1>9, <1>10, <1>11, <1>12, <1>13, <1>14
        DEF Next, Deliver
-----------------------------------------------------------------------------
\* With an odd number of members two quorums of ballots of one term share a
\* voter, who has given one vote.  getQuorum() of an even cluster is half of
\* it, and then two halves may be disjoint.
LEMMA FreshMajorities ==
  ASSUME TypeOK, BackedInv, OneVotePerTerm, Cardinality(Server) % 2 = 1
  PROVE  FreshElectionSafety
<1>1. SUFFICES ASSUME NEW x \in elected, NEW y \in elected, x.term = y.term,
                      Cardinality(x.fresh) >= Quorum,
                      Cardinality(y.fresh) >= Quorum
               PROVE  x.leader = y.leader
  BY DEF FreshElectionSafety
<1>2. x.fresh \subseteq Server /\ y.fresh \subseteq Server
  BY DEF TypeOK
<1>3. PICK v \in Server : v \in x.fresh /\ v \in y.fresh
  <2>1. /\ Cardinality(Server) \in Nat
        /\ Cardinality(x.fresh) \in Nat /\ Cardinality(y.fresh) \in Nat
    BY <1>2, ServerAssumption, FS_CardinalityType, FS_Subset
  <2>2. Cardinality(x.fresh) + Cardinality(y.fresh) > Cardinality(Server)
    BY <1>1, <2>1 DEF Quorum
  <2>3. x.fresh \cap y.fresh # {}
    BY <1>2, <2>2, ServerAssumption, FS_MajoritiesIntersect
  <2> QED BY <1>2, <2>3
<1>4. /\ Ballot(v, x.term, x.leader) \in ballots
      /\ Ballot(v, y.term, y.leader) \in ballots
  BY <1>3 DEF BackedInv, ElectedBacked
<1>5. Ballot(v, x.term, x.leader).candidate = Ballot(v, y.term, y.leader).candidate
  BY <1>1, <1>4 DEF OneVotePerTerm, Ballots!OneVotePerTerm, Ballot
<1> QED BY <1>5 DEF Ballot

\* In a cluster of odd size, two elections of one term that a quorum of votes
\* of that term has won have the same winner.
THEOREM FreshSafe ==
  ASSUME Cardinality(Server) % 2 = 1 PROVE Spec => []FreshElectionSafety
<1>1. Spec => []BackedInv
  BY BackedInit, BackedStep, TypeCorrect, PTL DEF Spec
<1>2. TypeOK /\ BackedInv /\ OneVotePerTerm => FreshElectionSafety
  BY FreshMajorities
<1> QED BY <1>1, <1>2, TypeCorrect, OneVote, PTL
-----------------------------------------------------------------------------
(* A master was elected.                                                    *)

\* s has won an election in term t or an older one.
WonBy(s, t) == \E e \in elected : e.leader = s /\ e.term <= t

\* Winners, their replicators and their append requests; a server that is
\* no leader any more may still send.
LeadersWon   == \A s \in Server : state[s] = "LEADER" => WonBy(s, term[s])
SendersWon   == \A p \in sending : WonBy(p[1], term[p[1]])
RequestsWon  == \A m \in net : m.type = "AppendRequest" => WonBy(m.from, m.term)

WonInv == LeadersWon /\ SendersWon /\ RequestsWon /\ MasterWasElected

LEMMA WonInit == Init => WonInv
  BY DEF Init, WonInv, LeadersWon, SendersWon, RequestsWon, MasterWasElected

LEMMA TermsGrow ==
  ASSUME TypeOK, [Next]_vars, NEW s \in Server
  PROVE  term'[s] >= term[s]
<1>1. [Ballots!Next]_Ballots!vars
  BY ImplementsStep
<1>2. term[s] \in Nat
  BY TermFacts
<1>3. ASSUME NEW r \in Server, NEW t \in Term, t > term[r], term' = [term EXCEPT ![r] = t]
      PROVE  term'[s] >= term[s]
  BY <1>2, <1>3, TermFacts DEF TypeOK
<1> QED BY <1>1, <1>2, <1>3
        DEF Ballots!Next, Ballots!vars, Ballots!Abstain, Ballots!VoteAhead,
            Ballots!VoteNow

LEMMA ElectedGrows ==
  ASSUME [Next]_vars PROVE elected \subseteq elected'
<1>1. ASSUME NEW s, NEW q, Merge(s, q) PROVE elected \subseteq elected'
  BY <1>1 DEF Merge, BecomeLeader
<1> QED BY <1>1 DEF Next, Timeout, HeartbeatTimeout, ElectTimeout, BecomeCandidate,
        Deliver, VoteInNewerTerm, VoteInOwnTerm, CountVote, LearnTerm, VoteTimeout,
        RefuseAppend, AcceptAppend, ExitOnAppend, StartReplicate, SendAppend,
        AppendLost, vars

\* Only a win makes a leader.
LEMMA NewLeaderWon ==
  ASSUME TypeOK, [Next]_vars, NEW s \in Server, state'[s] = "LEADER"
  PROVE  state[s] = "LEADER" \/ WonBy(s, term[s])'
<1>0. net \subseteq Message
  BY DEF TypeOK
<1>1. ASSUME NEW r \in Server, NEW q \in Election, Merge(r, q)
      PROVE  state[s] = "LEADER" \/ WonBy(s, term[s])'
  <2>1. CASE Wins(q) /\ r = s
    <3> DEFINE new == [leader |-> s, term |-> term[s], fresh |-> q.fresh]
    <3>1. new \in elected' /\ term' = term
      BY <1>1, <2>1 DEF Merge, BecomeLeader
    <3>2. new.leader = s /\ new.term <= term'[s]
      BY <3>1, TermFacts
    <3> QED BY <3>1, <3>2 DEF WonBy
  <2>2. CASE ~Wins(q) \/ r # s
    BY <1>1, <2>2 DEF Merge, BecomeLeader, TypeOK
  <2> QED BY <2>1, <2>2
<1>2. ASSUME NEW m \in net, CountVote(m)
      PROVE  state[s] = "LEADER" \/ WonBy(s, term[s])'
  <2>1. m.to \in Server /\ m.from \in Server /\ m.term \in Term
    BY <1>0, MessageFields
  <2> DEFINE q == IF m.granted THEN MergeSuccess(m.to, m.from, m.term)
                               ELSE MergeFailure(m.to)
  <2>2. q \in Election
    BY <2>1, MergeSuccessType, MergeFailureType
  <2>3. Merge(m.to, q)
    BY <1>2 DEF CountVote
  <2> HIDE DEF q
  <2> QED BY <1>1, <2>1, <2>2, <2>3
<1>3. ASSUME NEW m \in net, VoteTimeout(m)
      PROVE  state[s] = "LEADER" \/ WonBy(s, term[s])'
  <2> DEFINE c == IF m.type = "VoteRequest" THEN m.from ELSE m.to
  <2>1. c \in Server
    BY <1>0, MessageFields
  <2>2. MergeFailure(c) \in Election
    BY <2>1, MergeFailureType
  <2>3. Merge(c, MergeFailure(c))
    BY <1>3 DEF VoteTimeout
  <2> QED BY <1>1, <2>1, <2>2, <2>3
<1>4. ASSUME NEW r \in Server, BecomeCandidate(r) PROVE state[s] = "LEADER"
  BY <1>4 DEF BecomeCandidate, TypeOK
<1>5. ASSUME NEW r \in Server, NEW t, NEW v, FallBehind(r, t, v)
      PROVE  state[s] = "LEADER"
  BY <1>5 DEF FallBehind, TypeOK
<1>6. ASSUME NEW m \in net, ExitOnAppend(m) PROVE state[s] = "LEADER"
  BY <1>6 DEF ExitOnAppend, TypeOK
<1>7. ASSUME NEW m \in net, \/ VoteInNewerTerm(m) \/ VoteInOwnTerm(m) \/ LearnTerm(m)
                            \/ RefuseAppend(m) \/ AcceptAppend(m) \/ AppendLost(m)
      PROVE  state[s] = "LEADER"
  <2>1. m.to \in Server
    BY <1>0, MessageFields
  <2> QED BY <1>5, <1>7, <2>1 DEF VoteInNewerTerm, VoteInOwnTerm, LearnTerm,
             RefuseAppend, AcceptAppend, AppendLost
<1> QED BY <1>2, <1>3, <1>4, <1>6, <1>7 DEF Next, Timeout, HeartbeatTimeout,
        ElectTimeout, Deliver, StartReplicate, SendAppend, vars

LEMMA WonStep == TypeOK /\ WonInv /\ [Next]_vars => WonInv'
<1> SUFFICES ASSUME TypeOK, WonInv, [Next]_vars PROVE WonInv'
  OBVIOUS
<1>0. TypeOK' /\ net \subseteq Message
  BY TypeStep DEF TypeOK
<1>1. ASSUME NEW s, NEW r \in Server, WonBy(s, term[r]) PROVE WonBy(s, term[r])'
  <2>1. term[r] \in Term /\ term'[r] \in Term /\ term[r] <= term'[r]
    BY <1>0, TermsGrow, BoundAssumption DEF TypeOK, Term
  <2>2. PICK e \in elected : e.leader = s /\ e.term <= term[r]
    BY <1>1 DEF WonBy
  <2>3. e \in elected' /\ e.term \in Term
    BY <2>2, ElectedGrows DEF TypeOK
  <2>4. e.term <= term'[r]
    BY <2>1, <2>2, <2>3, BoundAssumption DEF Term
  <2> QED BY <2>2, <2>3, <2>4 DEF WonBy
<1>2. ASSUME NEW s, NEW t, WonBy(s, t) PROVE \E e \in elected' : e.leader = s /\ e.term <= t
  BY <1>2, ElectedGrows DEF WonBy
<1>3. LeadersWon'
  BY <1>1, NewLeaderWon DEF WonInv, LeadersWon
<1>4. SendersWon'
  <2>1. SUFFICES ASSUME NEW p \in sending' PROVE WonBy(p[1], term[p[1]])'
    BY DEF SendersWon
  <2>2. p[1] \in Server
    BY <1>0 DEF TypeOK
  <2>3. p \in sending \/ (state[p[1]] = "LEADER")
    <3>1. ASSUME NEW s \in Server, NEW d \in Others(s), StartReplicate(s, d)
          PROVE  p \in sending \/ state[p[1]] = "LEADER"
      BY <3>1 DEF StartReplicate
    <3>2. ASSUME NEW s \in Server, NEW d \in Others(s), SendAppend(s, d)
          PROVE  p \in sending
      BY <3>2 DEF SendAppend
    <3> QED BY <3>1, <3>2 DEF Next, Timeout, HeartbeatTimeout, ElectTimeout,
            BecomeCandidate, Deliver, VoteInNewerTerm, VoteInOwnTerm, CountVote,
            LearnTerm, VoteTimeout, RefuseAppend, AcceptAppend, ExitOnAppend,
            AppendLost, vars
  <2>4. WonBy(p[1], term[p[1]])
    BY <2>2, <2>3 DEF WonInv, SendersWon, LeadersWon
  <2> QED BY <1>1, <2>2, <2>4
<1>5. RequestsWon'
  <2>1. SUFFICES ASSUME NEW m \in net', m.type = "AppendRequest"
                 PROVE  \E e \in elected' : e.leader = m.from /\ e.term <= m.term
    BY DEF RequestsWon, WonBy
  <2>2. m \in net \/ \E p \in sending : m = AppendRequest(p[1], p[2])
    <3>1. ASSUME NEW s \in Server, NEW d \in Others(s), SendAppend(s, d)
          PROVE  m \in net \/ \E p \in sending : m = AppendRequest(p[1], p[2])
      BY <3>1 DEF SendAppend
    <3>2. ASSUME NEW x \in net, VoteTimeout(x) PROVE m \in net
      <4>1. CASE x.type = "VoteRequest"
        <5>1. x \in VoteRequests
          BY <1>0, <4>1, MessageFields
        <5>2. [x EXCEPT !.awaited = FALSE].type = "VoteRequest"
          BY <5>1 DEF VoteRequests
        <5> QED BY <2>1, <3>2, <5>2 DEF VoteTimeout
      <4>2. CASE x.type # "VoteRequest"
        BY <3>2, <4>2 DEF VoteTimeout
      <4> QED BY <4>1, <4>2
    <3>3. ASSUME NEW s \in Server, Timeout(s) PROVE m \in net
      BY <2>1, <3>3 DEF Timeout, HeartbeatTimeout, ElectTimeout, BecomeCandidate,
         VoteRequest
    <3>4. ASSUME NEW x \in net, VoteInNewerTerm(x) \/ VoteInOwnTerm(x) PROVE m \in net
      BY <2>1, <3>4 DEF VoteInNewerTerm, VoteInOwnTerm, AnswerVote, VoteResponse
    <3>5. ASSUME NEW x \in net, RefuseAppend(x) \/ AcceptAppend(x) PROVE m \in net
      BY <2>1, <3>5 DEF RefuseAppend, AcceptAppend, AppendResponse
    <3> QED BY <3>1, <3>2, <3>3, <3>4, <3>5 DEF Next, Deliver, CountVote, LearnTerm,
            ExitOnAppend, AppendLost, StartReplicate, vars
  <2>3. CASE m \in net
    BY <1>2, <2>1, <2>3 DEF WonInv, RequestsWon
  <2>4. CASE \E p \in sending : m = AppendRequest(p[1], p[2])
    <3>1. PICK p \in sending : m = AppendRequest(p[1], p[2])
      BY <2>4
    <3>2. m.from = p[1] /\ m.term = term[p[1]]
      BY <3>1 DEF AppendRequest
    <3> QED BY <1>2, <3>1, <3>2 DEF WonInv, SendersWon
  <2> QED BY <2>2, <2>3, <2>4
<1>6. MasterWasElected'
  <2>1. SUFFICES ASSUME NEW s \in Server, master'[s] # NoServer
                 PROVE  \E e \in elected' : e.leader = master'[s] /\ e.term <= term'[s]
    BY DEF MasterWasElected
  <2>2. CASE master'[s] = master[s]
    <3>1. WonBy(master[s], term[s])
      BY <2>1, <2>2 DEF WonInv, MasterWasElected, WonBy
    <3> QED BY <1>1, <2>2, <3>1 DEF WonBy
  <2>3. CASE master'[s] # master[s]
    <3>1. PICK m \in net : AcceptAppend(m)
      BY <2>3 DEF Next, Timeout, HeartbeatTimeout, ElectTimeout, BecomeCandidate,
         Deliver, VoteInNewerTerm, VoteInOwnTerm, CountVote, LearnTerm, VoteTimeout,
         RefuseAppend, ExitOnAppend, StartReplicate, SendAppend, AppendLost, vars
    <3>2. m.to \in Server /\ m.term \in Term /\ m.term \in Nat
      BY <1>0, MessageFields, BoundAssumption DEF Term
    <3>3. m.to = s /\ master'[s] = m.from
      BY <2>3, <3>1, <3>2 DEF AcceptAppend, TypeOK
    <3>4. term'[s] = m.term
      <4>1. term[s] \in Nat /\ m.term >= term[s]
        BY <3>1, <3>3, TermFacts DEF AcceptAppend
      <4> QED BY <3>1, <3>2, <3>3, <4>1 DEF AcceptAppend, FallBehind, TypeOK
    <3>5. WonBy(m.from, m.term)
      BY <3>1 DEF WonInv, RequestsWon, AcceptAppend, Receives
    <3> QED BY <1>2, <3>3, <3>4, <3>5
  <2> QED BY <2>2, <2>3
<1> QED BY <1>3, <1>4, <1>5, <1>6 DEF WonInv

\* Whoever a server takes for its master has won an election, no later than
\* in the server's own term.
THEOREM MastersWereElected == Spec => []MasterWasElected
<1>1. WonInv => MasterWasElected
  BY DEF WonInv
<1> QED BY <1>1, WonInit, WonStep, TypeCorrect, PTL DEF Spec
-----------------------------------------------------------------------------
(* A win is backed: every vote counted for an election is a ballot of its   *)
(* own, because a request is answered once and its answer counted once.     *)

BallotsPast == \A b \in ballots : b.term <= term[b.candidate]

\* Who is asked for a vote has not given it: one request of a candidate to a
\* member per term.
RequestsOpen ==
  \A m \in net :
    m.type = "VoteRequest" =>
      /\ m.from # m.to /\ m.term <= term[m.from]
      /\ Ballot(m.to, m.term, m.from) \notin ballots

SameVote(x, y) == x.from = y.from /\ x.to = y.to /\ x.term = y.term

OneRequest ==
  \A x, y \in net :
    x.type = "VoteRequest" /\ y.type = "VoteRequest" /\ SameVote(x, y) => x = y

Grants(m) == m.type = "VoteResponse" /\ m.granted

GrantsOnce ==
  \A m \in net :
    Grants(m) => /\ m.of = m.term /\ m.from # m.to
                 /\ Ballot(m.from, m.term, m.to) \in ballots

\* The ballots for s that may count in its election and whose answers are not
\* on their way any more.
Arrived(s) ==
  {b \in ballots :
     /\ b.candidate = s /\ b.term <= term[s]
     /\ b.voter = s => b.term = term[s]
     /\ \A m \in net : Grants(m) => Ballot(m.from, m.term, m.to) # b}

YesBacked ==
  \A s \in Server :
    state[s] = "CANDIDATE" => voteQuorum[s].yes <= Cardinality(Arrived(s))

WinsCounted == \A e \in elected : Cardinality(BallotsFor(e)) >= Quorum

WinInv ==
  /\ IsFiniteSet(ballots) /\ BallotsPast /\ RequestsOpen /\ OneRequest
  /\ GrantsOnce /\ YesBacked /\ WinsCounted

LEMMA WinInit == Init => WinInv
<1> SUFFICES ASSUME Init PROVE WinInv
  OBVIOUS
<1>1. IsFiniteSet(ballots)
  BY FS_EmptySet DEF Init
<1> QED BY <1>1 DEF Init, WinInv, BallotsPast, RequestsOpen, OneRequest, GrantsOnce,
        YesBacked, WinsCounted

LEMMA BallotRecords ==
  /\ \A v, t, c, v1, t1, c1 :
       Ballot(v, t, c) = Ballot(v1, t1, c1) <=> v = v1 /\ t = t1 /\ c = c1
  /\ \A v, t, c : /\ Ballot(v, t, c).voter = v /\ Ballot(v, t, c).term = t
                  /\ Ballot(v, t, c).candidate = c
  BY DEF Ballot

LEMMA ArrivedFacts ==
  ASSUME IsFiniteSet(ballots), NEW s
  PROVE  /\ IsFiniteSet(Arrived(s)) /\ Cardinality(Arrived(s)) \in Nat
         /\ Arrived(s) \subseteq ballots
<1>1. Arrived(s) \subseteq ballots
  BY DEF Arrived
<1> QED BY <1>1, FS_Subset, FS_CardinalityType

\* As long as no vote of s is sent again, what has arrived has arrived.
LEMMA ArrivedGrows ==
  ASSUME NEW s \in Server, ballots \subseteq ballots', IsFiniteSet(ballots'),
         term'[s] = term[s],
         \A m \in net' : Grants(m) => m \in net \/ Ballot(m.from, m.term, m.to) \notin ballots
  PROVE  /\ Arrived(s) \subseteq Arrived(s)'
         /\ Cardinality(Arrived(s)) <= Cardinality(Arrived(s)')
<1>1. Arrived(s) \subseteq Arrived(s)'
  BY DEF Arrived
<1>2. IsFiniteSet(Arrived(s)')
  <2>1. Arrived(s)' \subseteq ballots'
    BY DEF Arrived
  <2> QED BY <2>1, FS_Subset
<1> QED BY <1>1, <1>2, FS_Subset

LEMMA WinsGrow ==
  ASSUME WinInv, ballots \subseteq ballots', IsFiniteSet(ballots'), NEW e \in elected
  PROVE  Cardinality(BallotsFor(e)') >= Quorum
<1>1. BallotsFor(e) \subseteq BallotsFor(e)' /\ BallotsFor(e)' \subseteq ballots'
  BY DEF BallotsFor
<1>2. IsFiniteSet(BallotsFor(e)') /\ Cardinality(BallotsFor(e)) <= Cardinality(BallotsFor(e)')
  BY <1>1, FS_Subset
<1>3. /\ Cardinality(BallotsFor(e)) \in Nat /\ Cardinality(BallotsFor(e)') \in Nat
      /\ Cardinality(BallotsFor(e)) >= Quorum
  BY <1>1, <1>2, FS_Subset, FS_CardinalityType DEF WinInv, WinsCounted
<1>4. Quorum \in Int
  BY ServerAssumption, FS_CardinalityType DEF Quorum
<1> QED BY <1>2, <1>3, <1>4

LEMMA BallotFacts ==
  ASSUME TypeOK, NEW b \in ballots
  PROVE  b.voter \in Server /\ b.candidate \in Server /\ b.term \in Nat
  BY BoundAssumption DEF TypeOK, Term

\* Steps that give no vote and open, change and win no election.
LEMMA WinQuiet ==
  ASSUME TypeOK, TypeOK', WinInv, UNCHANGED <<ballots, elected>>,
         \A s \in Server : term'[s] >= term[s],
         \A m \in net' : m \in net \/ (m.type # "VoteRequest" /\ ~Grants(m)),
         \A s \in Server :
            state'[s] = "CANDIDATE" =>
              /\ state[s] = "CANDIDATE" /\ term'[s] = term[s]
              /\ voteQuorum'[s] = voteQuorum[s]
  PROVE  WinInv'
<1>0. IsFiniteSet(ballots') /\ ballots \subseteq ballots'
  BY DEF WinInv
<1>1. \A s \in Server : term[s] \in Nat /\ term'[s] \in Nat
  BY BoundAssumption DEF TypeOK, Term
<1>2. BallotsPast'
  <2> SUFFICES ASSUME NEW b \in ballots PROVE b.term <= term'[b.candidate]
    BY DEF BallotsPast
  <2>1. b.candidate \in Server /\ b.term \in Nat /\ b.term <= term[b.candidate]
    BY BallotFacts DEF WinInv, BallotsPast
  <2> QED BY <1>1, <2>1
<1>3. RequestsOpen'
  <2> SUFFICES ASSUME NEW m \in net', m.type = "VoteRequest"
               PROVE  /\ m.from # m.to /\ m.term <= term'[m.from]
                      /\ Ballot(m.to, m.term, m.from) \notin ballots
    BY DEF RequestsOpen
  <2>1. m \in net
    OBVIOUS
  <2>2. /\ m.from # m.to /\ m.term <= term[m.from]
        /\ Ballot(m.to, m.term, m.from) \notin ballots
    BY <2>1 DEF WinInv, RequestsOpen
  <2>3. m.from \in Server /\ m.term \in Nat
    BY <2>1, MessageFields, BoundAssumption DEF TypeOK, Term
  <2> QED BY <1>1, <2>2, <2>3
<1>4. OneRequest' /\ GrantsOnce'
  BY DEF WinInv, OneRequest, GrantsOnce, Grants
<1>5. YesBacked'
  <2> SUFFICES ASSUME NEW s \in Server, state'[s] = "CANDIDATE"
               PROVE  voteQuorum'[s].yes <= Cardinality(Arrived(s)')
    BY DEF YesBacked
  <2>1. Cardinality(Arrived(s)) <= Cardinality(Arrived(s)')
    BY <1>0, ArrivedGrows
  <2>2. /\ Cardinality(Arrived(s)) \in Nat /\ Cardinality(Arrived(s)') \in Nat
        /\ voteQuorum[s].yes \in Nat /\ voteQuorum[s].yes <= Cardinality(Arrived(s))
    <3>1. Cardinality(Arrived(s)) \in Nat
      BY ArrivedFacts DEF WinInv
    <3>2. Cardinality(Arrived(s)') \in Nat
      BY <1>0, FS_Subset, FS_CardinalityType, Arrived(s)' \subseteq ballots' DEF Arrived
    <3>3. voteQuorum[s].yes \in Nat
      BY voteQuorum[s] \in Election DEF TypeOK, Election
    <3> QED BY <3>1, <3>2, <3>3 DEF WinInv, YesBacked
  <2> QED BY <2>1, <2>2
<1>6. WinsCounted'
  BY <1>0, WinsGrow DEF WinsCounted
<1> QED BY <1>0, <1>2, <1>3, <1>4, <1>5, <1>6 DEF WinInv

\* A new election: the ballot of the candidate is the one vote it counts.
LEMMA WinCandidate ==
  ASSUME TypeOK, TypeOK', WinInv, NEW s \in Server, BecomeCandidate(s)
  PROVE  WinInv'
<1> DEFINE t == term[s] + 1
           new == Ballot(s, t, s)
<1>1. PICK unreachable \in SUBSET Others(s) :
        /\ state' = [state EXCEPT ![s] = "CANDIDATE"]
        /\ term' = [term EXCEPT ![s] = t]
        /\ voteQuorum' = [voteQuorum EXCEPT ![s] = OpenElection(s, unreachable)]
        /\ net' = net \cup {VoteRequest(s, d, t) : d \in Others(s) \ unreachable}
        /\ ballots' = ballots \cup {new}
        /\ elected' = elected
  BY DEF BecomeCandidate, Ballot
<1>2. /\ term[s] \in Nat /\ t \in Nat /\ t > term[s] /\ term'[s] = t
      /\ \A r \in Server : r # s => term'[r] = term[r]
  BY <1>1, TermFacts DEF TypeOK
<1>3. new.voter = s /\ new.term = t /\ new.candidate = s
  BY DEF Ballot
<1>4. \A m \in net' :
        \/ m \in net
        \/ m.type = "VoteRequest" /\ m.from = s /\ m.to \in Server \ {s} /\ m.term = t
  BY <1>1 DEF VoteRequest, Others
<1>5. \A m \in net : /\ m.from \in Server /\ m.to \in Server /\ m.term \in Nat
                     /\ m.type = "VoteRequest" => m.term <= term[m.from]
  BY MessageFields, BoundAssumption DEF TypeOK, Term, WinInv, RequestsOpen
<1>6. IsFiniteSet(ballots') /\ ballots \subseteq ballots'
  BY <1>1, FS_AddElement DEF WinInv
<1>7. \A b \in ballots : b.candidate \in Server /\ b.term \in Nat /\ b.term <= term[b.candidate]
  BY BallotFacts DEF WinInv, BallotsPast
<1> HIDE DEF t, new
<1>8. BallotsPast'
  <2> SUFFICES ASSUME NEW b \in ballots' PROVE b.term <= term'[b.candidate]
    BY DEF BallotsPast
  <2>1. CASE b \in ballots
    <3>1. CASE b.candidate = s
      BY <1>2, <1>7, <2>1, <3>1
    <3>2. CASE b.candidate # s
      BY <1>2, <1>7, <2>1, <3>2
    <3> QED BY <3>1, <3>2
  <2>2. CASE b = new
    BY <1>2, <1>3, <2>2
  <2> QED BY <1>1, <2>1, <2>2
<1>9. RequestsOpen'
  <2> SUFFICES ASSUME NEW m \in net', m.type = "VoteRequest"
               PROVE  /\ m.from # m.to /\ m.term <= term'[m.from]
                      /\ Ballot(m.to, m.term, m.from) \notin ballots'
    BY DEF RequestsOpen
  <2>1. CASE m \in net
    <3>1. /\ m.from # m.to /\ m.term <= term[m.from]
          /\ Ballot(m.to, m.term, m.from) \notin ballots
      BY <2>1 DEF WinInv, RequestsOpen
    <3>2. Ballot(m.to, m.term, m.from) # new
      BY <3>1, BallotRecords DEF new
    <3>3. m.term <= term'[m.from]
      BY <1>2, <1>5, <2>1, <3>1
    <3> QED BY <1>1, <3>1, <3>2, <3>3
  <2>2. CASE m.from = s /\ m.to \in Server \ {s} /\ m.term = t
    <3>1. Ballot(m.to, m.term, m.from) \notin ballots
      <4>1. ASSUME Ballot(m.to, t, s) \in ballots PROVE FALSE
        BY <1>2, <1>7, <4>1, BallotRecords
      <4> QED BY <2>2, <4>1
    <3>2. Ballot(m.to, m.term, m.from) # new
      BY <2>2, BallotRecords DEF new
    <3> QED BY <1>1, <1>2, <2>2, <3>1, <3>2
  <2> QED BY <1>4, <2>1, <2>2
<1>10. OneRequest'
  <2> SUFFICES ASSUME NEW x \in net', NEW y \in net', x.type = "VoteRequest",
                      y.type = "VoteRequest", SameVote(x, y)
               PROVE  x = y
    BY DEF OneRequest
  <2>1. CASE x \in net /\ y \in net
    BY <2>1 DEF WinInv, OneRequest
  <2>2. \A m \in net : m.type = "VoteRequest" => ~(m.from = s /\ m.term = t)
    BY <1>2, <1>5
  <2>3. CASE x \notin net \/ y \notin net
    <3>1. x \notin net /\ y \notin net
      BY <1>4, <2>2, <2>3 DEF SameVote
    <3>2. PICK d : x = VoteRequest(s, d, t)
      BY <1>1, <3>1
    <3>3. PICK e : y = VoteRequest(s, e, t)
      BY <1>1, <3>1
    <3> QED BY <3>2, <3>3 DEF SameVote, VoteRequest
  <2> QED BY <2>1, <2>3
<1>11. GrantsOnce'
  BY <1>4, <1>6 DEF WinInv, GrantsOnce, Grants
<1>12. YesBacked'
  <2> SUFFICES ASSUME NEW r \in Server, state'[r] = "CANDIDATE"
               PROVE  voteQuorum'[r].yes <= Cardinality(Arrived(r)')
    BY DEF YesBacked
  <2>1. IsFiniteSet(Arrived(r)') /\ Cardinality(Arrived(r)') \in Nat
    BY <1>6, FS_Subset, FS_CardinalityType, Arrived(r)' \subseteq ballots' DEF Arrived
  <2>2. CASE r = s
    <3>1. voteQuorum'[r].yes = 1
      BY <1>1, <2>2 DEF TypeOK, OpenElection
    <3>2. new \in Arrived(r)'
      <4>1. \A m \in net' : Grants(m) => Ballot(m.from, m.term, m.to) # new
        BY <1>4, BallotRecords DEF WinInv, GrantsOnce, Grants, new
      <4> QED BY <1>1, <1>2, <1>3, <2>2, <4>1 DEF Arrived
    <3>3. Cardinality({new}) = 1 /\ Cardinality({new}) <= Cardinality(Arrived(r)')
      BY <2>1, <3>2, FS_Singleton, FS_Subset, {new} \subseteq Arrived(r)'
    <3> QED BY <2>1, <3>1, <3>3
  <2>3. CASE r # s
    <3>1. state[r] = "CANDIDATE" /\ voteQuorum'[r] = voteQuorum[r] /\ term'[r] = term[r]
      BY <1>1, <2>3 DEF TypeOK
    <3>2. \A m \in net' : Grants(m) => m \in net
      BY <1>4 DEF Grants
    <3>3. Cardinality(Arrived(r)) <= Cardinality(Arrived(r)')
      BY <1>6, <3>1, <3>2, ArrivedGrows
    <3>4. /\ Cardinality(Arrived(r)) \in Nat /\ voteQuorum[r].yes \in Nat
          /\ voteQuorum[r].yes <= Cardinality(Arrived(r))
      BY <3>1, ArrivedFacts, voteQuorum[r] \in Election DEF WinInv, YesBacked, TypeOK, Election
    <3> QED BY <2>1, <3>1, <3>3, <3>4
  <2> QED BY <2>2, <2>3
<1>13. WinsCounted'
  BY <1>1, <1>6, WinsGrow DEF WinsCounted
<1> QED BY <1>6, <1>8, <1>9, <1>10, <1>11, <1>12, <1>13 DEF WinInv

\* A vote is given: its request is used up, its answer is under way.
LEMMA WinGrant ==
  ASSUME TypeOK, TypeOK', WinInv, NEW m \in net, m.type = "VoteRequest",
         AnswerVote(m, m.term, TRUE), UNCHANGED elected,
         ballots' = ballots \cup {Ballot(m.to, m.term, m.from)},
         \A s \in Server : term'[s] >= term[s],
         \A s \in Server :
            state'[s] = "CANDIDATE" =>
              /\ state[s] = "CANDIDATE" /\ term'[s] = term[s]
              /\ voteQuorum'[s] = voteQuorum[s]
  PROVE  WinInv'
<1> DEFINE new == Ballot(m.to, m.term, m.from)
           r == VoteResponse(m, m.term, TRUE)
<1>1. /\ r.from = m.to /\ r.to = m.from /\ r.term = m.term /\ r.of = m.term
      /\ r.type = "VoteResponse" /\ r.granted
  BY DEF VoteResponse
<1>2. net' \subseteq (net \ {m}) \cup {r}
  BY DEF AnswerVote
<1>3. m.from \in Server /\ m.to \in Server /\ m.term \in Nat
  BY MessageFields, BoundAssumption DEF TypeOK, Term
<1>4. m.from # m.to /\ m.term <= term[m.from] /\ new \notin ballots
  BY DEF WinInv, RequestsOpen
<1>5. \A s \in Server : term[s] \in Nat /\ term'[s] \in Nat
  BY BoundAssumption DEF TypeOK, Term
<1>6. ballots' = ballots \cup {new} /\ IsFiniteSet(ballots') /\ ballots \subseteq ballots'
  BY FS_AddElement DEF WinInv
<1>0. new.candidate = m.from /\ new.term = m.term
  BY DEF Ballot
<1> HIDE DEF new, r
<1>7. BallotsPast'
  <2> SUFFICES ASSUME NEW b \in ballots' PROVE b.term <= term'[b.candidate]
    BY DEF BallotsPast
  <2>1. b.candidate \in Server /\ b.term \in Nat /\ b.term <= term[b.candidate]
    BY <1>0, <1>3, <1>4, <1>6, BallotFacts DEF WinInv, BallotsPast
  <2> QED BY <1>5, <2>1
<1>8. \A x \in net' : x.type = "VoteRequest" => x \in net /\ x # m
  BY <1>1, <1>2
<1>9. RequestsOpen'
  <2> SUFFICES ASSUME NEW x \in net', x.type = "VoteRequest"
               PROVE  /\ x.from # x.to /\ x.term <= term'[x.from]
                      /\ Ballot(x.to, x.term, x.from) \notin ballots'
    BY DEF RequestsOpen
  <2>1. /\ x.from # x.to /\ x.term <= term[x.from]
        /\ Ballot(x.to, x.term, x.from) \notin ballots
    BY <1>8 DEF WinInv, RequestsOpen
  <2>2. x.from \in Server /\ x.term \in Nat
    BY <1>8, MessageFields, BoundAssumption DEF TypeOK, Term
  <2>3. Ballot(x.to, x.term, x.from) # new
    <3>1. ~SameVote(x, m)
      BY <1>8 DEF WinInv, OneRequest
    <3> QED BY <3>1, BallotRecords DEF SameVote, new
  <2> QED BY <1>5, <1>6, <2>1, <2>2, <2>3
<1>10. OneRequest'
  BY <1>8 DEF WinInv, OneRequest
<1>11. GrantsOnce'
  <2> SUFFICES ASSUME NEW x \in net', Grants(x)
               PROVE  /\ x.of = x.term /\ x.from # x.to
                      /\ Ballot(x.from, x.term, x.to) \in ballots'
    BY DEF GrantsOnce, Grants
  <2>1. CASE x \in net
    BY <1>6, <2>1 DEF WinInv, GrantsOnce
  <2>2. CASE x = r
    BY <1>1, <1>4, <1>6, <2>2 DEF new
  <2> QED BY <1>2, <2>1, <2>2
<1>12. YesBacked'
  <2> SUFFICES ASSUME NEW s \in Server, state'[s] = "CANDIDATE"
               PROVE  voteQuorum'[s].yes <= Cardinality(Arrived(s)')
    BY DEF YesBacked
  <2>1. \A x \in net' : Grants(x) => x \in net \/ Ballot(x.from, x.term, x.to) \notin ballots
    BY <1>1, <1>2, <1>4 DEF new
  <2>2. Cardinality(Arrived(s)) <= Cardinality(Arrived(s)')
    BY <1>6, <2>1, ArrivedGrows
  <2>3. Cardinality(Arrived(s)') \in Nat
    BY <1>6, FS_Subset, FS_CardinalityType, Arrived(s)' \subseteq ballots' DEF Arrived
  <2>4. /\ Cardinality(Arrived(s)) \in Nat /\ voteQuorum[s].yes \in Nat
        /\ voteQuorum[s].yes <= Cardinality(Arrived(s))
    BY ArrivedFacts, voteQuorum[s] \in Election DEF WinInv, YesBacked, TypeOK, Election
  <2> QED BY <2>2, <2>3, <2>4
<1>13. WinsCounted'
  BY <1>6, WinsGrow DEF WinsCounted
<1> QED BY <1>6, <1>7, <1>9, <1>10, <1>11, <1>12, <1>13 DEF WinInv

\* A result is merged whose successes have arrived.
LEMMA WinMerge ==
  ASSUME TypeOK, TypeOK', WinInv, NEW s \in Server, NEW q \in Election, Merge(s, q),
         q.yes <= Cardinality(Arrived(s)'), UNCHANGED ballots,
         \A m \in net' : Grants(m) => m \in net,
         RequestsOpen', OneRequest'
  PROVE  WinInv'
<1>1. term' = term /\ IsFiniteSet(ballots')
  BY DEF Merge, WinInv
<1>2. BallotsPast'
  BY <1>1 DEF WinInv, BallotsPast
<1>3. GrantsOnce'
  BY DEF WinInv, GrantsOnce, Grants
<1>4. \A r \in Server :
        /\ IsFiniteSet(Arrived(r)') /\ Cardinality(Arrived(r)') \in Nat
        /\ Cardinality(Arrived(r)) \in Nat
        /\ Cardinality(Arrived(r)) <= Cardinality(Arrived(r)')
  <2> SUFFICES ASSUME NEW r \in Server
               PROVE  /\ IsFiniteSet(Arrived(r)') /\ Cardinality(Arrived(r)') \in Nat
                      /\ Cardinality(Arrived(r)) \in Nat
                      /\ Cardinality(Arrived(r)) <= Cardinality(Arrived(r)')
    OBVIOUS
  <2>1. IsFiniteSet(Arrived(r)') /\ Cardinality(Arrived(r)') \in Nat
    BY <1>1, FS_Subset, FS_CardinalityType, Arrived(r)' \subseteq ballots' DEF Arrived
  <2>2. Cardinality(Arrived(r)) <= Cardinality(Arrived(r)')
    BY <1>1, ArrivedGrows
  <2> QED BY <2>1, <2>2, ArrivedFacts DEF WinInv
<1>5. YesBacked'
  <2> SUFFICES ASSUME NEW r \in Server, state'[r] = "CANDIDATE"
               PROVE  voteQuorum'[r].yes <= Cardinality(Arrived(r)')
    BY DEF YesBacked
  <2>1. CASE r = s
    <3>1. voteQuorum'[r] = q
      BY <2>1 DEF Merge, BecomeLeader, TypeOK
    <3> QED BY <2>1, <3>1
  <2>2. CASE r # s
    <3>1. state[r] = "CANDIDATE" /\ voteQuorum'[r] = voteQuorum[r]
      BY <2>2 DEF Merge, BecomeLeader, TypeOK
    <3>2. voteQuorum[r].yes \in Nat /\ voteQuorum[r].yes <= Cardinality(Arrived(r))
      BY <3>1, voteQuorum[r] \in Election DEF WinInv, YesBacked, TypeOK, Election
    <3> QED BY <1>4, <3>1, <3>2
  <2> QED BY <2>1, <2>2
<1>6. WinsCounted'
  <2> SUFFICES ASSUME NEW e \in elected' PROVE Cardinality(BallotsFor(e)') >= Quorum
    BY DEF WinsCounted
  <2>1. CASE e \in elected
    BY <1>1, <2>1, WinsGrow
  <2>2. CASE e \notin elected
    <3>1. Wins(q) /\ e = [leader |-> s, term |-> term[s], fresh |-> q.fresh]
      BY <2>2 DEF Merge, BecomeLeader
    <3>2. e.leader = s /\ e.term = term[s]
      BY <3>1
    <3>3. Arrived(s)' \subseteq BallotsFor(e)' /\ BallotsFor(e)' \subseteq ballots'
      BY <1>1, <3>2 DEF Arrived, BallotsFor
    <3>4. /\ IsFiniteSet(BallotsFor(e)') /\ Cardinality(BallotsFor(e)') \in Nat
          /\ Cardinality(Arrived(s)') <= Cardinality(BallotsFor(e)')
      BY <1>1, <3>3, FS_Subset, FS_CardinalityType
    <3>5. q.yes >= Quorum /\ q.yes \in Nat /\ Quorum \in Int
      BY <3>1, ServerAssumption, FS_CardinalityType DEF Wins, Quorum, Election
    <3> QED BY <1>4, <3>4, <3>5
  <2> QED BY <2>1, <2>2
<1> QED BY <1>1, <1>2, <1>3, <1>5, <1>6 DEF WinInv

\* A counted vote has arrived with the response that is removed.
LEMMA WinSuccess ==
  ASSUME TypeOK, WinInv, NEW m \in net, Grants(m), m.term <= term[m.to],
         state[m.to] = "CANDIDATE", net' = net \ {m}, UNCHANGED <<ballots, term>>
  PROVE  MergeSuccess(m.to, m.from, m.term).yes <= Cardinality(Arrived(m.to)')
<1> DEFINE s == m.to
           new == Ballot(m.from, m.term, s)
           q == voteQuorum[s]
<1>1. m.from \in Server /\ s \in Server /\ m \in VoteResponses
  BY MessageFields DEF TypeOK, Grants
<1>2. new \in ballots /\ new \notin Arrived(s)
  BY DEF WinInv, GrantsOnce, Arrived
<1>3. new \in Arrived(s)'
  <2>1. \A x \in net' : Grants(x) => Ballot(x.from, x.term, x.to) # new
    <3> SUFFICES ASSUME NEW x \in net, Grants(x), x # m, Ballot(x.from, x.term, x.to) = new
                 PROVE  FALSE
      OBVIOUS
    <3>1. x \in VoteResponses
      BY MessageFields DEF TypeOK, Grants
    <3>2. x.from = m.from /\ x.term = m.term /\ x.to = m.to
      BY BallotRecords
    <3>3. x.of = x.term /\ m.of = m.term /\ x.granted = TRUE /\ m.granted = TRUE
      BY <1>1, <3>1 DEF WinInv, GrantsOnce, Grants, VoteResponses
    <3> QED BY <1>1, <3>1, <3>2, <3>3 DEF VoteResponses
  <2>2. new.candidate = s /\ new.term = m.term /\ new.voter = m.from /\ m.from # s
    BY DEF Ballot, WinInv, GrantsOnce
  <2> QED BY <1>2, <2>1, <2>2 DEF Arrived
<1>4. /\ IsFiniteSet(ballots') /\ ballots \subseteq ballots'
      /\ IsFiniteSet(Arrived(s)) /\ Cardinality(Arrived(s)) \in Nat
  BY ArrivedFacts DEF WinInv
<1>5. Arrived(s) \subseteq Arrived(s)'
  BY <1>1, <1>4, ArrivedGrows
<1>6. Cardinality(Arrived(s) \cup {new}) = Cardinality(Arrived(s)) + 1
  BY <1>2, <1>4, FS_AddElement
<1>7. IsFiniteSet(Arrived(s)') /\ Cardinality(Arrived(s)') \in Nat
  BY <1>4, FS_Subset, FS_CardinalityType, Arrived(s)' \subseteq ballots' DEF Arrived
<1>8. Cardinality(Arrived(s) \cup {new}) <= Cardinality(Arrived(s)')
  BY <1>3, <1>5, <1>7, FS_Subset, Arrived(s) \cup {new} \subseteq Arrived(s)'
<1>9. MergeSuccess(s, m.from, m.term).yes = q.yes + 1 /\ q.yes \in Nat
  BY <1>1, q \in Election DEF MergeSuccess, TypeOK, Election
<1>10. q.yes <= Cardinality(Arrived(s))
  BY <1>1 DEF WinInv, YesBacked
<1> QED BY <1>4, <1>6, <1>7, <1>8, <1>9, <1>10

LEMMA WinStep == TypeOK /\ WinInv /\ [Next]_vars => WinInv'
<1> SUFFICES ASSUME TypeOK, WinInv, [Next]_vars PROVE WinInv'
  OBVIOUS
<1>0. TypeOK' /\ net \subseteq Message /\ \A s \in Server : term'[s] >= term[s]
  BY TypeStep, TermsGrow DEF TypeOK
<1>1. ASSUME NEW s \in Server, NEW t, NEW v, FallBehind(s, t, v)
      PROVE  \A r \in Server :
               state'[r] = "CANDIDATE" =>
                 /\ state[r] = "CANDIDATE" /\ term'[r] = term[r]
                 /\ voteQuorum'[r] = voteQuorum[r]
  <2> SUFFICES ASSUME NEW r \in Server, state'[r] = "CANDIDATE"
               PROVE  /\ state[r] = "CANDIDATE" /\ term'[r] = term[r]
                      /\ voteQuorum'[r] = voteQuorum[r]
    OBVIOUS
  <2>1. r # s
    BY <1>1 DEF FallBehind, TypeOK
  <2> QED BY <1>1, <2>1 DEF FallBehind, TypeOK
<1>2. ASSUME NEW s \in Server, Timeout(s) PROVE WinInv'
  BY <1>0, <1>2, WinCandidate DEF Timeout, HeartbeatTimeout, ElectTimeout
<1>3. ASSUME NEW m \in net, VoteInNewerTerm(m) PROVE WinInv'
  <2>1. m.to \in Server
    BY <1>0, MessageFields
  <2>2. /\ m.type = "VoteRequest" /\ FallBehind(m.to, m.term, m.from)
        /\ AnswerVote(m, m.term, TRUE) /\ UNCHANGED elected
        /\ ballots' = ballots \cup {Ballot(m.to, m.term, m.from)}
    BY <1>3 DEF VoteInNewerTerm, Receives, Ballot
  <2> QED BY <1>0, <1>1, <2>1, <2>2, WinGrant
<1>4. ASSUME NEW m \in net, VoteInOwnTerm(m) PROVE WinInv'
  <2>1. /\ m.type = "VoteRequest" /\ AnswerVote(m, term[m.to], MayGrant(m))
        /\ UNCHANGED <<term, state, voteQuorum, elected>>
    BY <1>4 DEF VoteInOwnTerm, Receives
  <2>2. CASE MayGrant(m)
    <3>1. AnswerVote(m, m.term, TRUE)
      <4>1. term[m.to] = m.term /\ MayGrant(m) = TRUE
        BY <2>2 DEF MayGrant
      <4> QED BY <2>1, <4>1
    <3>2. ballots' = ballots \cup {Ballot(m.to, m.term, m.from)}
      BY <1>4, <2>2 DEF VoteInOwnTerm, Ballot
    <3> QED BY <1>0, <2>1, <3>1, <3>2, WinGrant
  <2>3. CASE ~MayGrant(m)
    <3>1. \A x \in net' : x \in net \/ (x.type # "VoteRequest" /\ ~Grants(x))
      <4>1. MayGrant(m) = FALSE
        BY <2>3 DEF MayGrant
      <4>2. net' \subseteq net \cup {VoteResponse(m, term[m.to], FALSE)}
        BY <2>1, <4>1 DEF AnswerVote
      <4> QED BY <4>2 DEF VoteResponse, Grants
    <3>2. UNCHANGED ballots
      BY <1>4, <2>3 DEF VoteInOwnTerm
    <3> QED BY <1>0, <2>1, <3>1, <3>2, WinQuiet
  <2> QED BY <2>2, <2>3
<1>5. ASSUME NEW s \in Server, state[s] = "CANDIDATE", UNCHANGED <<term, ballots>>,
             \A x \in net' : Grants(x) => x \in net
      PROVE  MergeFailure(s).yes <= Cardinality(Arrived(s)')
  <2>1. MergeFailure(s).yes = voteQuorum[s].yes /\ voteQuorum[s].yes \in Nat
    BY voteQuorum[s] \in Election DEF MergeFailure, TypeOK, Election
  <2>2. /\ voteQuorum[s].yes <= Cardinality(Arrived(s)) /\ Cardinality(Arrived(s)) \in Nat
        /\ IsFiniteSet(ballots')
    BY <1>5, ArrivedFacts DEF WinInv, YesBacked
  <2>3. Cardinality(Arrived(s)) <= Cardinality(Arrived(s)')
    BY <1>5, <2>2, ArrivedGrows
  <2>4. Cardinality(Arrived(s)') \in Nat
    BY <2>2, FS_Subset, FS_CardinalityType, Arrived(s)' \subseteq ballots' DEF Arrived
  <2> QED BY <2>1, <2>2, <2>3, <2>4
<1>6. ASSUME NEW m \in net, CountVote(m) PROVE WinInv'
  <2>1. m.from \in Server /\ m.to \in Server /\ m.term \in Term
    BY <1>0, MessageFields
  <2> DEFINE q == IF m.granted THEN MergeSuccess(m.to, m.from, m.term)
                               ELSE MergeFailure(m.to)
  <2>2. q \in Election
    BY <2>1, MergeSuccessType, MergeFailureType
  <2>3. /\ Merge(m.to, q) /\ net' = net \ {m} /\ UNCHANGED <<term, ballots>>
        /\ m.type = "VoteResponse" /\ state[m.to] = "CANDIDATE" /\ m.term <= term[m.to]
    BY <1>6 DEF CountVote, Receives, Merge
  <2>4. q.yes <= Cardinality(Arrived(m.to)')
    <3>1. CASE m.granted
      BY <2>3, <3>1, WinSuccess DEF Grants
    <3>2. CASE ~m.granted
      BY <1>5, <2>1, <2>3, <3>2
    <3> QED BY <3>1, <3>2
  <2>5. RequestsOpen' /\ OneRequest'
    BY <2>3 DEF WinInv, RequestsOpen, OneRequest
  <2> HIDE DEF q
  <2> QED BY <1>0, <2>1, <2>2, <2>3, <2>4, <2>5, WinMerge
<1>7. ASSUME NEW m \in net, VoteTimeout(m) PROVE WinInv'
  <2> DEFINE c == IF m.type = "VoteRequest" THEN m.from ELSE m.to
             late == [m EXCEPT !.awaited = FALSE]
  <2>1. c \in Server
    BY <1>0, MessageFields
  <2>2. MergeFailure(c) \in Election
    BY <2>1, MergeFailureType
  <2>3. /\ Merge(c, MergeFailure(c)) /\ state[c] = "CANDIDATE"
        /\ UNCHANGED <<term, ballots>>
    BY <1>7 DEF VoteTimeout, Merge
  <2>4. /\ \A x \in net' : Grants(x) => x \in net
        /\ RequestsOpen' /\ OneRequest'
    <3>1. CASE m.type = "VoteRequest"
      <4>1. m \in VoteRequests
        BY <1>0, <3>1, MessageFields
      <4>2. late.type = "VoteRequest" /\ SameVote(late, m)
        BY <4>1 DEF VoteRequests, SameVote
      <4>3. net' = (net \ {m}) \cup {late}
        BY <1>7, <3>1 DEF VoteTimeout
      <4> HIDE DEF late
      <4>4. RequestsOpen'
        BY <2>3, <3>1, <4>2, <4>3 DEF WinInv, RequestsOpen, SameVote
      <4>5. OneRequest'
        BY <3>1, <4>2, <4>3 DEF WinInv, OneRequest, SameVote
      <4> QED BY <4>2, <4>3, <4>4, <4>5 DEF Grants
    <3>2. CASE m.type # "VoteRequest"
      <4>1. net' = net \ {m}
        BY <1>7, <3>2 DEF VoteTimeout
      <4> QED BY <2>3, <4>1 DEF WinInv, RequestsOpen, OneRequest
    <3> QED BY <3>1, <3>2
  <2> QED BY <1>0, <1>5, <2>1, <2>2, <2>3, <2>4, WinMerge
<1>8. ASSUME NEW m \in net, LearnTerm(m) \/ AcceptAppend(m) PROVE WinInv'
  <2>1. m.to \in Server /\ UNCHANGED <<ballots, elected>>
    BY <1>0, <1>8, MessageFields DEF LearnTerm, AcceptAppend
  <2>2. \A x \in net' : x \in net \/ (x.type # "VoteRequest" /\ ~Grants(x))
    BY <1>8 DEF LearnTerm, AcceptAppend, AppendResponse, Grants
  <2>3. CASE FallBehind(m.to, m.term, NoServer)
    BY <1>0, <1>1, <2>1, <2>2, <2>3, WinQuiet
  <2>4. CASE UNCHANGED <<term, votedFor, state, voteQuorum>>
    BY <1>0, <2>1, <2>2, <2>4, WinQuiet
  <2> QED BY <1>8, <2>3, <2>4 DEF LearnTerm, AcceptAppend
<1>9. ASSUME NEW m \in net, ExitOnAppend(m) PROVE WinInv'
  <2>1. m.to \in Server /\ UNCHANGED <<ballots, elected, voteQuorum>> /\ net' \subseteq net
    BY <1>0, <1>9, MessageFields DEF ExitOnAppend
  <2>2. ASSUME NEW r \in Server, state'[r] = "CANDIDATE"
        PROVE  state[r] = "CANDIDATE" /\ term'[r] = term[r]
    <3>1. r # m.to
      BY <1>9, <2>1, <2>2 DEF ExitOnAppend, TypeOK
    <3> QED BY <1>9, <2>2, <3>1 DEF ExitOnAppend, TypeOK
  <2> QED BY <1>0, <2>1, <2>2, WinQuiet
<1>10. ASSUME NEW m \in net, AppendLost(m) \/ RefuseAppend(m) PROVE WinInv'
  <2>1. \A x \in net' : x \in net \/ (x.type # "VoteRequest" /\ ~Grants(x))
    BY <1>10 DEF AppendLost, RefuseAppend, AppendResponse, Grants
  <2> QED BY <1>0, <1>10, <2>1, WinQuiet DEF AppendLost, RefuseAppend
<1>11. ASSUME NEW s \in Server, NEW d \in Others(s),
              StartReplicate(s, d) \/ SendAppend(s, d)
       PROVE  WinInv'
  <2>1. \A x \in net' : x \in net \/ (x.type # "VoteRequest" /\ ~Grants(x))
    BY <1>11 DEF StartReplicate, SendAppend, AppendRequest, Grants
  <2> QED BY <1>0, <1>11, <2>1, WinQuiet DEF StartReplicate, SendAppend
<1>12. CASE UNCHANGED vars
  BY <1>0, <1>12, WinQuiet DEF vars
<1> QED BY <1>2, <1>3, <1>4, <1>6, <1>7, <1>8, <1>9, <1>10, <1>11, <1>12
        DEF Next, Deliver

\* In a cluster of odd size every win has as many distinct ballots behind it as
\* a majority has members: the winner's own of that term and others', which may
\* be of older terms.  With an even number of members a quorum is a half.
THEOREM WinSafe ==
  ASSUME Cardinality(Server) % 2 = 1 PROVE Spec => []WinIsBacked
<1>1. WinInv => WinIsBacked
  <2> SUFFICES ASSUME WinInv, NEW e \in elected
               PROVE  2 * Cardinality(BallotsFor(e)) > Cardinality(Server)
    BY DEF WinIsBacked
  <2>1. Cardinality(BallotsFor(e)) >= Quorum
    BY DEF WinInv, WinsCounted
  <2>2. Cardinality(BallotsFor(e)) \in Nat /\ Cardinality(Server) \in Nat
    BY ServerAssumption, FS_Subset, FS_CardinalityType, BallotsFor(e) \subseteq ballots
    DEF WinInv, BallotsFor
  <2> QED BY <2>1, <2>2 DEF Quorum
<1> QED BY <1>1, WinInit, WinStep, TypeCorrect, PTL DEF Spec
=============================================================================
