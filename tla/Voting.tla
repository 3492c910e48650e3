------------------------------- MODULE Voting -------------------------------
(***************************************************************************)
(* What an election may rely on, whatever the messages do: a server moves  *)
(* to newer terms only, and in one term it gives its vote to one candidate *)
(* only.  RaftElection implements this specification with the same         *)
(* variables.                                                              *)
(***************************************************************************)
EXTENDS Integers

CONSTANTS Server, NoServer, Term

\* What the theorems assume of the constants, each as its hypothesis.
VotingConstants == /\ NoServer \notin Server
                   /\ Term \subseteq Nat /\ 0 \in Term

VARIABLES term, votedFor, ballots

vars == <<term, votedFor, ballots>>

Ballot == [voter : Server, term : Term, candidate : Server]

Init ==
  /\ term = [s \in Server |-> 0]
  /\ votedFor = [s \in Server |-> NoServer]
  /\ ballots = {}

Cast(s, t, c) ==
  ballots' = ballots \cup {[voter |-> s, term |-> t, candidate |-> c]}

\* Move to a newer term without a vote.
Abstain(s, t) ==
  /\ t > term[s]
  /\ term' = [term EXCEPT ![s] = t]
  /\ votedFor' = [votedFor EXCEPT ![s] = NoServer]
  /\ UNCHANGED ballots

\* Move to a newer term and vote in it.
VoteAhead(s, t, c) ==
  /\ t > term[s]
  /\ term' = [term EXCEPT ![s] = t]
  /\ votedFor' = [votedFor EXCEPT ![s] = c]
  /\ Cast(s, t, c)

\* Vote in the current term, or repeat the vote already given.
VoteNow(s, c) ==
  /\ votedFor[s] \in {NoServer, c}
  /\ votedFor' = [votedFor EXCEPT ![s] = c]
  /\ Cast(s, term[s], c)
  /\ UNCHANGED term

Next ==
  \E s \in Server :
    \/ \E t \in Term : Abstain(s, t)
    \/ \E t \in Term, c \in Server : VoteAhead(s, t, c)
    \/ \E c \in Server : VoteNow(s, c)

Spec == Init /\ [][Next]_vars
-----------------------------------------------------------------------------
\* No server gives its vote to two candidates in one term (the check of
\* votedFor in AbstractState.handle(VoteRequest)).
OneVotePerTerm ==
  \A x, y \in ballots :
    x.voter = y.voter /\ x.term = y.term => x.candidate = y.candidate
=============================================================================
