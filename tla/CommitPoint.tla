------------------------------ MODULE CommitPoint ------------------------------
(***************************************************************************)
(* What a commit index promises, whatever the replicators and the messages *)
(* do: it never goes back, a majority of the members has stored something  *)
(* at that index or beyond it, and a server only applies what it has       *)
(* committed.  Nothing is said of what is stored there: Replication, which *)
(* implements this specification, does not keep logs equal.                *)
(***************************************************************************)
EXTENDS Integers, FiniteSets

CONSTANTS
  Server,   \* all servers, those that may join later included
  Members,  \* the members every server is configured with
  Index     \* log indexes, from 1

VARIABLES
  held,   \* held[s]: indexes under which s has stored an entry
  point,  \* point[s]: commit index of s
  done    \* done[s]: index of the last entry s has applied

vars == <<held, point, done>>

Reaches(h, s, i) == \E j \in h[s] : j >= i

\* i is backed by more than half of some cluster, Members or one grown from it.
Chosen(h, i) ==
  \E cluster \in SUBSET Server :
    /\ Members \subseteq cluster
    /\ 2 * Cardinality({s \in cluster : Reaches(h, s, i)}) > Cardinality(cluster)

Init ==
  /\ held = [s \in Server |-> {}]
  /\ point = [s \in Server |-> 0]
  /\ done = [s \in Server |-> 0]

\* A server stores entries, moves its commit index, or both.
Advance(s) ==
  /\ \E more \in SUBSET Index : held' = [held EXCEPT ![s] = @ \cup more]
  /\ \E i \in Index \cup {0} :
       /\ i >= point[s] /\ (i > point[s] => Chosen(held', i))
       /\ point' = [point EXCEPT ![s] = i]
  /\ UNCHANGED done

Apply(s) ==
  /\ \E i \in Index : done[s] < i /\ i <= point[s] /\ done' = [done EXCEPT ![s] = i]
  /\ UNCHANGED <<held, point>>

Next == \E s \in Server : Advance(s) \/ Apply(s)

Spec == Init /\ [][Next]_vars
-----------------------------------------------------------------------------
\* What any server has committed, a majority has stored something for.
CommittedIsHeld == \A s \in Server : point[s] > 0 => Chosen(held, point[s])
=============================================================================
