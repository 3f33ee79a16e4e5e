------------------------------ MODULE VoteLedger ------------------------------
(***************************************************************************)
(* What the election promises, without messages, roles or hosts: every     *)
(* node keeps a durable term that never decreases, casts at most one       *)
(* durable vote per term, and a leader of a term holds the votes of a      *)
(* quorum.  Cluster implements this specification (core.rs:                *)
(* become_candidate, on_vote_request, on_vote_response and the persist     *)
(* barriers between them).                                                 *)
(***************************************************************************)
EXTENDS Naturals, FiniteSets

CONSTANTS
    Node,   \* the members
    Term    \* the terms that may be reached

ASSUME LedgerAssumption == IsFiniteSet(Node) /\ Term \subseteq Nat

VARIABLES
    term,     \* durable term of each node
    votes,    \* <<node, term, candidate>> for every durable vote
    leaders   \* <<term, node>> for every leader that took office

vars == <<term, votes, leaders>>

\* Faulty variant: half of the members are enough.
HalfIsQuorum(Q) == Cardinality(Q) >= Cardinality(Node) \div 2

IsQuorum(Q) == Cardinality(Q) >= Cardinality(Node) \div 2 + 1

VotedIn(n, t) == \E c \in Node : <<n, t, c>> \in votes

\* A cluster may start with terms and votes left from an earlier life.
Init ==
    /\ term \in [Node -> Term]
    /\ votes \subseteq Node \X Term \X Node
    /\ \A n, c, d \in Node, t \in Term :
          <<n, t, c>> \in votes => t <= term[n] /\ (<<n, t, d>> \in votes => c = d)
    /\ leaders = {}

\* A node learns of a higher term.
Adopt(n, t) ==
    /\ t > term[n]
    /\ term' = [term EXCEPT ![n] = t]
    /\ UNCHANGED <<votes, leaders>>

\* Faulty variant: a vote for a later term leaves the voter's term behind.
VoteAhead(n, t, c) ==
    /\ t >= term[n]
    /\ ~VotedIn(n, t)
    /\ votes' = votes \cup {<<n, t, c>>}
    /\ UNCHANGED <<term, leaders>>

\* A node votes, in its own term or while adopting a higher one.
Vote(n, t, c) ==
    /\ t >= term[n]
    /\ ~VotedIn(n, t)
    /\ term' = [term EXCEPT ![n] = t]
    /\ votes' = votes \cup {<<n, t, c>>}
    /\ UNCHANGED leaders

\* A candidate with a quorum of votes takes office.
Elect(t, c) ==
    /\ IsQuorum({n \in Node : <<n, t, c>> \in votes})
    /\ leaders' = leaders \cup {<<t, c>>}
    /\ UNCHANGED <<term, votes>>

Next ==
    \/ \E n \in Node, t \in Term : Adopt(n, t)
    \/ \E n, c \in Node, t \in Term : Vote(n, t, c)
    \/ \E t \in Term, c \in Node : Elect(t, c)

Spec == Init /\ [][Next]_vars
-----------------------------------------------------------------------------
\* The ledger's values; a vote is never ahead of the durable term.
TypeOK ==
    /\ term \in [Node -> Term]
    /\ votes \subseteq Node \X Term \X Node
    /\ leaders \subseteq Term \X Node
    /\ \A v \in votes : v[2] <= term[v[1]]

\* Election Safety: no two nodes ever lead in the same term.
OneLeaderPerTerm ==
    \A t \in Term, c, d \in Node :
        <<t, c>> \in leaders /\ <<t, d>> \in leaders => c = d
=============================================================================
