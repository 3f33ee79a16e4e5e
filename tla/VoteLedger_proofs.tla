--------------------------- MODULE VoteLedger_proofs ---------------------------
(***************************************************************************)
(* Election Safety of the vote ledger, for every finite set of nodes and   *)
(* every set of terms.                                                     *)
(***************************************************************************)
EXTENDS VoteLedger, FiniteSetTheorems, TLAPS

Voters(t, c) == {n \in Node : <<n, t, c>> \in votes}

\* At most one vote per node and term.
VoteOnce ==
    \A n, c, d \in Node, t \in Term :
        <<n, t, c>> \in votes /\ <<n, t, d>> \in votes => c = d

\* Every leader was elected by a quorum whose votes are still in the ledger.
LeadersBacked ==
    \A t \in Term, c \in Node : <<t, c>> \in leaders => IsQuorum(Voters(t, c))

\* The inductive invariant: OneLeaderPerTerm alone is not preserved, since an
\* election looks only at the votes.
IInv == TypeOK /\ VoteOnce /\ LeadersBacked

\* Two quorums of the same node set share a member.
LEMMA QuorumsIntersect ==
    ASSUME NEW P \in SUBSET Node, NEW Q \in SUBSET Node, IsQuorum(P), IsQuorum(Q)
    PROVE  P \cap Q # {}
<1>1. /\ IsFiniteSet(Node) /\ IsFiniteSet(P) /\ IsFiniteSet(Q)
      /\ Cardinality(Node) \in Nat /\ Cardinality(P) \in Nat /\ Cardinality(Q) \in Nat
  BY LedgerAssumption, FS_Subset, FS_CardinalityType
<1>2. Cardinality(P) + Cardinality(Q) > Cardinality(Node)
  BY <1>1 DEF IsQuorum
<1> QED
  BY <1>1, <1>2, FS_MajoritiesIntersect

\* More votes do not take a quorum away.
LEMMA QuorumGrows ==
    ASSUME NEW P \in SUBSET Node, NEW Q \in SUBSET Node, P \subseteq Q, IsQuorum(P)
    PROVE  IsQuorum(Q)
<1>1. /\ IsFiniteSet(Q) /\ Cardinality(P) <= Cardinality(Q)
      /\ Cardinality(Node) \in Nat /\ Cardinality(P) \in Nat /\ Cardinality(Q) \in Nat
  BY LedgerAssumption, FS_Subset, FS_CardinalityType
<1> QED
  BY <1>1 DEF IsQuorum

\* The ledger's invariant holds initially.
LEMMA InitIInv == Init => IInv
<1> SUFFICES ASSUME Init PROVE IInv
  OBVIOUS
<1>1. TypeOK
  <2>1. \A v \in votes : v[2] <= term[v[1]]
    <3> TAKE v \in votes
    <3>1. PICK n \in Node, t \in Term, c \in Node : v = <<n, t, c>>
      BY DEF Init
    <3> QED
      BY <3>1 DEF Init
  <2> QED
    BY <2>1 DEF Init, TypeOK
<1>2. VoteOnce
  BY DEF Init, VoteOnce
<1>3. LeadersBacked
  BY DEF Init, LeadersBacked
<1> QED
  BY <1>1, <1>2, <1>3 DEF IInv

\* A vote keeps the invariant: the voter had not voted in that term.
LEMMA VoteIInv ==
    ASSUME IInv, NEW n \in Node, NEW t \in Term, NEW c \in Node, Vote(n, t, c)
    PROVE  IInv'
<1> USE LedgerAssumption
<1>1. TypeOK'
  <2>1. term' \in [Node -> Term] /\ votes' \subseteq Node \X Term \X Node
        /\ leaders' \subseteq Term \X Node
    BY DEF IInv, TypeOK, Vote
  <2>2. ASSUME NEW v \in votes' PROVE v[2] <= term'[v[1]]
    <3>1. CASE v \in votes
      <4>1. v[2] \in Nat /\ v[1] \in Node /\ v[2] <= term[v[1]]
        BY <3>1, Zenon DEF IInv, TypeOK
      <4>2. term[v[1]] \in Nat /\ term'[v[1]] \in Nat
        BY <4>1, <2>1, Zenon DEF IInv, TypeOK
      <4>3. term'[v[1]] = IF v[1] = n THEN t ELSE term[v[1]]
        BY <4>1 DEF IInv, TypeOK, Vote
      <4>4. t >= term[n] /\ t \in Nat
        BY DEF Vote
      <4> QED
        BY <4>1, <4>2, <4>3, <4>4
    <3>2. CASE v = <<n, t, c>>
      BY <3>2 DEF IInv, TypeOK, Vote
    <3> QED
      BY <3>1, <3>2 DEF Vote
  <2> QED
    BY <2>1, <2>2 DEF TypeOK
<1>2. VoteOnce'
  BY DEF IInv, VoteOnce, Vote, VotedIn
<1>3. LeadersBacked'
  <2> SUFFICES ASSUME NEW u \in Term, NEW d \in Node, <<u, d>> \in leaders'
               PROVE  IsQuorum(Voters(u, d)')
    BY DEF LeadersBacked, IsQuorum
  <2>1. IsQuorum(Voters(u, d))
    BY DEF IInv, LeadersBacked, Vote
  <2>2. Voters(u, d) \in SUBSET Node /\ Voters(u, d)' \in SUBSET Node
        /\ Voters(u, d) \subseteq Voters(u, d)'
    BY DEF Voters, Vote
  <2> QED
    BY <2>1, <2>2, QuorumGrows
<1> QED
  BY <1>1, <1>2, <1>3 DEF IInv

\* Every step keeps the invariant.
LEMMA NextIInv == IInv /\ [Next]_vars => IInv'
<1> SUFFICES ASSUME IInv, [Next]_vars PROVE IInv'
  OBVIOUS
<1> USE LedgerAssumption
<1>1. ASSUME NEW n \in Node, NEW t \in Term, Adopt(n, t) PROVE IInv'
  <2>1. TypeOK'
    <3>1. term' \in [Node -> Term] /\ votes' = votes /\ leaders' = leaders
      BY <1>1 DEF IInv, TypeOK, Adopt
    <3>2. ASSUME NEW p \in Node
          PROVE  term[p] <= term'[p] /\ term[p] \in Nat /\ term'[p] \in Nat
      <4>1. term[p] \in Nat /\ term'[p] \in Nat
        BY <3>1, Zenon DEF IInv, TypeOK
      <4>2. term'[p] = IF p = n THEN t ELSE term[p]
        BY <1>1 DEF IInv, TypeOK, Adopt
      <4>3. t > term[n]
        BY <1>1 DEF Adopt
      <4> QED
        BY <4>1, <4>2, <4>3
    <3>3. \A v \in votes : v[1] \in Node /\ v[2] \in Nat /\ v[2] <= term[v[1]]
      BY Zenon DEF IInv, TypeOK
    <3>4. \A v \in votes : v[2] <= term'[v[1]]
      BY <3>2, <3>3
    <3> QED
      BY <3>1, <3>4 DEF IInv, TypeOK
  <2> QED
    BY <1>1, <2>1 DEF IInv, Adopt, VoteOnce, LeadersBacked, Voters, IsQuorum
<1>2. ASSUME NEW n \in Node, NEW t \in Term, NEW c \in Node, Vote(n, t, c) PROVE IInv'
  BY <1>2, VoteIInv
<1>3. ASSUME NEW t \in Term, NEW c \in Node, Elect(t, c) PROVE IInv'
  <2>1. TypeOK' /\ VoteOnce'
    BY <1>3 DEF IInv, TypeOK, VoteOnce, Elect
  <2>2. LeadersBacked'
    BY <1>3, Zenon DEF IInv, LeadersBacked, Elect, Voters, IsQuorum
  <2> QED
    BY <2>1, <2>2 DEF IInv
<1>4. CASE UNCHANGED vars
  BY <1>4 DEF vars, IInv, TypeOK, VoteOnce, LeadersBacked, Voters, IsQuorum
<1> QED
  BY <1>1, <1>2, <1>3, <1>4 DEF Next

\* The ledger's invariant always holds.
THEOREM Invariance == Spec => []IInv
  BY InitIInv, NextIInv, PTL DEF Spec

\* Types, and votes never ahead of the durable term.
THEOREM TypeCorrect == Spec => []TypeOK
<1>1. IInv => TypeOK
  BY DEF IInv
<1> QED
  BY <1>1, Invariance, PTL

\* Election Safety: two leaders of one term were elected by quorums that share
\* a voter, and that voter voted once.
THEOREM ElectionSafety == Spec => []OneLeaderPerTerm
<1>1. IInv => OneLeaderPerTerm
  <2> SUFFICES ASSUME IInv, NEW t \in Term, NEW c \in Node, NEW d \in Node,
                      <<t, c>> \in leaders, <<t, d>> \in leaders
               PROVE  c = d
    BY DEF OneLeaderPerTerm
  <2>1. IsQuorum(Voters(t, c)) /\ IsQuorum(Voters(t, d))
    BY DEF IInv, LeadersBacked
  <2>2. Voters(t, c) \in SUBSET Node /\ Voters(t, d) \in SUBSET Node
    BY DEF Voters
  <2>3. PICK n \in Node : n \in Voters(t, c) /\ n \in Voters(t, d)
    BY <2>1, <2>2, QuorumsIntersect
  <2> QED
    BY <2>3 DEF Voters, IInv, VoteOnce
<1> QED
  BY <1>1, Invariance, PTL
=============================================================================
