------------------------------ MODULE Elections ------------------------------
(***************************************************************************)
(* What the elections of a cluster promise: properties of its disks, its   *)
(* leaders and the grants, and the vote ledger that they implement.        *)
(***************************************************************************)
EXTENDS Host

\* Election Safety: two leaders that ever took office in one term are the same
\* node, also when one of them has since crashed or stepped down.
ElectionSafety == \A a, b \in elected : a[1] = b[1] => a[2] = b[2]

\* A grant counts only once it is durable: whatever a candidate has counted, and
\* every grant in the network, is on the voter's disk ("persist before
\* responding", core.rs:1417).
GrantsAreDurable ==
    /\ \A c \in Node : core[c].role = "Candidate" /\ core[c].votes # Nil =>
          \A v \in core[c].votes.granted \ {c} : <<v, core[c].hard.term, c>> \in ballots
    /\ \A m \in msgs : m.kind = "VoteResponse" /\ m.granted =>
          <<m.from, m.term, m.to>> \in ballots

\* At most one persist of the protocol is outstanding, and it is the one the
\* barrier waits for (core.rs:284 "At most one persist can be outstanding");
\* snapshots are persisted by pipelines of their own.
OnePersist ==
    \A n \in Node : \A k \in 1..Len(host[n]) :
        host[n][k].kind = "Persist" /\ host[n][k].snap = Nil /\ ~core[n].stopped =>
            /\ core[n].pendingPersist # Nil
            /\ host[n][k].id = core[n].pendingPersist.id

\* A persist of the protocol is reported to a core that waits for no apply: while one
\* is outstanding, on_effect_completed takes the report for that of the apply and
\* refuses it (core.rs:2127), a failure included, and the core would go on over a disk
\* that lacks its hard state.
AppliesFirst ==
    \A n \in Node : ~core[n].stopped /\ host[n] # << >> =>
        LET e == Head(host[n])
        IN e.kind = "Persist" /\ e.snap = Nil => core[n].pendingApply = Nil

\* No write takes back what the disk promised: the term never falls, a vote is
\* never changed within its term, the commit index never falls.
HardStateStable ==
    [][\A n \in Node :
          LET old == disk[n].hard
              new == disk'[n].hard
          IN /\ new.term >= old.term
             /\ (new.term = old.term /\ old.vote # Nil) => new.vote = old.vote
             /\ new.commit >= old.commit]_vars

\* The elections of the cluster implement the vote ledger.
Ledger == INSTANCE VoteLedger WITH
    Term <- 0..MaxTerm,
    term <- [n \in Node |-> disk[n].hard.term],
    votes <- ballots,
    leaders <- elected
ImplementsVoteLedger == Ledger!Spec
=============================================================================
