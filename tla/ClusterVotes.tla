---------------------------- MODULE ClusterVotes -----------------------------
(***************************************************************************)
(* The inductive invariant behind the election theorems: what CoreVotes    *)
(* says of every core, and how the durable votes relate to the disks, the  *)
(* messages in flight and the leaders.                                     *)
(***************************************************************************)
EXTENDS Elections, CoreVotes
-----------------------------------------------------------------------------
(* The disk after a crash *)

IsDisk(d) == DOMAIN d = {"hard", "snap", "entries"} /\ Hard(d.hard) /\ d.snap # Nil
-----------------------------------------------------------------------------
(* The inductive invariant *)

Disks == disk = [n \in Node |-> disk[n]] /\ \A n \in Node : IsDisk(disk[n])

\* Every vote that became durable is the only one of its node in its term, it is
\* the vote on the node's disk or lies in an earlier term, and the vote on a node's
\* disk is among them.
Books ==
    /\ ballots \subseteq Node \X Nat \X Node
    /\ \A n, c \in Node, t \in Nat : <<n, t, c>> \in ballots =>
          \/ t < disk[n].hard.term
          \/ t = disk[n].hard.term /\ c = disk[n].hard.vote
    /\ \A n, a, b \in Node, t \in Nat :
          <<n, t, a>> \in ballots /\ <<n, t, b>> \in ballots => a = b
    /\ \A n \in Node : Registered(n, disk[n].hard, ballots)

Cores ==
    /\ core = [n \in Node |-> core[n]] /\ host = [n \in Node |-> host[n]]
    /\ \A n \in Node : AtRest(n, core[n], disk[n].hard, host[n], ballots)

Mail == \A m \in msgs : m.from \in Node /\ Sound(m.from, m, ballots)

\* Whoever leads has been recorded, and was elected by a quorum of durable votes.
Offices ==
    /\ elected \subseteq Nat \X Node
    /\ \A t \in Nat, n \in Node : <<t, n>> \in elected => Backed(ballots, t, n)
    /\ \A n \in Node : core[n].role = "Leader" => <<core[n].hard.term, n>> \in elected

VoteInv == Disks /\ Books /\ Cores /\ Mail /\ Offices

\* How the hard state of n on the disk and the durable votes may change.
Moves(n, dh, h, B, C) ==
    /\ Hard(h) /\ Follows(h, dh)
    /\ C = B \cup (IF h.vote = Nil THEN {} ELSE {<<n, h.term, h.vote>>})

\* A step that writes no hard state may put n into office.
Elects(n) ==
    /\ ballots' = ballots /\ \A p \in Node : disk'[p].hard = disk[p].hard
    /\ elected' = elected \/ \E t : elected' = elected \cup {<<t, n>>}

\* A step that writes the hard state of n puts nobody into office.
Records(n) ==
    /\ elected' = elected /\ \A p \in Node : p # n => disk'[p].hard = disk[p].hard
    /\ Moves(n, disk[n].hard, disk'[n].hard, ballots, ballots')

Rests == UNCHANGED <<ballots, elected>> /\ \A p \in Node : disk'[p].hard = disk[p].hard
-----------------------------------------------------------------------------
(* The events of one node *)

\* What makes a behaviour one that the theorems are about, see README: a snapshot
\* is installed into a core that neither campaigns nor leads and has not voted in
\* its sender's term.
CleanInstalls == \A n \in Node : Clean(core[n])
-----------------------------------------------------------------------------
(* The setting of the theorems *)

\* The None of the code is not a record.
NilIsNoRecord == DOMAIN Nil = {}

\* The terms that the ledger of Elections knows.
TermsBounded == \A n \in Node : disk[n].hard.term <= MaxTerm
=============================================================================
