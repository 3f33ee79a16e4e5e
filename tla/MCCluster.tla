------------------------------ MODULE MCCluster ------------------------------
(* Instances of Cluster for TLC: initial disks, links, and the scenarios that *)
(* combine them with what may happen.                                         *)
EXTENDS Cluster, TLC

CONSTANTS n1, n2, n3, prior

\* Reads are interchangeable.
ReadSymmetry == Permutations(ReadId)
-----------------------------------------------------------------------------
(* Links and campaigns *)

\* Requests of n1 reach only n2, those of n2 only n3.
Chain == {<<n1, n2>>, <<n2, n3>>}
\* n1 and n2 both need n3, and requests of n1 also reach n2.
Rivals == {<<n1, n3>>, <<n2, n3>>, <<n1, n2>>}
\* Both need n3, and n2 can overrule n1.
Overrule == {<<n1, n3>>, <<n2, n3>>, <<n2, n1>>}
\* Requests of n1 reach everyone.
FromOne == {<<n1, n2>>, <<n1, n3>>}

OnlyOne == <<{n1}>>
OneThenTwo == <<{n1}, {n2}>>
-----------------------------------------------------------------------------
(* Disks *)

\* A disk with one entry per term of ts, the first of each term a no-op, and
\* the given hard state.
Stored(ts, term, vote, commit) ==
    [hard |-> [term |-> term, vote |-> vote, commit |-> commit],
     snap |-> NoSnap,
     entries |-> [k \in 1..Len(ts) |->
                    [index |-> k, term |-> ts[k],
                     cmd |-> IF k > 1 /\ ts[k] = ts[k - 1] THEN prior ELSE Noop]]]

\* No node has ever stored anything.
FreshDisks == [n \in Node |-> Stored(<< >>, 0, Nil, 0)]

\* n1 led term 2 until it was cut off with two entries of its own; n2 led term 3
\* until it was cut off with one.  All have heard of term 3.
RivalSuffixes ==
    (n1 :> Stored(<<1, 2, 2>>, 3, Nil, 1)) @@
    (n2 :> Stored(<<1, 3>>, 3, n2, 1)) @@
    (n3 :> Stored(<<1>>, 3, n2, 1))

\* n2 received the first of n1's two entries of term 2 before it led term 3.
SharedTerm ==
    (n1 :> Stored(<<1, 2, 2>>, 3, Nil, 1)) @@
    (n2 :> Stored(<<1, 2, 3>>, 3, n2, 1)) @@
    (n3 :> Stored(<<1>>, 3, n2, 1))

\* n2 led term 2, stood again in term 3 and went down before it could ask for
\* votes.
Returning ==
    (n1 :> Stored(<<1>>, 2, Nil, 1)) @@
    (n2 :> Stored(<<1, 2>>, 3, n2, 1)) @@
    (n3 :> Stored(<<1>>, 2, n2, 1))

\* n1 and n2 share two committed entries of term 1; n3 was away.
Lagging ==
    (n1 :> Stored(<<1, 1>>, 1, n1, 2)) @@
    (n2 :> Stored(<<1, 1>>, 1, n1, 2)) @@
    (n3 :> Stored(<< >>, 0, Nil, 0))

\* n3 led term 1 until it was cut off with two entries of its own; n1 and n2
\* committed another one in term 2.
StaleSuffix ==
    (n1 :> Stored(<<1, 2>>, 2, n1, 2)) @@
    (n2 :> Stored(<<1, 2>>, 2, n1, 2)) @@
    (n3 :> Stored(<<1, 1, 1>>, 1, n3, 1))
-----------------------------------------------------------------------------
(* Scenarios *)

\* Nothing happens but elections of `campaign` along `link`, `appends`
\* deliveries of AppendEntries, and the requests `ids` at any node.
Calm(link, campaign, appends, ids) ==
    [link |-> link, campaign |-> campaign, clients |-> Node \X ids, builders |-> {},
     away |-> {}, faulty |-> {}, endless |-> {}, append |-> appends, heartbeat |-> 0, crash |-> 0,
     duplicate |-> 0, loss |-> 0]

\* n1 and n2 contend for n3.  Two of: a failure of n3, a message delivered twice and a
\* leader's AppendEntries; or all three, when n1 and n2 do not reach each other.
Contention ==
    LET Disturbed(link, appends, failures, duplicates) ==
            [Calm(link, OneThenTwo, appends, {}) EXCEPT
               !.faulty = {n3}, !.crash = failures, !.duplicate = duplicates]
    IN {[disk |-> FreshDisks, plan |-> p] :
          p \in {Disturbed(Rivals, 0, 1, 1), Disturbed(Rivals, 1, 1, 0),
                 Disturbed(Rivals, 1, 0, 1), Disturbed(Rivals \ {<<n1, n2>>}, 1, 1, 1)}}

\* Two leaders over logs that earlier terms left different.
Divergence ==
    {[disk |-> d, plan |-> Calm(Rivals, OneThenTwo, 6, {})] :
        d \in {RivalSuffixes, SharedTerm}}

\* Proposals, with one failure anywhere, or with a heartbeat and one loss.
Service ==
    {[disk |-> FreshDisks, plan |-> p] :
        p \in {[Calm(Chain, OneThenTwo, 4, Proposal) EXCEPT !.faulty = Node, !.crash = 1],
               [Calm(Chain, OneThenTwo, 4, Proposal) EXCEPT !.heartbeat = 1, !.loss = 1]}}

\* A leader is overruled, by a vote request or by entries that overwrite its own.
Takeover ==
    {[disk |-> Returning, plan |-> p] :
        p \in {[Calm(Overrule, OneThenTwo, 2, Proposal \ Oversized) EXCEPT
                  !.clients = {n1} \X (Proposal \ Oversized)],
               [Calm(Overrule, OneThenTwo, 5, Proposal \ Oversized) EXCEPT !.away = {n1}]}}

\* Reads across a change of leaders, with and without a duplicate.
Reads(duplicates) ==
    {[disk |-> FreshDisks,
      plan |-> [Calm(Chain, OneThenTwo, 5, ReadId) EXCEPT !.duplicate = duplicates]]}
ReadsOnce == Reads(0)

Clients == Service \cup Takeover \cup Reads(1)

\* A follower that was away needs a snapshot of n1.
Absent(plan0) == [plan0 EXCEPT !.away = {n3}, !.builders = {n1}]

\* A node fails, a message is delivered twice, or n2 takes over with a snapshot of
\* its own.
CatchUp ==
    {[disk |-> Lagging, plan |-> Absent(p)] :
        p \in {[Calm(FromOne, OnlyOne, 5, {}) EXCEPT !.faulty = Node, !.crash = 1],
               [Calm(FromOne, OnlyOne, 5, {}) EXCEPT !.duplicate = 1]}}
    \cup
    {[disk |-> Lagging,
      plan |-> [Absent(Calm(FromOne \cup {<<n2, n3>>, <<n2, n1>>}, OneThenTwo, 4, {}))
                  EXCEPT !.builders = {n1, n2}]]}

Histories == Divergence \cup CatchUp

\* n1 and n2 both need n3, which takes a snapshot from n1.
VoteThenInstall ==
    {[disk |-> Lagging, plan |-> Calm({<<n1, n3>>, <<n2, n3>>}, OneThenTwo, 1, {})]}

\* A rejection arrives twice: the leader sends its snapshot to a follower that has
\* caught up since.
CaughtUp ==
    {[disk |-> Lagging,
      plan |-> [Absent(Calm(FromOne, OnlyOne, 5, {})) EXCEPT
                  !.clients = {n1} \X ReadId, !.duplicate = 1]]}

\* A snapshot replaces a suffix that was never committed.
Overwritten == {[disk |-> StaleSuffix, plan |-> Absent(Calm(FromOne, OnlyOne, 4, {}))]}

\* One leader, nobody fails; ticks and AppendEntries go on for ever.
Undisturbed(link, away, ids) ==
    [Calm(link, OnlyOne, 0, {}) EXCEPT
       !.away = away, !.clients = {n1} \X ids, !.endless = {"append", "heartbeat"}]

\* New entries, reads, diverged followers, and one that needs a snapshot.
Steady ==
    {[disk |-> FreshDisks, plan |-> Undisturbed(FromOne, {n3}, Proposal)],
     [disk |-> FreshDisks, plan |-> Undisturbed({<<n1, n2>>}, {}, ReadId)],
     [disk |-> RivalSuffixes, plan |-> Undisturbed(FromOne, {n2}, {})],
     [disk |-> SharedTerm, plan |-> Undisturbed(FromOne, {n2}, {})],
     [disk |-> Lagging, plan |-> Undisturbed(FromOne, {n3}, {})]}

\* One message is lost.
OneLoss ==
    {[disk |-> FreshDisks, plan |-> [Undisturbed(FromOne, {n3}, {}) EXCEPT !.loss = 1]]}
=============================================================================
