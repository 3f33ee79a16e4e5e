------------------------------ MODULE CoreVotes ------------------------------
(***************************************************************************)
(* What one step of a core keeps true of its votes and its terms: the      *)
(* invariant of a core within a step and between two, and the kinds of     *)
(* change that a step is made of.                                          *)
(*                                                                         *)
(* Throughout, s is the core of node n in the middle of a step, r the      *)
(* effects the host still holds from earlier steps, dh the hard state on   *)
(* n's disk and B the votes that have become durable anywhere.             *)
(***************************************************************************)
EXTENDS CoreState

\* Nodes can be counted and listed; fewer nodes count less.
Countable ==
    \A S \in SUBSET Node :
        /\ Cardinality(S) \in Nat /\ Bijection(1..Cardinality(S), S) # {}
        /\ \A T \in SUBSET S : Cardinality(T) <= Cardinality(S)

\* Any numbers have a least one.
Ordered == \A S \in SUBSET Nat : S # {} => \E x \in S : \A y \in S : x <= y

\* What the lemmas use of the constants and of numbers: a cluster that is finite,
\* and a None that is neither a node nor a record.
Setting == Nil \notin Node /\ DOMAIN Nil = {} /\ Countable /\ Ordered

CoreFields ==
    {"hard", "role", "log", "lastIndex", "lastTerm", "preVotes", "votes", "active",
     "progress", "pendingPersist", "pendingApply", "applied", "proposals", "noop",
     "pendingReads", "readRound", "nextRead", "local", "incoming", "store",
     "installing", "senders", "chunkReads", "stopped", "out", "fx", "res", "err",
     "seq"}

IsCore(s) == DOMAIN s = CoreFields

\* t differs from s in the fields F only.
Frame(s, t, F) == IsCore(t) /\ \A f \in CoreFields \ F : t[f] = s[f]
-----------------------------------------------------------------------------
(* The invariant of a core within a step *)

\* The two persists that carry a hard state, and the effects around them, at
\* most one of which is ever outstanding.
Protocol(e) == e.kind = "Persist" /\ e.snap = Nil

Incoming(e) == e.kind = "Persist" /\ e.snap # Nil /\ e.hard # Nil

Heavy(e) ==
    Protocol(e) \/ Incoming(e) \/ e.kind \in {"StoreSnapshotChunk", "InstallSnapshot"}

IsFor(barrier, e) == barrier # Nil /\ barrier.id = e.id

\* Effect e is outstanding exactly when the barrier of its kind waits for it.
Agree(s, e) ==
    /\ Protocol(e) <=> IsFor(s.pendingPersist, e)
    /\ IsFor(s.store, e) => e.kind = "StoreSnapshotChunk"
    /\ Incoming(e) <=> IsFor(s.installing, e) /\ s.installing.phase = "PersistIncoming"
    /\ e.kind = "InstallSnapshot"
          <=> IsFor(s.installing, e) /\ s.installing.phase = "Install"
    /\ IsFor(s.local, e) =>
          e.kind # "Apply" /\ (s.local.phase = "Build" => e.kind = "BuildSnapshot")
    /\ \A c \in s.chunkReads : c.id = e.id => e.kind = "ReadSnapshotChunk"

Hard(h) == h.term \in Nat /\ h.vote \in Node \cup {Nil}

Same(a, b) == a.term = b.term /\ a.vote = b.vote

\* The hard state `new` takes back nothing that `old` promised.
Follows(new, old) ==
    \/ old.term < new.term
    \/ old.term = new.term /\ old.vote \in {Nil, new.vote}

\* How far the disk is behind the core while e is outstanding.
Pending(s, dh, e) ==
    /\ Protocol(e) /\ e.hard = Nil => Same(dh, s.hard)
    /\ Protocol(e) /\ e.hard # Nil => Same(e.hard, s.hard) /\ Follows(s.hard, dh)
    /\ Incoming(e) => /\ Same(dh, s.hard) /\ e.hard.vote = Nil
                      /\ e.hard.term = s.installing.term /\ s.hard.term <= e.hard.term
    /\ e.kind = "InstallSnapshot" =>
          dh.vote = Nil /\ dh.term = s.installing.term /\ s.hard.term <= dh.term
    /\ e.kind = "StoreSnapshotChunk" =>
          Same(dh, s.hard) /\ (IsFor(s.store, e) => s.hard.term <= s.store.term)

\* What the core will do once the persist of effect e with hard state h is durable.
Vow(s, h, cont) ==
    /\ cont.kind = "SendResponse" /\ cont.response.kind = "VoteResponse"
          /\ cont.response.granted =>
          h # Nil /\ cont.response.term = h.term /\ cont.response.to = h.vote
    /\ cont.kind = "BroadcastVoteRequests" => s.role = "Candidate"
    /\ cont.kind = "ActivateLeader" =>
          h = Nil /\ s.role = "Candidate" /\ s.votes # Nil /\ HasQuorum(s.votes)

Promised(s, e) == IsFor(s.pendingPersist, e) => Vow(s, e.hard, s.pendingPersist.cont)

NoHeavy(E) == \A e \in E : ~Heavy(e)

OneHeavy(q) == \A j, k \in DOMAIN q : Heavy(q[j]) /\ Heavy(q[k]) => j = k

\* With no such effect outstanding, disk and core agree on term and vote.
Synced(s, dh, E) == NoHeavy(E) => Same(dh, s.hard)

\* e is the apply that the core waits for.
Awaited(s, e) == e.kind = "Apply" /\ IsFor(s.pendingApply, e)

\* That apply is outstanding, before any persist of the protocol.
Waits(s, q) ==
    s.pendingApply # Nil =>
        \E j \in DOMAIN q : /\ Awaited(s, q[j])
                            /\ \A k \in DOMAIN q : Protocol(q[k]) => j < k

\* Nothing is lost if the step fails now: the host holds r, and not what the step asks for.
Settled(s, dh, r) == Synced(s, dh, Range(r)) /\ Waits(s, r)

Voters(B, t, c) == {v \in Node : <<v, t, c>> \in B}

Backed(B, t, c) == Cardinality(Voters(B, t, c)) >= Quorum

\* A candidate counts durable votes only, and a leader has a quorum of them.
Tallied(n, s, B) ==
    /\ s.role = "Candidate" =>
          /\ s.hard.vote = n /\ s.votes # Nil
          /\ "granted" \in DOMAIN s.votes /\ s.votes.granted \subseteq Node
          /\ \A v \in s.votes.granted \ {n} : <<v, s.hard.term, n>> \in B
    /\ s.role = "Leader" => Backed(B, s.hard.term, n)

\* A message that n may send.
Sound(n, m, B) ==
    /\ m.from = n /\ m.to \in Peers(n) /\ m.term \in Nat
    /\ m.kind = "VoteResponse" /\ m.granted => <<n, m.term, m.to>> \in B
    /\ m.kind = "InstallSnapshot" => m.snap # Nil

Barriers(s) == {s.pendingPersist, s.pendingApply, s.local, s.store, s.installing} \ {Nil}

\* x is a record that holds a snapshot.
Snapped(x) == "snap" \in DOMAIN x /\ x.snap # Nil

\* Every snapshot the core knows of is one.
Snaps(s) ==
    /\ Snapped(s.log)
    /\ s.incoming # Nil => Snapped(s.incoming)
    /\ \A p \in DOMAIN s.senders : Snapped(s.senders[p])
    /\ s.local # Nil /\ s.local.phase # "Build" => Snapped(s.local)
    /\ s.installing # Nil => Snapped(s.installing)

\* An answer of n that waits for a persist.
IsAnswer(n, m) ==
    /\ m.from = n /\ m.to \in Peers(n) /\ m.term \in Nat
    /\ m.kind \in {"VoteResponse", "AppendEntriesResponse"}

IsContinuation(n, cont) ==
    /\ cont.kind \in {"BroadcastVoteRequests", "SendResponse", "ReplicateProposal",
                      "ApplyCommitted", "ActivateLeader", "None"}
    /\ cont.kind = "SendResponse" => IsAnswer(n, cont.response)

Typed(n, s) ==
    /\ IsCore(s) /\ Snaps(s) /\ s.stopped \in BOOLEAN /\ Hard(s.hard)
    /\ DOMAIN s.progress \subseteq Peers(n)
    /\ \A c \in s.chunkReads : c.id \in Nat /\ c.to \in Peers(n)
    /\ \A b \in Barriers(s) : b.id \in Nat
    /\ s.local # Nil =>
          /\ {"id", "phase"} \subseteq DOMAIN s.local
          /\ s.local.phase \in {"Build", "PersistLocal", "Compact"}
    /\ s.installing # Nil =>
          /\ {"id", "phase", "from", "term"} \subseteq DOMAIN s.installing
          /\ s.installing.from \in Peers(n) /\ s.installing.term \in Nat
          /\ s.installing.phase \in {"PersistIncoming", "Install"}
    /\ s.store # Nil => s.store.from \in Peers(n) /\ s.store.term \in Nat
    /\ s.pendingPersist # Nil => IsContinuation(n, s.pendingPersist.cont)

IsSeq(q) == q \in Seq(Range(q))

\* The effects that will be outstanding when the step ends.
Queue(s, r) == r \o s.fx

\* What holds of the effects E that are outstanding for core s.
Matched(s, dh, E) ==
    \A e \in E : e.id \in Nat /\ Agree(s, e) /\ Pending(s, dh, e) /\ Promised(s, e)

\* Everything but the agreement of disk and core when nothing is outstanding.
Base(n, s, dh, r, B) ==
    /\ Typed(n, s) /\ IsSeq(r) /\ IsSeq(s.fx)
    /\ Tallied(n, s, B)
    /\ Matched(s, dh, Range(Queue(s, r)))
    /\ OneHeavy(Queue(s, r)) /\ Waits(s, Queue(s, r))
    /\ \A m \in s.out : Sound(n, m, B)

\* A step that fails drops its effects and keeps its state.
Sane(n, s, dh, r, B) ==
    /\ Base(n, s, dh, r, B)
    /\ Synced(s, dh, Range(Queue(s, r)))
    /\ s.err # "Ok" => Settled(s, dh, r)

\* Ids in use are not above seq.
Fresh(s, r) ==
    /\ s.seq \in Nat
    /\ \A e \in Range(Queue(s, r)) : e.id <= s.seq
    /\ \A c \in s.chunkReads : c.id <= s.seq
    /\ \A b \in Barriers(s) : b.id <= s.seq

Good(n, s, dh, r, B) == Sane(n, s, dh, r, B) /\ Fresh(s, r)

\* Nothing heavy is outstanding.
Idle(s, r) == NoHeavy(Range(Queue(s, r)))

\* A step so far without the effect whose loss would leave the core behind.
Fine(n, s, dh, r, B) ==
    Good(n, s, dh, r, B) /\ \A e \in Range(s.fx) : e.kind # "InstallSnapshot"

\* t keeps what elections depend on, and asks for nothing heavy.
Kept(s, t) ==
    /\ t.hard = s.hard /\ t.role = s.role /\ t.votes = s.votes
    /\ t.pendingPersist = s.pendingPersist /\ t.store = s.store
    /\ t.installing = s.installing /\ t.stopped = s.stopped

Gentle(s, t) == Kept(s, t) /\ \A e \in Range(t.fx) : e \in Range(s.fx) \/ ~Heavy(e)

\* Neither for an apply.
Calm(s, t) == Gentle(s, t) /\ t.pendingApply \in {Nil, s.pendingApply}
-----------------------------------------------------------------------------
(* Sequences of effects *)

\* From s to t the core asks for the effects es.
Asks(s, t, es) == t.fx = s.fx \o es

\* From s to t the core asks for one more effect.
AsksFor(s, t, e) == t.fx = Append(s.fx, e)

One(e) == <<e>>
-----------------------------------------------------------------------------
(* Three kinds of change within a step *)

\* From s to t the core asks for the light effects es, may send sound messages,
\* and raises or drops the barriers of its own snapshot and of its apply.
Light(n, s, t, es, dh, r, B) ==
    /\ IsCore(t) /\ Kept(s, t) /\ Snaps(t)
    /\ IsSeq(es) /\ Asks(s, t, es) /\ t.seq \in Nat /\ s.seq <= t.seq
    /\ \A e \in Range(es) : ~Heavy(e) /\ e.id \in Nat /\ s.seq < e.id /\ e.id <= t.seq
    /\ DOMAIN t.progress \subseteq Peers(n)
    /\ \A c \in t.chunkReads :
          \/ c \in s.chunkReads
          \/ /\ c.id \in Nat /\ s.seq < c.id /\ c.id <= t.seq /\ c.to \in Peers(n)
             /\ \A e \in Range(es) : e.id = c.id => e.kind = "ReadSnapshotChunk"
    /\ \/ t.pendingApply \in {Nil, s.pendingApply}
       \/ /\ t.pendingApply.id \in Nat /\ t.pendingApply.id <= t.seq
          /\ s.pendingPersist = Nil /\ t.err = "Ok"
          /\ \E e \in Range(es) : Awaited(t, e)
    /\ \/ t.local \in {Nil, s.local}
       \/ /\ t.local.id \in Nat /\ s.seq < t.local.id /\ t.local.id <= t.seq
          /\ t.local.phase \in {"Build", "PersistLocal", "Compact"}
          /\ {"id", "phase"} \subseteq DOMAIN t.local
          /\ \A e \in Range(es) :
                e.id = t.local.id =>
                    e.kind # "Apply" /\ (t.local.phase = "Build" => e.kind = "BuildSnapshot")
    /\ \A m \in t.out : m \in s.out \/ Sound(n, m, B)
    /\ t.err # "Ok" => s.err # "Ok" \/ Settled(s, dh, r)

\* From s to t the core changes its role, its tallies and its followers' progress,
\* while nothing heavy is outstanding.
Shift(n, s, t, B) ==
    /\ IsCore(t) /\ Snaps(t) /\ t.hard = s.hard /\ t.fx = s.fx /\ t.seq = s.seq
    /\ t.err = s.err /\ t.stopped \in BOOLEAN /\ t.chunkReads = s.chunkReads
    /\ t.pendingPersist = s.pendingPersist /\ t.pendingApply = s.pendingApply
    /\ t.local = s.local /\ t.store = s.store /\ t.installing = s.installing
    /\ DOMAIN t.progress \subseteq Peers(n) /\ Tallied(n, t, B)
    /\ \A m \in t.out : m \in s.out \/ Sound(n, m, B)

\* From s to u the core adopts a hard state h, Nil for the one it has, that is
\* about to be persisted, and cont is what it will do then.
Prepares(n, s, u, h, cont, B) ==
    /\ IsCore(u) /\ Snaps(u) /\ u.fx = s.fx /\ u.seq = s.seq /\ u.out = s.out
    /\ u.err = s.err /\ u.stopped = s.stopped /\ u.chunkReads = s.chunkReads
    /\ u.pendingApply = s.pendingApply
    /\ u.local = s.local /\ u.store = s.store /\ u.installing = s.installing
    /\ DOMAIN u.progress \subseteq Peers(n) /\ Hard(u.hard) /\ Tallied(n, u, B)
    /\ \/ h = Nil /\ Same(u.hard, s.hard)
       \/ h # Nil /\ Same(h, u.hard) /\ Follows(u.hard, s.hard)
    /\ Vow(u, h, cont)
    /\ IsContinuation(n, cont)

\* From s to t the core asks for nothing.
Quiet(n, s, t, dh, r, B) ==
    /\ IsCore(t) /\ Kept(s, t) /\ Snaps(t) /\ t.fx = s.fx /\ t.seq = s.seq
    /\ DOMAIN t.progress \subseteq Peers(n) /\ t.chunkReads \subseteq s.chunkReads
    /\ t.pendingApply \in {Nil, s.pendingApply} /\ t.local \in {Nil, s.local}
    /\ \A m \in t.out : m \in s.out \/ Sound(n, m, B)
    /\ t.err # "Ok" => s.err # "Ok" \/ Settled(s, dh, r)

\* From s to t the core asks for the light effect e.
Single(n, s, t, e, B) ==
    /\ IsCore(t) /\ Kept(s, t) /\ Snaps(t) /\ AsksFor(s, t, e) /\ t.seq = s.seq + 1
    /\ e.id = s.seq + 1 /\ ~Heavy(e)
    /\ t.progress = s.progress /\ t.chunkReads = s.chunkReads
    /\ \/ t.pendingApply = s.pendingApply
       \/ /\ t.pendingApply.id = s.seq + 1 /\ e.kind = "Apply"
          /\ s.pendingPersist = Nil /\ s.err = "Ok"
    /\ \/ t.local = s.local
       \/ /\ t.local.id = s.seq + 1
          /\ t.local.phase \in {"Build", "PersistLocal", "Compact"}
          /\ {"id", "phase"} \subseteq DOMAIN t.local
          /\ e.kind # "Apply" /\ (t.local.phase = "Build" => e.kind = "BuildSnapshot")
    /\ t.out = s.out /\ t.err = s.err
-----------------------------------------------------------------------------
(* The operators that ask for nothing heavy *)

\* What the elections do not depend on.
Unrelated ==
    {"lastIndex", "lastTerm", "preVotes", "active", "applied", "proposals", "noop",
     "pendingReads", "readRound", "nextRead", "res"}
-----------------------------------------------------------------------------
(* Changes of role and term *)

\* A core that has nothing heavy outstanding, asked for no apply and met no error.
Clear(n, s, dh, r, B) ==
    Good(n, s, dh, r, B) /\ Idle(s, r) /\ Waits(s, r) /\ s.err = "Ok"

\* The fields of a core that are neither barriers nor outputs.
Civil ==
    {"hard", "role", "log", "lastIndex", "lastTerm", "preVotes", "votes", "active",
     "progress", "applied", "proposals", "noop", "pendingReads", "readRound", "nextRead"}

\* The message m has reached n.
Heard(n, m, B) == n \in Node /\ m.from \in Node /\ m.to = n /\ Sound(m.from, m, B)

\* A vote on the disk is in the ledger.
Registered(n, dh, B) == dh.vote # Nil => <<n, dh.term, dh.vote>> \in B
-----------------------------------------------------------------------------
(* Snapshots received *)

\* From s to t the core asks for the heavy effect e of an incoming snapshot and
\* raises the barrier that waits for it.
Raises(n, s, t, e, dh) ==
    /\ Typed(n, t) /\ AsksFor(s, t, e) /\ t.seq = s.seq + 1 /\ e.id = s.seq + 1
    /\ Heavy(e) /\ ~Protocol(e) /\ Pending(t, dh, e)
    /\ t.hard = s.hard /\ t.role = s.role /\ t.votes = s.votes /\ t.err = s.err
    /\ t.out = s.out /\ t.chunkReads = s.chunkReads /\ t.local = s.local
    /\ t.pendingPersist = s.pendingPersist /\ t.pendingApply = s.pendingApply
    /\ t.store \in {Nil, s.store} \/ t.store.id = e.id
    /\ t.installing = s.installing \/ t.installing.id = e.id
    /\ IsFor(t.store, e) => e.kind = "StoreSnapshotChunk"
    /\ Incoming(e) <=> IsFor(t.installing, e) /\ t.installing.phase = "PersistIncoming"
    /\ e.kind = "InstallSnapshot"
          <=> IsFor(t.installing, e) /\ t.installing.phase = "Install"

\* Nothing heavy is outstanding, but the disk may be ahead of the core.
Between(n, s, dh, r, B) ==
    Base(n, s, dh, r, B) /\ Fresh(s, r) /\ Idle(s, r) /\ Waits(s, r) /\ s.err = "Ok"

\* The hard state of the snapshot that is being installed is durable already.
Ahead(s, dh) ==
    /\ s.installing # Nil
    /\ dh.vote = Nil /\ dh.term = s.installing.term /\ s.hard.term <= dh.term
-----------------------------------------------------------------------------
(* The end of a step *)

\* Ids in use are bounded, so that the next step finds an unused one.
Limited(s, q) ==
    \E i \in Nat : /\ \A e \in Range(q) : e.id <= i
                   /\ \A c \in s.chunkReads : c.id <= i
                   /\ \A b \in Barriers(s) : b.id <= i

\* A core between two steps, q its host's queue.
AtRest(n, s, dh, q, B) ==
    /\ IsCore(s) /\ Hard(s.hard) /\ Tallied(n, s, B) /\ s.stopped \in BOOLEAN
    /\ s.fx = << >> /\ s.out = {} /\ s.err = "Ok"
    /\ ~s.stopped => Sane(n, s, dh, q, B) /\ Limited(s, q)

\* What the step that ends in t leaves behind.
Ended(n, t, dh, r, B) ==
    /\ AtRest(n, Drained(t), dh, r \o t.fx, B)
    /\ Tallied(n, t, B)
    /\ \A m \in t.out : Sound(n, m, B)
-----------------------------------------------------------------------------
(* The oldest effect of the queue is reported *)

\* How an effect changes the hard state on the disk.
HardAfter(dh, e) == IF e.kind = "Persist" /\ e.hard # Nil THEN e.hard ELSE dh

\* A snapshot is installed into a core that is no candidate or leader, and that has
\* not voted in the snapshot's term.
Clean(s) ==
    s.installing # Nil =>
        /\ s.role \notin {"Candidate", "Leader"}
        /\ s.hard.vote = Nil \/ s.hard.term < s.installing.term
-----------------------------------------------------------------------------
(* The disk after a crash *)

\* The effects that replace the hard state on the disk.
WritesHard(e) == e.kind = "Persist" /\ e.hard # Nil

\* t has the role and the term of s.
Steady(s, t) == t.role = s.role /\ t.hard.term = s.hard.term
=============================================================================
