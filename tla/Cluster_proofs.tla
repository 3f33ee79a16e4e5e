--------------------------- MODULE Cluster_proofs ----------------------------
(***************************************************************************)
(* Elections in a cluster of any size whose hosts are serial: at most one  *)
(* leader per term, grants that are durable before they count, one persist *)
(* of the protocol at a time, and the refinement of VoteLedger.            *)
(***************************************************************************)
EXTENDS Cluster, ClusterVotes_proofs, RaftEffects_proofs
-----------------------------------------------------------------------------
(* The events of one node *)

\* An event whose handler leaves n in u.
LEMMA EventKeeps ==
    ASSUME NEW n \in Node, NEW u, NEW net, Setting, VoteInv,
           Fine(n, u, disk[n].hard, host[n], ballots),
           Commit(n, Stepped(n, u), host[n], net), net \subseteq msgs,
           UNCHANGED <<disk, ballots>>
    PROVE  VoteInv'
<1>1. Ended(n, Stepped(n, u), disk[n].hard, host[n], ballots)
  BY FineEnds DEF Stepped
<1> QED BY <1>1, StepKeeps, Zenon

\* An election timeout keeps the invariant.
LEMMA ElectionTickKeeps ==
    ASSUME NEW n \in Node, SerialHost, Setting, VoteInv, ElectionTick(n)
    PROVE  VoteInv'
<1> DEFINE u == StartPreVote(n, Begin(n))
<1>1. /\ Ready(n) /\ Commit(n, Stepped(n, u), host[n], msgs)
      /\ UNCHANGED <<disk, ballots>>
  BY DEF ElectionTick
<1>2. Fine(n, u, disk[n].hard, host[n], ballots)
  BY <1>1, ReadyClear, StartPreVoteFine, Zenon
<1> QED BY <1>1, <1>2, EventKeeps, Zenon

\* A heartbeat timer keeps the invariant.
LEMMA HeartbeatTickKeeps ==
    ASSUME NEW n \in Node, SerialHost, Setting, VoteInv, HeartbeatTick(n)
    PROVE  VoteInv'
<1> DEFINE u == OnHeartbeatTick(n, Begin(n))
<1>1. /\ Ready(n) /\ Commit(n, Stepped(n, u), host[n], msgs)
      /\ UNCHANGED <<disk, ballots>>
  BY DEF HeartbeatTick
<1>2. Fine(n, u, disk[n].hard, host[n], ballots)
  BY <1>1, ReadyClear, OnHeartbeatTickFine, Zenon
<1> QED BY <1>1, <1>2, EventKeeps, Zenon

\* A request for a snapshot keeps the invariant.
LEMMA SnapshotRequestedKeeps ==
    ASSUME NEW n \in Node, SerialHost, Setting, VoteInv, SnapshotRequested(n)
    PROVE  VoteInv'
<1> DEFINE u == RequestLocalSnapshot(Begin(n))
<1>1. /\ Ready(n) /\ Commit(n, Stepped(n, u), host[n], msgs)
      /\ UNCHANGED <<disk, ballots>>
  BY DEF SnapshotRequested
<1>2. Clear(n, Begin(n), disk[n].hard, host[n], ballots)
  BY <1>1, ReadyClear, Zenon
<1>3. Good(n, u, disk[n].hard, host[n], ballots) /\ Calm(Begin(n), u)
  BY <1>2, RequestLocalSnapshotGood, Zenon DEF Clear
<1>4. Fine(n, u, disk[n].hard, host[n], ballots)
  BY <1>2, <1>3, CalmClear, Zenon
<1> QED BY <1>1, <1>4, EventKeeps, Zenon

\* A read keeps the invariant.
LEMMA ReadKeeps ==
    ASSUME NEW n \in Node, NEW id, SerialHost, Setting, VoteInv, Read(n, id)
    PROVE  VoteInv'
<1> DEFINE u == OnRead(n, Begin(n), id)
<1>1. /\ Ready(n) /\ Commit(n, Stepped(n, u), host[n], msgs)
      /\ UNCHANGED <<disk, ballots>>
  BY DEF Read
<1>2. Clear(n, Begin(n), disk[n].hard, host[n], ballots)
  BY <1>1, ReadyClear, Zenon
<1>3. Good(n, u, disk[n].hard, host[n], ballots) /\ Calm(Begin(n), u)
  BY <1>2, OnReadGood, Zenon DEF Clear
<1>4. Fine(n, u, disk[n].hard, host[n], ballots)
  BY <1>2, <1>3, CalmClear, Zenon
<1> QED BY <1>1, <1>4, EventKeeps, Zenon

\* A proposal keeps the invariant.
LEMMA ProposeKeeps ==
    ASSUME NEW n \in Node, NEW id, SerialHost, Setting, VoteInv, Propose(n, id)
    PROVE  VoteInv'
<1> DEFINE u == OnPropose(Begin(n), id)
<1>1. /\ Ready(n) /\ Commit(n, Stepped(n, u), host[n], msgs)
      /\ UNCHANGED <<disk, ballots>>
  BY DEF Propose
<1>2. Fine(n, u, disk[n].hard, host[n], ballots)
  BY <1>1, ReadyClear, OnProposeFine, Zenon
<1> QED BY <1>1, <1>2, EventKeeps, Zenon

\* A shutdown keeps the invariant.
LEMMA ShutdownKeeps ==
    ASSUME NEW n \in Node, SerialHost, Setting, VoteInv, Shutdown(n)
    PROVE  VoteInv'
<1> DEFINE s == Begin(n)
           u == [s EXCEPT !.stopped = TRUE]
<1>1. /\ Ready(n) /\ Commit(n, Stepped(n, u), host[n], msgs)
      /\ UNCHANGED <<disk, ballots>>
  BY DEF Shutdown
<1>2. Clear(n, s, disk[n].hard, host[n], ballots)
  BY <1>1, ReadyClear, Zenon
<1> HIDE DEF s
<1>3. Typed(n, s) /\ Tallied(n, s, ballots)
  BY <1>2, ClearFacts, Zenon
<1> USE <1>3
<1>4. Frame(s, u, {"stopped"}) /\ u.stopped = TRUE
  BY DEF Typed, IsCore, CoreFields, Frame
<1>5. Shift(n, s, u, ballots)
  <2> HIDE DEF u
  <2>1. Tallied(n, u, ballots)
    BY <1>4 DEF Tallied, Frame, CoreFields
  <2> QED BY <1>4, <2>1, Zenon DEF Shift, Frame, CoreFields, Typed, Snaps
<1> HIDE DEF u
<1>6. Clear(n, u, disk[n].hard, host[n], ballots)
  BY <1>2, <1>5, ShiftClear, Zenon
<1>7. Fine(n, u, disk[n].hard, host[n], ballots)
  BY <1>6, ClearFacts, Zenon
<1> QED BY <1>1, <1>7, EventKeeps, Zenon

\* The receiver of a message, with the sender marked active.
LEMMA ReceivedClear ==
    ASSUME NEW m \in msgs, SerialHost, Setting, VoteInv, Ready(m.to)
    PROVE  /\ m.to \in Node
           /\ Clear(m.to, Received(m), disk[m.to].hard, host[m.to], ballots)
           /\ Heard(m.to, m, ballots) /\ Registered(m.to, disk[m.to].hard, ballots)
<1>1. m.from \in Node /\ Sound(m.from, m, ballots)
  BY DEF VoteInv, Mail
<1>2. m.to \in Node
  BY <1>1 DEF Sound, Peers
<1>3. PICK n \in Node : n = m.to
  BY <1>2, Zenon
<1> USE <1>3
<1>4. /\ Clear(n, Begin(n), disk[n].hard, host[n], ballots)
      /\ Registered(n, disk[n].hard, ballots)
  BY ReadyClear, Zenon
<1> USE <1>4
<1> DEFINE t == MarkActive(Begin(n), m.from)
<1>5. Good(n, t, disk[n].hard, host[n], ballots) /\ Calm(Begin(n), t) /\ t.err = "Ok"
  BY MarkActiveGood, Zenon DEF Clear
<1> HIDE DEF t
<1>6. Clear(n, t, disk[n].hard, host[n], ballots)
  BY <1>5, CalmClear, Zenon
<1>7. Heard(n, m, ballots)
  BY <1>1, Zenon DEF Heard
<1> QED BY <1>6, <1>7, Zenon DEF Received, t

\* The delivery of a message.
LEMMA DeliverKeeps ==
    ASSUME NEW m \in msgs, NEW u, SerialHost, Setting, VoteInv, Deliver(m, u),
           Fine(m.to, u, disk[m.to].hard, host[m.to], ballots)
    PROVE  VoteInv'
<1>1. Ready(m.to)
  BY DEF Deliver
<1>2. m.to \in Node
  BY <1>1, ReceivedClear, Zenon
<1>3. PICK net : net \subseteq msgs /\ Commit(m.to, Stepped(m.to, u), host[m.to], net)
  BY DEF Deliver
<1>4. UNCHANGED <<disk, ballots>>
  BY DEF Deliver
<1> QED BY <1>2, <1>3, <1>4, EventKeeps, Zenon

\* Every message that arrives keeps the invariant.
LEMMA ReceiveKeeps ==
    ASSUME NEW m \in msgs, SerialHost, Setting, VoteInv, Receive(m)
    PROVE  VoteInv'
<1> DEFINE n == m.to
           s == Received(m)
           F(u) == Fine(n, u, disk[n].hard, host[n], ballots)
<1>1. ASSUME NEW u, Deliver(m, u)
      PROVE  /\ n \in Node /\ Clear(n, s, disk[n].hard, host[n], ballots)
             /\ Heard(n, m, ballots) /\ Registered(n, disk[n].hard, ballots)
  <2>1. Ready(m.to)
    BY <1>1, Zenon DEF Deliver
  <2> QED BY <2>1, ReceivedClear, Zenon
<1>2. ASSUME NEW u, Deliver(m, u), F(u)
      PROVE  VoteInv'
  BY <1>2, DeliverKeeps, Zenon
<1> HIDE DEF s
<1>3. CASE ReceivePreVote(m)
  <2> DEFINE u == OnPreVote(n, s, m)
  <2>1. Deliver(m, u)
    BY <1>3, Zenon DEF ReceivePreVote, s
  <2>2. F(u)
    BY <1>1, <2>1, OnPreVoteFine, Zenon
  <2> QED BY <1>2, <2>1, <2>2, Zenon
<1>4. CASE ReceivePreVoteResponse(m)
  <2> DEFINE u == OnPreVoteResponse(n, s, m)
  <2>1. Deliver(m, u)
    BY <1>4, Zenon DEF ReceivePreVoteResponse, s
  <2>2. F(u)
    BY <1>1, <2>1, OnPreVoteResponseFine, Zenon
  <2> QED BY <1>2, <2>1, <2>2, Zenon
<1>5. CASE ReceiveRequestVote(m)
  <2> DEFINE u == OnVoteRequest(n, s, m)
  <2>1. Deliver(m, u)
    BY <1>5, Zenon DEF ReceiveRequestVote, s
  <2>2. F(u)
    BY <1>1, <2>1, OnVoteRequestFine, Zenon
  <2> QED BY <1>2, <2>1, <2>2, Zenon
<1>6. CASE ReceiveVoteResponse(m)
  <2> DEFINE u == OnVoteResponse(n, s, m)
  <2>1. Deliver(m, u) /\ m.kind = "VoteResponse"
    BY <1>6, Zenon DEF ReceiveVoteResponse, s
  <2>2. F(u)
    BY <1>1, <2>1, OnVoteResponseFine, Zenon
  <2> QED BY <1>2, <2>1, <2>2, Zenon
<1>7. CASE ReceiveAppendEntries(m)
  <2> DEFINE u == OnAppendEntries(n, s, m)
  <2>1. Deliver(m, u)
    BY <1>7, Zenon DEF ReceiveAppendEntries, s
  <2>2. F(u)
    BY <1>1, <2>1, OnAppendEntriesFine, Zenon
  <2> QED BY <1>2, <2>1, <2>2, Zenon
<1>8. CASE ReceiveAppendEntriesResponse(m)
  <2> DEFINE u == OnAppendEntriesResponse(n, s, m)
  <2>1. Deliver(m, u)
    BY <1>8, Zenon DEF ReceiveAppendEntriesResponse, s
  <2>2. F(u)
    BY <1>1, <2>1, OnAppendEntriesResponseFine, Zenon
  <2> QED BY <1>2, <2>1, <2>2, Zenon
<1>9. CASE ReceiveInstallSnapshot(m)
  <2> DEFINE u == OnInstallSnapshot(n, s, m)
  <2>1. Deliver(m, u) /\ m.kind = "InstallSnapshot"
    BY <1>9, Zenon DEF ReceiveInstallSnapshot, s
  <2>2. F(u)
    BY <1>1, <2>1, OnInstallSnapshotFine, Zenon
  <2> QED BY <1>2, <2>1, <2>2, Zenon
<1>10. CASE ReceiveInstallSnapshotResponse(m)
  <2> DEFINE u == OnInstallSnapshotResponse(n, s, m)
  <2>1. Deliver(m, u)
    BY <1>10, Zenon DEF ReceiveInstallSnapshotResponse, s
  <2>2. F(u)
    BY <1>1, <2>1, OnInstallSnapshotResponseFine, Zenon
  <2> QED BY <1>2, <2>1, <2>2, Zenon
<1> QED BY <1>3, <1>4, <1>5, <1>6, <1>7, <1>8, <1>9, <1>10, Zenon DEF Receive
-----------------------------------------------------------------------------
(* Completions and failures *)

\* The report that the oldest effect is done, which left its mark on the disk.
LEMMA ReportKeeps ==
    ASSUME NEW n \in Node, NEW kind, NEW k \in Completable(n, kind), NEW outcome,
           SerialHost, Setting, VoteInv, Clean(core[n]), faults' = {},
           Report(n, k, outcome), kind = "BuildSnapshot" => DOMAIN outcome # {},
           disk' = [disk EXCEPT ![n] = disk'[n]],
           disk'[n] = disk[n] \/ disk'[n] = Written(disk[n], host[n][k]),
           disk'[n].hard = HardAfter(disk[n].hard, host[n][k]),
           ballots' = ballots \cup Cast(n, host[n][k])
    PROVE  VoteInv' /\ (Elects(n) \/ Records(n))
<1> DEFINE s == Begin(n)
           u == OnEffectCompleted(n, s, host[n][k].id, outcome)
<1>1. ~core[n].stopped /\ Commit(n, Stepped(n, u), Without(host[n], k), msgs)
  BY DEF Report
<1>2. PICK q : q = host[n]
  OBVIOUS
<1>3. PICK e : e = Head(q)
  BY Zenon
<1>4. /\ q # << >> /\ e.kind = kind /\ host[n][k] = e /\ Without(host[n], k) = Tail(q)
      /\ Good(n, s, disk[n].hard, q, ballots) /\ s.fx = << >> /\ s.err = "Ok"
      /\ Frame(core[n], s, {"seq"})
  BY <1>1, <1>2, <1>3, Oldest, Zenon
<1>5. Clean(s)
  BY <1>4, CleanBegin, Zenon
<1>6. Disks /\ Books
  BY DEF VoteInv
<1> HIDE DEF s
<1>7. /\ WritesHard(e) => Hard(e.hard)
      /\ Moves(n, disk[n].hard, disk'[n].hard, ballots, ballots')
  <2>1. /\ WritesHard(e) => Hard(e.hard)
        /\ Moves(n, disk[n].hard, HardAfter(disk[n].hard, e), ballots, ballots \cup Cast(n, e))
    BY <1>3, <1>4, <1>5, <1>6, EffectMoves, Zenon
  <2> QED BY <1>4, <2>1, Zenon
<1>8. /\ disk' = [p \in Node |-> disk'[p]]
      /\ \A p \in Node : p # n => disk'[p] = disk[p]
  BY <1>6, Zenon DEF Disks
<1>9. Disks'
  <2>1. IsDisk(disk[n]) /\ \A p \in Node : IsDisk(disk[p])
    BY <1>6, Zenon DEF Disks
  <2>2. IsDisk(disk'[n])
    BY <1>4, <1>7, <2>1, WrittenFacts, Zenon
  <2> QED BY <1>8, <2>1, <2>2, Zenon DEF Disks
<1>10. Books' /\ ballots \subseteq ballots'
  BY <1>6, <1>7, <1>8, <1>9, BooksKept, Zenon
<1>11. Registered(n, disk'[n].hard, ballots')
  BY <1>10, Zenon DEF Books
<1>12. Stepped(n, u).err # "Log"
  BY <1>1, Zenon DEF Commit
<1>13. e.kind = "Persist" =>
          (e.hard # Nil => (e.hard.vote # Nil => <<n, e.hard.term, e.hard.vote>> \in ballots'))
  BY <1>4, Zenon DEF Cast
<1>14. /\ Ended(n, Stepped(n, u), disk'[n].hard, Tail(q), ballots')
       /\ WritesHard(e) /\ Stepped(n, u).role = "Leader" => Steady(s, Stepped(n, u))
  <2>1. PICK h : h = disk'[n].hard
    BY Zenon
  <2>2. PICK C : C = ballots'
    BY Zenon
  <2>3. PICK r : r = Tail(q)
    BY Zenon
  <2>4. PICK before : before = core[n]
    BY Zenon
  <2>5. Step(before, OnEffectCompleted(n, s, e.id, outcome)).err # "Log"
    BY <1>4, <1>12, <2>4, Zenon DEF Stepped
  <2>6. h = HardAfter(disk[n].hard, e) /\ Registered(n, h, C) /\ ballots \subseteq C
    BY <1>4, <1>10, <1>11, <2>1, <2>2, Zenon
  <2>7. PICK t : t = Step(before, OnEffectCompleted(n, s, e.id, outcome))
    BY Zenon
  <2>8. Ended(n, t, h, r, C) /\ (WritesHard(e) /\ t.role = "Leader" => Steady(s, t))
    BY <1>3, <1>4, <1>5, <1>13, <2>2, <2>3, <2>5, <2>6, <2>7, CompletionEnds, Zenon
  <2> QED BY <1>4, <2>1, <2>2, <2>3, <2>4, <2>7, <2>8, Zenon DEF Stepped
<1>15. Cores' /\ Mail' /\ Offices'
  <2>1. Commit(n, Stepped(n, u), Tail(q), msgs)
    BY <1>1, <1>4, Zenon
  <2> HIDE DEF u
  <2> QED BY <1>8, <1>10, <1>14, <2>1, CommitKeeps, Zenon
<1>16. Elects(n) \/ Records(n)
  <2>1. CASE WritesHard(e)
    <3>1. elected' = elected
      BY <1>1, <1>4, <1>14, <2>1, NoNewLeader, Zenon
    <3> QED BY <1>7, <1>8, <3>1, Zenon DEF Records
  <2>2. CASE ~WritesHard(e)
    <3>1. HardAfter(disk[n].hard, e) = disk[n].hard /\ Cast(n, e) = {}
      BY <2>2, Zenon DEF HardAfter, WritesHard, Cast
    <3>2. ballots' = ballots /\ \A p \in Node : disk'[p].hard = disk[p].hard
      BY <1>4, <1>8, <3>1, Zenon
    <3>3. elected' = elected \/ \E t : elected' = elected \cup {<<t, n>>}
      BY <1>1, Zenon DEF Commit
    <3> QED BY <3>2, <3>3, Zenon DEF Elects
  <2> QED BY <2>1, <2>2, Zenon
<1> QED BY <1>9, <1>10, <1>15, <1>16, Zenon DEF VoteInv

\* An effect that is no persist leaves the hard state.
LEMMA OtherReportKeeps ==
    ASSUME NEW n \in Node, NEW kind, NEW k \in Completable(n, kind), NEW outcome,
           SerialHost, Setting, VoteInv, Clean(core[n]), faults' = {},
           Report(n, k, outcome), kind # "Persist",
           kind = "BuildSnapshot" => DOMAIN outcome # {},
           \/ disk' = disk
           \/ disk' = [disk EXCEPT ![n] = Written(disk[n], host[n][k])],
           ballots' = ballots
    PROVE  VoteInv' /\ (Elects(n) \/ Records(n))
<1>1. PICK e : e = host[n][k]
  BY Zenon
<1> USE <1>1
<1>2. e.kind # "Persist"
  BY DEF Completable
<1>3. Disks /\ IsDisk(disk[n])
  BY DEF VoteInv, Disks
<1>4. HardAfter(disk[n].hard, e) = disk[n].hard /\ Cast(n, e) = {} /\ ~WritesHard(e)
  BY <1>2, Zenon DEF HardAfter, Cast, WritesHard
<1>5. /\ disk' = [disk EXCEPT ![n] = disk'[n]]
      /\ disk'[n] = disk[n] \/ disk'[n] = Written(disk[n], e)
  BY <1>3, Zenon DEF Disks
<1>6. disk'[n].hard = disk[n].hard
  <2>1. Written(disk[n], e).hard = HardAfter(disk[n].hard, e)
    BY <1>3, <1>4, WrittenFacts, Zenon
  <2> QED BY <1>4, <1>5, <2>1, Zenon
<1>7. /\ disk'[n].hard = HardAfter(disk[n].hard, host[n][k])
      /\ ballots' = ballots \cup Cast(n, host[n][k])
  BY <1>4, <1>6, Zenon
<1> QED BY <1>5, <1>7, ReportKeeps, Zenon

\* The completion of an effect of any kind.
LEMMA CompleteKeeps ==
    ASSUME NEW n \in Node, SerialHost, Setting, VoteInv, Clean(core[n]), faults' = {},
           Complete(n)
    PROVE  VoteInv' /\ (Elects(n) \/ Records(n))
<1>1. CASE CompletePersist(n)
  <2>1. PICK k \in Completable(n, "Persist") :
           /\ disk' = [disk EXCEPT ![n] = Written(@, host[n][k])]
           /\ ballots' = ballots \cup Cast(n, host[n][k])
           /\ Report(n, k, Nil)
    BY <1>1, Zenon DEF CompletePersist
  <2>2. PICK e : e = host[n][k]
    OBVIOUS
  <2>3. Disks /\ Books /\ IsDisk(disk[n])
    BY DEF VoteInv, Disks
  <2>4. disk'[n] = Written(disk[n], e) /\ disk' = [disk EXCEPT ![n] = disk'[n]]
    BY <2>1, <2>2, <2>3, Zenon DEF Disks
  <2>5. WritesHard(e) => Hard(e.hard)
    <3>1. ~core[n].stopped
      BY <2>1, Zenon DEF Report
    <3>2. /\ host[n] # << >> /\ e = Head(host[n])
          /\ Good(n, Begin(n), disk[n].hard, host[n], ballots) /\ Begin(n).fx = << >>
          /\ Frame(core[n], Begin(n), {"seq"})
      BY <2>2, <3>1, Oldest, Zenon
    <3>3. Clean(Begin(n))
      BY <3>2, CleanBegin, Zenon
    <3> QED BY <2>3, <3>2, <3>3, EffectMoves, Zenon
  <2>6. disk'[n].hard = HardAfter(disk[n].hard, e)
    BY <2>3, <2>4, <2>5, WrittenFacts, Zenon
  <2>7. /\ disk' = [disk EXCEPT ![n] = disk'[n]] /\ disk'[n] = Written(disk[n], host[n][k])
        /\ disk'[n].hard = HardAfter(disk[n].hard, host[n][k])
    BY <2>2, <2>4, <2>6, Zenon
  <2>8. ballots' = ballots \cup Cast(n, host[n][k]) /\ Report(n, k, Nil)
    BY <2>1, Zenon
  <2>9. "Persist" # "BuildSnapshot"
    OBVIOUS
  <2> QED BY <2>7, <2>8, <2>9, ReportKeeps, Zenon
<1>2. CASE CompleteApply(n)
  <2>1. PICK k \in Completable(n, "Apply") : Report(n, k, Nil) /\ disk' = disk /\ ballots' = ballots
    BY <1>2, Zenon DEF CompleteApply
  <2>2. "Apply" # "Persist" /\ "Apply" # "BuildSnapshot"
    OBVIOUS
  <2> QED BY <2>1, <2>2, OtherReportKeeps, Zenon
<1>3. CASE CompleteBuild(n)
  <2>1. PICK k \in Completable(n, "BuildSnapshot") :
           \E snap : Report(n, k, snap) /\ DOMAIN snap # {} /\ disk' = disk /\ ballots' = ballots
    <3> DEFINE Snap(k) == [index |-> host[n][k].through,
                           term |-> machine[n][host[n][k].through].term, by |-> n,
                           body |-> SubSeq(machine[n], 1, host[n][k].through)]
    <3>1. PICK k \in Completable(n, "BuildSnapshot") :
             Report(n, k, Snap(k)) /\ disk' = disk /\ ballots' = ballots
      BY <1>3, Zenon DEF CompleteBuild
    <3>2. DOMAIN Snap(k) # {}
      OBVIOUS
    <3> HIDE DEF Snap
    <3> QED BY <3>1, <3>2, Zenon
  <2>2. PICK snap : /\ Report(n, k, snap) /\ DOMAIN snap # {}
                    /\ disk' = disk /\ ballots' = ballots
    BY <2>1, Zenon
  <2>3. PICK kind : kind = "BuildSnapshot"
    BY Zenon
  <2>4. k \in Completable(n, kind) /\ kind # "Persist" /\ (kind = "BuildSnapshot" => DOMAIN snap # {})
    BY <2>2, <2>3
  <2> QED BY <2>2, <2>4, OtherReportKeeps, Zenon
<1>4. CASE CompleteCompact(n)
  <2>1. PICK k \in Completable(n, "CompactLog") :
           /\ disk' = [disk EXCEPT ![n] = Written(disk[n], host[n][k])]
           /\ Report(n, k, Nil) /\ ballots' = ballots
    BY <1>4, Zenon DEF CompleteCompact
  <2>2. \A kind : kind = "CompactLog" => kind # "Persist" /\ kind # "BuildSnapshot"
    OBVIOUS
  <2> QED BY <2>1, <2>2, OtherReportKeeps, Zenon
<1>5. CASE CompleteStore(n)
  <2>1. PICK k \in Completable(n, "StoreSnapshotChunk") :
           Report(n, k, Nil) /\ disk' = disk /\ ballots' = ballots
    BY <1>5, Zenon DEF CompleteStore
  <2>2. "StoreSnapshotChunk" # "Persist" /\ "StoreSnapshotChunk" # "BuildSnapshot"
    OBVIOUS
  <2> QED BY <2>1, <2>2, OtherReportKeeps, Zenon
<1>6. CASE CompleteInstall(n)
  <2>1. PICK k \in Completable(n, "InstallSnapshot") :
           Report(n, k, Nil) /\ disk' = disk /\ ballots' = ballots
    BY <1>6, Zenon DEF CompleteInstall
  <2>2. "InstallSnapshot" # "Persist" /\ "InstallSnapshot" # "BuildSnapshot"
    OBVIOUS
  <2> QED BY <2>1, <2>2, OtherReportKeeps, Zenon
<1>7. CASE CompleteRead(n)
  <2>1. PICK k \in Completable(n, "ReadSnapshotChunk") :
           \E outcome : Report(n, k, outcome) /\ disk' = disk /\ ballots' = ballots
    BY <1>7, Zenon DEF CompleteRead
  <2>2. "ReadSnapshotChunk" # "Persist" /\ "ReadSnapshotChunk" # "BuildSnapshot"
    OBVIOUS
  <2> QED BY <2>1, <2>2, OtherReportKeeps, Zenon
<1> QED BY <1>1, <1>2, <1>3, <1>4, <1>5, <1>6, <1>7, Zenon DEF Complete

\* The failure of an effect stops the core and keeps the invariant.
LEMMA FailEffectKeeps ==
    ASSUME NEW n \in Node, SerialHost, Setting, VoteInv, FailEffect(n)
    PROVE  VoteInv'
<1>1. ~core[n].stopped /\ UNCHANGED <<disk, ballots>>
  BY Zenon DEF FailEffect
<1> USE <1>1
<1>2. PICK kind : \E k \in Completable(n, kind) :
         Commit(n, Stepped(n, OnEffectFailed(Begin(n), host[n][k].id)), Without(host[n], k),
                msgs)
  BY DEF FailEffect
<1>3. PICK k \in Completable(n, kind) :
         Commit(n, Stepped(n, OnEffectFailed(Begin(n), host[n][k].id)), Without(host[n], k),
                msgs)
  BY <1>2, Zenon
<1>4. PICK q : q = host[n]
  OBVIOUS
<1>5. PICK e : e = Head(q)
  BY Zenon
<1> USE <1>5
<1>6. PICK s : s = Begin(n)
  BY Zenon
<1>7. /\ q # << >> /\ host[n][k] = e /\ Without(host[n], k) = Tail(q)
      /\ Good(n, s, disk[n].hard, q, ballots) /\ s.fx = << >> /\ s.err = "Ok"
      /\ Frame(core[n], s, {"seq"})
  BY <1>4, <1>6, Oldest, Zenon
<1> USE <1>7
<1>8. Ended(n, Step(core[n], OnEffectFailed(s, e.id)), disk[n].hard, Tail(q), ballots)
  BY FailureEnds, Zenon
<1>9. Commit(n, Step(core[n], OnEffectFailed(s, e.id)), Tail(q), msgs)
  BY <1>3, <1>6, Zenon DEF Stepped
<1> QED BY <1>8, <1>9, StepKeeps, Zenon
-----------------------------------------------------------------------------
(* The next-state relation *)

\* The hypotheses on a behaviour, see README: what is proved holds as long as they do.
Sober == CleanInstalls /\ NoFault

\* The invariant is inductive, for behaviours that are sober.
LEMMA NextKeeps ==
    ASSUME SerialHost, Setting, VoteInv, Sober, NoFault', [Next]_vars
    PROVE  VoteInv'
<1>1. ASSUME NEW n \in Node, Tick(n) PROVE VoteInv'
  BY <1>1, ElectionTickKeeps, HeartbeatTickKeeps, Zenon DEF Tick
<1>2. ASSUME NEW n \in Node, Ask(n) PROVE VoteInv'
  BY <1>2, SnapshotRequestedKeeps, ProposeKeeps, ReadKeeps, Zenon DEF Ask
<1>3. ASSUME NEW n \in Node, Complete(n) PROVE VoteInv'
  BY <1>3, CompleteKeeps, Zenon DEF Sober, CleanInstalls, NoFault
<1>4. ASSUME NEW n \in Node, Break(n) PROVE VoteInv'
  <2>1. Clean(core[n])
    BY DEF Sober, CleanInstalls
  <2> QED BY <1>4, <2>1, FailEffectKeeps, ShutdownKeeps, CrashKeeps, RecoverKeeps, Zenon DEF Break
<1>5. ASSUME NEW m \in msgs, Receive(m) PROVE VoteInv'
  BY <1>5, ReceiveKeeps, Zenon
<1>6. ASSUME NEW m \in msgs, Lose(m) PROVE VoteInv'
  <2>1. UNCHANGED <<core, disk, host, ballots, elected>> /\ msgs' \subseteq msgs
    BY <1>6, Zenon DEF Lose
  <2> QED BY <2>1, StutterKeeps, Zenon
<1>7. ASSUME UNCHANGED vars PROVE VoteInv'
  <2>1. UNCHANGED <<core, disk, host, ballots, elected>> /\ msgs' \subseteq msgs
    BY <1>7, Zenon DEF vars
  <2> QED BY <2>1, StutterKeeps, Zenon
<1> QED BY <1>1, <1>2, <1>3, <1>4, <1>5, <1>6, <1>7, Zenon DEF Next
-----------------------------------------------------------------------------
(* What a step does to the durable votes *)

\* A message is handled without a write.
LEMMA ReceiveElects ==
    ASSUME NEW m \in msgs, Receive(m)
    PROVE  Elects(m.to)
<1>1. ASSUME NEW u, Deliver(m, u) PROVE Elects(m.to)
  <2>1. UNCHANGED <<disk, ballots>>
    BY <1>1, Zenon DEF Deliver
  <2>2. PICK net : Commit(m.to, Stepped(m.to, u), host[m.to], net)
    BY <1>1, Zenon DEF Deliver
  <2> QED BY <2>1, <2>2, EventElects, Zenon
<1>2. \E u : Deliver(m, u)
  BY DEF Receive, ReceivePreVote, ReceivePreVoteResponse, ReceiveRequestVote,
         ReceiveVoteResponse, ReceiveAppendEntries, ReceiveAppendEntriesResponse,
         ReceiveInstallSnapshot, ReceiveInstallSnapshotResponse
<1> QED BY <1>1, <1>2, Zenon

\* Every step of the cluster elects or records, or leaves votes, terms and leaders alone.
LEMMA NextRecords ==
    ASSUME SerialHost, Setting, VoteInv, Sober, NoFault', [Next]_vars
    PROVE  Rests \/ \E n \in Node : Elects(n) \/ Records(n)
<1>1. ASSUME NEW n \in Node, Tick(n) PROVE Elects(n)
  BY <1>1, EventElects, Zenon DEF Tick, ElectionTick, HeartbeatTick
<1>2. ASSUME NEW n \in Node, Ask(n) PROVE Elects(n)
  BY <1>2, EventElects, Zenon DEF Ask, SnapshotRequested, Propose, Read
<1>3. ASSUME NEW n \in Node, Complete(n) PROVE Elects(n) \/ Records(n)
  BY <1>3, CompleteKeeps, Zenon DEF Sober, CleanInstalls, NoFault
<1>4. ASSUME NEW n \in Node, Break(n) PROVE Elects(n) \/ Records(n)
  <2>1. Clean(core[n])
    BY DEF Sober, CleanInstalls
  <2>2. CASE FailEffect(n) \/ Shutdown(n)
    BY <2>2, EventElects, Zenon DEF FailEffect, Shutdown
  <2>3. CASE Crash(n)
    BY <2>1, <2>3, CrashRecords, Zenon
  <2>4. CASE Recover(n)
    BY <2>4, RecoverRecords, Zenon
  <2> QED BY <1>4, <2>2, <2>3, <2>4, Zenon DEF Break
<1>5. ASSUME NEW m \in msgs, Receive(m) PROVE m.to \in Node /\ Elects(m.to)
  <2>1. m.to \in Node
    BY Zenon DEF VoteInv, Mail, Sound, Peers
  <2> QED BY <1>5, <2>1, ReceiveElects, Zenon
<1>6. ASSUME NEW m \in msgs, Lose(m) PROVE Rests
  BY <1>6, Zenon DEF Lose, Rests
<1>7. ASSUME UNCHANGED vars PROVE Rests
  BY <1>7, Zenon DEF vars, Rests
<1> QED BY <1>1, <1>2, <1>3, <1>4, <1>5, <1>6, <1>7, Zenon DEF Next
-----------------------------------------------------------------------------
(* Theorems *)

\* The inductive invariant of elections holds in every sober behaviour of a cluster of any
\* size (core.rs: every handler, continuation and completion; the serial host of the
\* contract).
THEOREM VoteInvariant ==
    ASSUME SerialHost, NilIsNoRecord
    PROVE  Spec /\ []Sober => []VoteInv
<1>1. Init => VoteInv
  BY SettingHolds, InitHolds, Zenon
<1>2. VoteInv /\ Sober /\ Sober' /\ [Next]_vars => VoteInv'
  <2> SUFFICES ASSUME VoteInv, Sober, Sober', [Next]_vars PROVE VoteInv'
    OBVIOUS
  <2>1. NoFault'
    BY DEF Sober
  <2> QED BY <2>1, SettingHolds, NextKeeps, Zenon
<1> QED BY <1>1, <1>2, PTL DEF Spec

\* Election Safety: at most one node ever takes office in a term (core.rs
\* activate_leader), whatever crashes, losses and reorderings there were.
THEOREM ElectionSafetyHolds ==
    ASSUME SerialHost, NilIsNoRecord
    PROVE  Spec /\ []Sober => []ElectionSafety
<1>1. VoteInv => ElectionSafety
  BY SettingHolds, VoteInvElectionSafety, Zenon
<1> QED BY <1>1, VoteInvariant, PTL

\* A vote counts, and a grant travels, only once it is durable (core.rs on_vote_request
\* answers through the continuation of the persist).
THEOREM GrantsAreDurableHolds ==
    ASSUME SerialHost, NilIsNoRecord
    PROVE  Spec /\ []Sober => []GrantsAreDurable
<1>1. VoteInv => GrantsAreDurable
  BY SettingHolds, VoteInvGrants, Zenon
<1> QED BY <1>1, VoteInvariant, PTL

\* The persist barrier (core.rs pending_persist) is for the one persist of the protocol that
\* is outstanding.
THEOREM OnePersistHolds ==
    ASSUME SerialHost, NilIsNoRecord
    PROVE  Spec /\ []Sober => []OnePersist
<1>1. VoteInv => OnePersist
  BY VoteInvOnePersist, Zenon
<1> QED BY <1>1, VoteInvariant, PTL

\* The report of a persist is never mistaken for that of an apply (core.rs:2127): emit_apply
\* waits for the persist barrier, and what a core asks for is reported in order.
THEOREM AppliesFirstHolds ==
    ASSUME SerialHost, NilIsNoRecord
    PROVE  Spec /\ []Sober => []AppliesFirst
<1>1. VoteInv => AppliesFirst
  BY VoteInvAppliesFirst, Zenon
<1> QED BY <1>1, VoteInvariant, PTL
-----------------------------------------------------------------------------
(* The vote ledger *)

\* The elections of the cluster implement VoteLedger: a persisted hard state is a vote or
\* a higher term, an activated leader has the votes of a quorum, and nothing else
\* happens to terms, votes and leaders.
THEOREM LedgerImplemented ==
    ASSUME SerialHost, NilIsNoRecord
    PROVE  Spec /\ []Sober /\ []TermsBounded => ImplementsVoteLedger
<1>1. Init /\ TermsBounded => Ledger!Init
  BY SettingHolds, LedgerStart, Zenon
<1>2. /\ VoteInv /\ VoteInv' /\ Sober /\ Sober' /\ TermsBounded /\ TermsBounded'
      /\ [Next]_vars
      => [Ledger!Next]_(Ledger!vars)
  <2> SUFFICES ASSUME VoteInv, VoteInv', Sober, Sober', TermsBounded, TermsBounded',
                      [Next]_vars
               PROVE  [Ledger!Next]_(Ledger!vars)
    OBVIOUS
  <2>1. Setting /\ NoFault'
    BY SettingHolds, Zenon DEF Sober
  <2>2. Rests \/ \E n \in Node : Elects(n) \/ Records(n)
    BY <2>1, NextRecords, Zenon
  <2> QED BY <2>1, <2>2, ElectsStep, RecordsStep, RestsStep, Zenon
<1> QED BY <1>1, <1>2, VoteInvariant, PTL DEF Spec, ImplementsVoteLedger, Ledger!Spec

\* No write takes back what the disk promised: the durable term never falls, and a vote is
\* never changed or withdrawn within its term (core.rs begin_term_transition,
\* become_candidate, on_vote_request, and the snapshot that is persisted with a term).
THEOREM PromisesKept ==
    ASSUME SerialHost, NilIsNoRecord
    PROVE  Spec /\ []Sober => [][\A n \in Node : Follows(disk'[n].hard, disk[n].hard)]_vars
<1>1. VoteInv /\ Sober /\ Sober' /\ [Next]_vars
      => [\A n \in Node : Follows(disk'[n].hard, disk[n].hard)]_vars
  <2> SUFFICES ASSUME VoteInv, Sober, Sober', [Next]_vars, NEW p \in Node
               PROVE  Follows(disk'[p].hard, disk[p].hard)
    OBVIOUS
  <2>1. Setting /\ NoFault'
    BY SettingHolds, Zenon DEF Sober
  <2>2. Rests \/ \E n \in Node : Elects(n) \/ Records(n)
    BY <2>1, NextRecords, Zenon
  <2>3. Follows(disk[p].hard, disk[p].hard)
    BY DEF VoteInv, Disks, IsDisk, Hard, Follows
  <2> QED BY <2>2, <2>3, Zenon DEF Rests, Elects, Records, Moves
<1> QED BY <1>1, VoteInvariant, PTL DEF Spec
=============================================================================
