--------------------------- MODULE RaftCore_proofs ---------------------------
(***************************************************************************)
(* Every operator of a core that a tick, a client call or a message runs   *)
(* keeps the invariant of CoreVotes, and so does the end of the step.      *)
(***************************************************************************)
EXTENDS RaftCore, CoreVotes_proofs
-----------------------------------------------------------------------------
(* The operators that ask for nothing heavy *)

\* `emit_apply_if_needed` asks for at most one Apply.
LEMMA EmitApplyGood ==
    ASSUME NEW n, NEW s, NEW dh, NEW r, NEW B, Good(n, s, dh, r, B), s.err = "Ok",
           s.pendingPersist = Nil /\ EmitApply(s).err = "Log" => Synced(s, dh, Range(r))
    PROVE  Good(n, EmitApply(s), dh, r, B) /\ Gentle(s, EmitApply(s))
<1> DEFINE x == Entries(s.log, s.applied + 1, s.hard.commit)
           e == [id |-> s.seq + 1, kind |-> "Apply", entries |-> x]
           a == [id |-> s.seq + 1, through |-> s.hard.commit]
           t == [s EXCEPT !.seq = @ + 1, !.pendingApply = a, !.fx = Append(@, e)]
<1>1. \/ EmitApply(s) = s
      \/ s.pendingPersist = Nil /\ EmitApply(s) = t
      \/ s.pendingPersist = Nil /\ s.pendingApply = Nil /\ EmitApply(s) = Fail(s, "Log")
  BY DEF EmitApply
<1>2. Typed(n, s)
  BY DEF Good, Sane, Base
<1>3. Frame(s, t, {"seq", "pendingApply", "fx"})
  BY <1>2, Zenon DEF Frame, CoreFields, IsCore, Typed
<1>4. t.seq = s.seq + 1 /\ t.pendingApply = a /\ t.fx = Append(s.fx, e)
  BY <1>2 DEF Typed, IsCore, CoreFields
<1>5. a.id = s.seq + 1 /\ e.id = s.seq + 1 /\ e.kind = "Apply"
  OBVIOUS
<1> HIDE DEF t, e, a
<1>6. ~Heavy(e)
  BY <1>5 DEF Heavy, Protocol, Incoming
<1>7. s.pendingPersist = Nil => Single(n, s, t, e, B)
  BY <1>2, <1>3, <1>4, <1>5, <1>6, Zenon
     DEF Single, Frame, CoreFields, Kept, AsksFor, Typed, Snaps
<1>8. s.pendingPersist = Nil => Good(n, t, dh, r, B) /\ Gentle(s, t)
  BY <1>7, SingleStep, Zenon
<1>9. Fail(s, "Log").err = "Log"
  BY <1>2 DEF Typed, IsCore, CoreFields, Fail
<1>10. CASE s.pendingPersist = Nil /\ s.pendingApply = Nil /\ EmitApply(s) = Fail(s, "Log")
  <2>1. Settled(s, dh, r)
    BY <1>9, <1>10, Zenon DEF Settled, Waits
  <2>2. Good(n, Fail(s, "Log"), dh, r, B) /\ Calm(s, Fail(s, "Log"))
    BY <2>1, FailGood, Zenon
  <2> QED BY <1>10, <2>2, Zenon DEF Calm
<1>11. Gentle(s, s)
  BY CalmSame, Zenon DEF Calm
<1> QED BY <1>1, <1>8, <1>10, <1>11, Zenon

\* `request_local_snapshot` asks for at most one BuildSnapshot.
LEMMA RequestLocalSnapshotGood ==
    ASSUME NEW n, NEW s, NEW dh, NEW r, NEW B, Good(n, s, dh, r, B)
    PROVE  /\ Good(n, RequestLocalSnapshot(s), dh, r, B)
           /\ Calm(s, RequestLocalSnapshot(s))
<1> DEFINE e == [id |-> NextId(s), kind |-> "BuildSnapshot", through |-> s.applied]
           b == [phase |-> "Build", id |-> NextId(s), through |-> s.applied]
           t == [Emit(s, e) EXCEPT !.local = b]
<1>1. RequestLocalSnapshot(s) = s \/ RequestLocalSnapshot(s) = t
  BY DEF RequestLocalSnapshot
<1>2. Typed(n, s)
  BY DEF Good, Sane, Base
<1> USE <1>2
<1>3. Frame(s, t, {"seq", "local", "fx"})
  BY Zenon DEF Frame, CoreFields, IsCore, Typed, Emit
<1>4. t.seq = s.seq + 1 /\ t.local = b /\ t.fx = Append(s.fx, e)
  BY DEF Typed, IsCore, CoreFields, Emit
<1>5. b.id = s.seq + 1 /\ {"id", "phase"} \subseteq DOMAIN b /\ b.phase = "Build" /\ e.id = s.seq + 1
      /\ e.kind = "BuildSnapshot"
  BY DEF NextId
<1> HIDE DEF t, e, b
<1>6. ~Heavy(e)
  BY <1>5 DEF Heavy, Protocol, Incoming
<1>7. Single(n, s, t, e, B)
  BY <1>3, <1>4, <1>5, <1>6, Zenon DEF Single, Frame, CoreFields, Kept, AsksFor, Typed, Snaps
<1>8. Good(n, t, dh, r, B) /\ Calm(s, t)
  <2>1. t.pendingApply = s.pendingApply
    BY <1>3, Zenon DEF Frame, CoreFields
  <2> QED BY <1>7, <2>1, SingleStep, Zenon
<1> QED BY <1>1, <1>8, CalmSame

\* No operation of the log loses the snapshot.
LEMMA LogKeepsSnapshot ==
    ASSUME NEW l, Snapped(l)
    PROVE  /\ \A es : Snapped(Extend(l, es).log)
           /\ \A es : Snapped(MergeFromLeader(l, es).log)
           /\ \A i : Snapped(CommitTo(l, i).log)
           /\ \A i : Snapped(MarkStable(l, i).log)
           /\ \A i : Snapped([l EXCEPT !.committed = i])
           /\ \A p : p # Nil => Snapped(Compact(l, p).log)
           /\ \A p : p # Nil => Snapped(InstallSnapshot(l, p).log)
<1>1. \A es : Snapped(Extend(l, es).log)
  BY DEF Extend, Ok, Err, Snapped
<1>2. \A es : Snapped(ReplaceConflict(l, es).log)
  BY DEF ReplaceConflict, Ok, Err, Snapped
<1>3. \A es : Snapped(MergeFromLeader(l, es).log)
  BY <1>2 DEF MergeFromLeader
<1>4. \A i : Snapped(CommitTo(l, i).log)
  BY DEF CommitTo, Ok, Err, Snapped
<1>5. \A i : Snapped(MarkStable(l, i).log)
  BY DEF MarkStable, Ok, Err, Snapped
<1>6. \A i : Snapped([l EXCEPT !.committed = i])
  BY DEF Snapped
<1>7. \A p : p # Nil => Snapped(Compact(l, p).log)
  BY DEF Compact, Ok, Err, Snapped
<1>8. \A p : p # Nil => Snapped(InstallSnapshot(l, p).log)
  BY Zenon DEF InstallSnapshot, Ok, Snapped
<1> QED BY <1>1, <1>3, <1>4, <1>5, <1>6, <1>7, <1>8

\* `read_snapshot_chunk`, for each of several followers, asks for a chunk under an id of
\* its own.
LEMMA ReadSnapshotChunksGood ==
    ASSUME NEW n, NEW s, NEW P, NEW dh, NEW r, NEW B, Setting,
           Good(n, s, dh, r, B), Settled(s, dh, r), P \subseteq Peers(n)
    PROVE  /\ Good(n, ReadSnapshotChunks(s, P), dh, r, B)
           /\ Calm(s, ReadSnapshotChunks(s, P))
<1> DEFINE idle == {p \in P : ~\E x \in s.chunkReads : x.to = p}
           c == Cardinality(idle)
           order == CHOOSE f \in Bijection(1..Cardinality(idle), idle) : TRUE
           sender(p) == IF p \in DOMAIN s.senders THEN s.senders[p]
                        ELSE [snap |-> s.log.snap, offset |-> 0]
           read(k) == [id |-> s.seq + k, kind |-> "ReadSnapshotChunk",
                       snap |-> sender(order[k]).snap, offset |-> sender(order[k]).offset]
           es == [k \in 1..c |-> read(k)]
           g == [p \in DOMAIN s.senders \cup idle |-> sender(p)]
           new == [k \in 1..c |-> [id |-> s.seq + k, to |-> order[k]]]
           N == {[id |-> s.seq + k, to |-> order[k]] : k \in 1..c}
           t == [s EXCEPT !.seq = @ + c, !.fx = @ \o es, !.senders = g,
                          !.chunkReads = @ \cup N]
<1>1. \/ ReadSnapshotChunks(s, P) = Fail(s, "InvalidSnapshot")
      \/ ReadSnapshotChunks(s, P) = t
  BY Zenon DEF ReadSnapshotChunks
<1>2. Typed(n, s) /\ s.seq \in Nat
  BY DEF Good, Sane, Base, Fresh
<1>3. idle \subseteq Peers(n) /\ idle \in SUBSET Node
  BY DEF Peers
<1>4. c \in Nat /\ order \in Bijection(1..c, idle)
  BY <1>3, Zenon DEF Setting, Countable
<1>5. \A k \in 1..c : order[k] \in Peers(n)
  BY <1>3, <1>4, Zenon DEF Bijection, Injection
<1>6. es = [k \in 1..c |-> es[k]]
      /\ \A k \in 1..c : es[k].kind = "ReadSnapshotChunk" /\ es[k].id = s.seq + k
  BY Zenon
<1>7. new = [k \in 1..c |-> new[k]]
      /\ \A k \in 1..c : new[k].id = s.seq + k /\ new[k].to = order[k]
  BY Zenon
<1>8. Range(new) = N
  BY Zenon DEF Range
<1>9. Frame(s, t, {"seq", "fx", "senders", "chunkReads"})
  BY <1>2, Zenon DEF Frame, CoreFields, IsCore, Typed
<1>10. t.seq = s.seq + c /\ t.fx = s.fx \o es /\ t.chunkReads = s.chunkReads \cup N
       /\ t.senders = g
  BY <1>2, Zenon DEF Typed, IsCore, CoreFields
<1>11. \A p \in DOMAIN g : Snapped(g[p])
  BY <1>2, Zenon DEF Typed, Snaps, Snapped
<1> HIDE DEF t, es, new, N, order, c, idle, g
<1>12. /\ IsSeq(es)
       /\ \A e \in Range(es) :
             ~Heavy(e) /\ e.id \in Nat /\ s.seq < e.id /\ e.id <= s.seq + c
                /\ e.kind = "ReadSnapshotChunk"
  BY <1>2, <1>4, <1>6, NumberedReads, Zenon
<1>13. ASSUME NEW x \in N
       PROVE  x.id \in Nat /\ s.seq < x.id /\ x.id <= s.seq + c /\ x.to \in Peers(n)
  <2>1. PICK k \in 1..c : x = new[k]
    BY <1>7, <1>8, <1>13, Zenon DEF Range
  <2>2. x.id = s.seq + k /\ x.to = order[k]
    BY <2>1, <1>7, Zenon
  <2> QED BY <2>2, <1>2, <1>4, <1>5
<1>14. t.seq \in Nat /\ s.seq <= t.seq /\ t.seq = s.seq + c
  BY <1>2, <1>4, <1>10
<1>15. Light(n, s, t, es, dh, r, B)
  <2>1. Kept(s, t) /\ IsCore(t) /\ t.progress = s.progress /\ t.out = s.out
        /\ t.err = s.err /\ t.pendingApply = s.pendingApply /\ t.local = s.local
    BY <1>9, Zenon DEF Frame, CoreFields, Kept
  <2>2. Asks(s, t, es)
    BY <1>10, Zenon DEF Asks
  <2>3. \A x \in t.chunkReads :
          \/ x \in s.chunkReads
          \/ /\ x.id \in Nat /\ s.seq < x.id /\ x.id <= t.seq /\ x.to \in Peers(n)
             /\ \A e \in Range(es) : e.id = x.id => e.kind = "ReadSnapshotChunk"
    BY <1>10, <1>12, <1>13, <1>14, Zenon
  <2>4. \A e \in Range(es) : ~Heavy(e) /\ e.id \in Nat /\ s.seq < e.id /\ e.id <= t.seq
    BY <1>12, <1>14, Zenon
  <2>5. Snaps(t)
    BY <1>2, <1>9, <1>10, <1>11, Zenon DEF Frame, CoreFields, Typed, Snaps
  <2> QED BY <2>1, <2>2, <2>3, <2>4, <2>5, <1>2, <1>12, <1>14, Zenon DEF Light, Typed
<1>16. Good(n, t, dh, r, B) /\ Calm(s, t)
  <2>1. t.pendingApply = s.pendingApply
    BY <1>9, Zenon DEF Frame, CoreFields
  <2>2. t.pendingApply \in {Nil, s.pendingApply}
    BY <2>1
  <2> QED BY <1>15, <2>2, LightStep, Zenon
<1> QED BY <1>1, <1>16, FailGood

\* `replicate_to` sends to followers of n and asks for chunks.
LEMMA ReplicateGood ==
    ASSUME NEW n, NEW s, NEW P, NEW dh, NEW r, NEW B, Setting,
           Good(n, s, dh, r, B), Settled(s, dh, r)
    PROVE  Good(n, Replicate(n, s, P), dh, r, B) /\ Calm(s, Replicate(n, s, P))
<1> DEFINE ready == {p \in P \cap DOMAIN s.progress : CanSend(s.progress[p])}
           lagging == {p \in ready : s.progress[p].next < FirstIndex(s.log)}
           served == ready \ lagging
           end(p) == LET b == AppendMessage(n, s, p).entries
                     IN s.progress[p].next - 1 + Len(b)
           f == [p \in DOMAIN s.progress |->
                    CASE p \in served -> Sent(s.progress[p], end(p))
                      [] p \in lagging -> EnterSnapshot(s.progress[p])
                      [] OTHER -> s.progress[p]]
           ms == {AppendMessage(n, s, p) : p \in served}
           sent == Send([s EXCEPT !.progress = f], ms)
<1>1. \/ Replicate(n, s, P) = Fail(s, "Log")
      \/ Replicate(n, s, P) = ReadSnapshotChunks(sent, lagging)
  BY Zenon DEF Replicate
<1>2. Typed(n, s)
  BY DEF Good, Sane, Base
<1> USE <1>2
<1>3. DOMAIN f = DOMAIN s.progress /\ lagging \subseteq DOMAIN s.progress
      /\ served \subseteq DOMAIN s.progress
  OBVIOUS
<1>4. lagging \subseteq Peers(n) /\ served \subseteq Peers(n) /\ DOMAIN f \subseteq Peers(n)
  BY <1>3 DEF Typed
<1> USE <1>4
<1> HIDE DEF f, lagging, served
<1>5. \A m \in ms : Sound(n, m, B)
  <2> SUFFICES ASSUME NEW p \in served PROVE Sound(n, AppendMessage(n, s, p), B)
    OBVIOUS
  <2>1. /\ AppendMessage(n, s, p).from = n /\ AppendMessage(n, s, p).to = p
        /\ AppendMessage(n, s, p).term = s.hard.term
        /\ AppendMessage(n, s, p).kind = "AppendEntries"
    BY DEF AppendMessage
  <2> QED BY <2>1 DEF Sound, Typed, Hard
<1> HIDE DEF ms
<1>6. Frame(s, sent, {"progress", "out"})
  BY Zenon DEF Frame, CoreFields, IsCore, Typed, Send
<1>7. sent.progress = f /\ sent.out = s.out \cup ms
  BY DEF CoreFields, IsCore, Typed, Send
<1> HIDE DEF sent
<1>8. Quiet(n, s, sent, dh, r, B)
  BY <1>5, <1>6, <1>7 DEF Frame, CoreFields, Quiet, Kept, Typed, Snaps
<1>9. Good(n, sent, dh, r, B) /\ Calm(s, sent)
  BY <1>8, QuietStep
<1> USE <1>9
<1>10. Settled(sent, dh, r)
  BY CalmKeeps
<1>11. /\ Good(n, ReadSnapshotChunks(sent, lagging), dh, r, B)
       /\ Calm(sent, ReadSnapshotChunks(sent, lagging))
  BY <1>10, ReadSnapshotChunksGood
<1> QED BY <1>1, <1>11, FailGood, CalmTwice

\* A read round that its quorum has confirmed is released.
LEMMA ReleaseReadRoundGood ==
    ASSUME NEW n, NEW s, NEW dh, NEW r, NEW B, Good(n, s, dh, r, B)
    PROVE  /\ Good(n, ReleaseReadRound(s), dh, r, B) /\ Calm(s, ReleaseReadRound(s))
           /\ ReleaseReadRound(s).err = s.err
<1> DEFINE x == ReadReady(s.readRound.requests, s.readRound.safe)
           t == [s EXCEPT !.readRound = Nil, !.res = @ \cup x]
<1>1. ReleaseReadRound(s) = s \/ ReleaseReadRound(s) = t
  BY DEF ReleaseReadRound
<1>2. Typed(n, s)
  BY DEF Good, Sane, Base
<1> HIDE DEF x
<1>3. Frame(s, t, Unrelated)
  BY <1>2, Zenon DEF Frame, CoreFields, IsCore, Typed, Unrelated
<1> HIDE DEF t
<1> QED BY <1>1, <1>3, CalmSame, UnrelatedGood

\* The start of a read round is a broadcast.
LEMMA StartReadRoundGood ==
    ASSUME NEW n, NEW s, NEW id, NEW dh, NEW r, NEW B, Good(n, s, dh, r, B)
    PROVE  /\ Good(n, StartReadRound(n, s, id), dh, r, B)
           /\ Calm(s, StartReadRound(n, s, id))
           /\ StartReadRound(n, s, id).err = s.err
<1> DEFINE u == NewRound(n, s, id)
           m == ReadHeartbeat(n, u, u.readRound.context)
           alone == [u EXCEPT !.readRound.safe = s.hard.commit]
           queued == {s.pendingReads[k] : k \in 1..Len(s.pendingReads)}
           x == ReadReady({id} \cup queued, s.hard.commit)
           t == [s EXCEPT !.nextRead = @ + 1 + Len(s.pendingReads),
                          !.pendingReads = << >>, !.res = @ \cup x]
<1>1. StartReadRound(n, s, id) \in {Broadcast(n, u, m), alone, t}
  BY DEF StartReadRound
<1>2. Typed(n, s)
  BY DEF Good, Sane, Base
<1> USE <1>2
<1>3. Frame(s, u, Unrelated)
  BY Zenon DEF Frame, CoreFields, IsCore, Typed, Unrelated, NewRound
<1>4. Frame(s, alone, Unrelated)
  BY Zenon DEF Frame, CoreFields, IsCore, Typed, Unrelated, NewRound
<1> HIDE DEF x
<1>5. Frame(s, t, Unrelated)
  BY Zenon DEF Frame, CoreFields, IsCore, Typed, Unrelated
<1> HIDE DEF t, alone
<1>6. {"to", "from", "term", "kind"} \subseteq DOMAIN m /\ m.from = n
      /\ m.kind = "AppendEntries" /\ m.term = u.hard.term
  BY DEF ReadHeartbeat
<1> HIDE DEF u, m
<1>7. Good(n, u, dh, r, B) /\ Calm(s, u) /\ u.err = s.err /\ u.hard = s.hard
  <2>1. Good(n, u, dh, r, B) /\ Calm(s, u) /\ u.err = s.err
    BY <1>3, UnrelatedGood
  <2> QED BY <2>1 DEF Calm, Gentle, Kept
<1> USE <1>7
<1>8. Good(n, Broadcast(n, u, m), dh, r, B) /\ Calm(u, Broadcast(n, u, m))
  <2>1. m.term \in Nat
    BY <1>6 DEF Typed, Hard
  <2> QED BY <2>1, <1>6, BroadcastGood
<1>9. Broadcast(n, u, m).err = u.err
  BY <1>3, Zenon DEF Broadcast, Send, Frame, IsCore, CoreFields
<1>10. Calm(s, Broadcast(n, u, m))
  BY <1>8, CalmTwice
<1> QED BY <1>1, <1>4, <1>5, <1>8, <1>9, <1>10, UnrelatedGood

\* `start_pending_reads` starts at most one read round.
LEMMA StartPendingReadsGood ==
    ASSUME NEW n, NEW s, NEW dh, NEW r, NEW B, Good(n, s, dh, r, B)
    PROVE  /\ Good(n, StartPendingReads(n, s), dh, r, B)
           /\ Calm(s, StartPendingReads(n, s))
           /\ StartPendingReads(n, s).err = s.err
<1> DEFINE u == [s EXCEPT !.pendingReads = Tail(@)]
<1>1. \/ StartPendingReads(n, s) = s
      \/ StartPendingReads(n, s) = StartReadRound(n, u, Head(s.pendingReads))
  BY DEF StartPendingReads
<1>2. Typed(n, s)
  BY DEF Good, Sane, Base
<1>3. Frame(s, u, Unrelated)
  BY <1>2, Zenon DEF Frame, CoreFields, IsCore, Typed, Unrelated
<1> HIDE DEF u
<1>4. Good(n, u, dh, r, B) /\ Calm(s, u) /\ u.err = s.err
  BY <1>3, UnrelatedGood
<1> QED BY <1>1, <1>4, StartReadRoundGood, CalmTwice, CalmSame

\* `fail_uncommitted_proposals` answers clients only.
LEMMA FailUncommittedProposalsGood ==
    ASSUME NEW n, NEW s, NEW dh, NEW r, NEW B, Good(n, s, dh, r, B)
    PROVE  /\ Good(n, FailUncommittedProposals(s), dh, r, B)
           /\ Calm(s, FailUncommittedProposals(s))
           /\ FailUncommittedProposals(s).err = s.err
<1>1. Typed(n, s)
  BY DEF Good, Sane, Base
<1>2. Frame(s, FailUncommittedProposals(s), Unrelated)
  BY <1>1, Zenon DEF Frame, CoreFields, IsCore, Typed, Unrelated, FailUncommittedProposals
<1> QED BY <1>2, UnrelatedGood

\* A read is queued, answered or starts a round.
LEMMA OnReadGood ==
    ASSUME NEW n, NEW s, NEW id, NEW dh, NEW r, NEW B, Good(n, s, dh, r, B)
    PROVE  Good(n, OnRead(n, s, id), dh, r, B) /\ Calm(s, OnRead(n, s, id))
<1> DEFINE u == [s EXCEPT !.pendingReads = Append(@, id)]
           v == [s EXCEPT !.readRound.requests = @ \cup {id}]
<1>1. OnRead(n, s, id) \in {s, u, v, StartReadRound(n, s, id)}
  BY DEF OnRead
<1>2. Typed(n, s)
  BY DEF Good, Sane, Base
<1>3. Frame(s, u, Unrelated) /\ Frame(s, v, Unrelated)
  BY <1>2, Zenon DEF Frame, CoreFields, IsCore, Typed, Unrelated
<1> HIDE DEF u, v
<1> QED BY <1>1, <1>3, UnrelatedGood, StartReadRoundGood, CalmSame

\* `acknowledge_read_context` counts a follower for the read round.
LEMMA AcknowledgeReadContextGood ==
    ASSUME NEW n, NEW s, NEW from, NEW context, NEW dh, NEW r, NEW B,
           Good(n, s, dh, r, B)
    PROVE  /\ Good(n, AcknowledgeReadContext(n, s, from, context), dh, r, B)
           /\ Calm(s, AcknowledgeReadContext(n, s, from, context))
<1> DEFINE acks == Record(s.readRound.acks, from, TRUE)
           safe == IF HasQuorum(acks) /\ s.readRound.safe = Nil
                   THEN s.hard.commit ELSE s.readRound.safe
           u == [s EXCEPT !.readRound.acks = acks, !.readRound.safe = safe]
<1>1. \/ AcknowledgeReadContext(n, s, from, context) = s
      \/ AcknowledgeReadContext(n, s, from, context)
            = StartPendingReads(n, ReleaseReadRound(u))
  BY DEF AcknowledgeReadContext
<1>2. Typed(n, s)
  BY DEF Good, Sane, Base
<1> HIDE DEF acks, safe
<1>3. Frame(s, u, Unrelated)
  BY <1>2, Zenon DEF Frame, CoreFields, IsCore, Typed, Unrelated
<1> HIDE DEF u
<1>4. Good(n, u, dh, r, B) /\ Calm(s, u)
  BY <1>3, UnrelatedGood
<1>5. Good(n, ReleaseReadRound(u), dh, r, B) /\ Calm(u, ReleaseReadRound(u))
  BY <1>4, ReleaseReadRoundGood
<1>6. /\ Good(n, StartPendingReads(n, ReleaseReadRound(u)), dh, r, B)
      /\ Calm(ReleaseReadRound(u), StartPendingReads(n, ReleaseReadRound(u)))
  BY <1>5, StartPendingReadsGood
<1>7. Calm(s, StartPendingReads(n, ReleaseReadRound(u)))
  BY <1>4, <1>5, <1>6, CalmTwice
<1> QED BY <1>1, <1>6, <1>7, CalmSame

\* The read protocol has no error path.
LEMMA ReadsKeepErr ==
    ASSUME NEW n, NEW s, IsCore(s)
    PROVE  /\ StartPendingReads(n, s).err = s.err
           /\ \A from, context : AcknowledgeReadContext(n, s, from, context).err = s.err
<1>1. ASSUME NEW u, IsCore(u), NEW id
      PROVE  StartReadRound(n, u, id).err = u.err /\ IsCore(StartReadRound(n, u, id))
  BY <1>1, Zenon DEF StartReadRound, NewRound, Broadcast, Send, IsCore, CoreFields
<1>2. ASSUME NEW u, IsCore(u)
      PROVE  StartPendingReads(n, u).err = u.err
  <2> DEFINE v == [u EXCEPT !.pendingReads = Tail(@)]
  <2>1. IsCore(v) /\ v.err = u.err
    BY <1>2, Zenon DEF IsCore, CoreFields
  <2>2. \/ StartPendingReads(n, u) = u
        \/ StartPendingReads(n, u) = StartReadRound(n, v, Head(u.pendingReads))
    BY DEF StartPendingReads
  <2> HIDE DEF v
  <2> QED BY <2>1, <2>2, <1>1
<1>3. ASSUME NEW u, IsCore(u)
      PROVE  ReleaseReadRound(u).err = u.err /\ IsCore(ReleaseReadRound(u))
  BY <1>3, Zenon DEF ReleaseReadRound, IsCore, CoreFields
<1>4. ASSUME NEW from, NEW context
      PROVE  AcknowledgeReadContext(n, s, from, context).err = s.err
  <2> DEFINE acks == Record(s.readRound.acks, from, TRUE)
             safe == IF HasQuorum(acks) /\ s.readRound.safe = Nil
                     THEN s.hard.commit ELSE s.readRound.safe
             v == [s EXCEPT !.readRound.acks = acks, !.readRound.safe = safe]
  <2>1. IsCore(v) /\ v.err = s.err
    BY Zenon DEF IsCore, CoreFields
  <2>2. \/ AcknowledgeReadContext(n, s, from, context) = s
        \/ AcknowledgeReadContext(n, s, from, context)
              = StartPendingReads(n, ReleaseReadRound(v))
    BY DEF AcknowledgeReadContext
  <2> HIDE DEF v
  <2> QED BY <2>1, <2>2, <1>2, <1>3
<1> QED BY <1>2, <1>4

\* `mark_active` notes who has been heard of.
LEMMA MarkActiveGood ==
    ASSUME NEW n, NEW s, NEW from, NEW dh, NEW r, NEW B, Good(n, s, dh, r, B)
    PROVE  /\ Good(n, MarkActive(s, from), dh, r, B) /\ Calm(s, MarkActive(s, from))
           /\ MarkActive(s, from).err = s.err
<1> DEFINE t == [s EXCEPT !.active = @ \cup {from}]
<1>1. MarkActive(s, from) = s \/ MarkActive(s, from) = t
  BY DEF MarkActive
<1>2. Typed(n, s)
  BY DEF Good, Sane, Base
<1>3. Frame(s, t, Unrelated)
  BY <1>2, Zenon DEF Frame, CoreFields, IsCore, Typed, Unrelated
<1> HIDE DEF t
<1> QED BY <1>1, <1>3, CalmSame, UnrelatedGood
-----------------------------------------------------------------------------
(* A chunk of a snapshot is stored *)

\* A chunk that fits is handed to the host under the store barrier.
LEMMA StoreChunkFine ==
    ASSUME NEW n, NEW s, NEW q, NEW m, NEW dh, NEW r, NEW B, Setting,
           Clear(n, s, dh, r, B), Heard(n, m, B), Snapped(q), ~(m.term < s.hard.term)
    PROVE  Fine(n, StoreChunk(s, q, m), dh, r, B)
<1> DEFINE e == [id |-> NextId(s), kind |-> "StoreSnapshotChunk", snap |-> m.snap,
                 offset |-> m.offset]
           b == [id |-> NextId(s), done |-> m.done, from |-> m.from, term |-> m.term]
           t == StoreChunk(s, q, m)
<1>1. /\ Typed(n, s) /\ IsCore(s) /\ Snaps(s) /\ Hard(s.hard) /\ Same(dh, s.hard)
      /\ Fine(n, s, dh, r, B) /\ s.seq \in Nat
  BY ClearFacts DEF Typed, Clear, Good, Fresh
<1> USE <1>1
<1>2. Frame(s, t, {"fx", "seq", "incoming", "store"})
  BY Zenon DEF Frame, CoreFields, IsCore, StoreChunk, Emit
<1>3. t.fx = Append(s.fx, e) /\ t.seq = s.seq + 1 /\ t.incoming = q /\ t.store = b
  BY DEF CoreFields, IsCore, StoreChunk, Emit
<1>4. /\ e.id = s.seq + 1 /\ e.kind = "StoreSnapshotChunk" /\ b.id = s.seq + 1
      /\ b.from = m.from /\ b.term = m.term
  BY DEF NextId
<1> HIDE DEF t, e, b
<1>5. /\ m.from \in Peers(n) /\ m.term \in Nat /\ s.hard.term <= m.term
  <2>1. m.from \in Peers(n) /\ m.term \in Nat /\ s.hard.term \in Nat
    BY Zenon DEF Heard, Sound, Peers, Hard
  <2> QED BY <2>1
<1>6. Heavy(e) /\ ~Protocol(e) /\ ~Incoming(e)
  BY <1>4 DEF Heavy, Protocol, Incoming
<1>7. Snaps(t)
  BY <1>2, <1>3 DEF Snaps, Frame, CoreFields
<1>8. /\ t.hard = s.hard /\ t.role = s.role /\ t.votes = s.votes /\ t.err = s.err
      /\ t.out = s.out /\ t.chunkReads = s.chunkReads /\ t.local = s.local
      /\ t.pendingPersist = s.pendingPersist /\ t.pendingApply = s.pendingApply
      /\ t.installing = s.installing /\ IsCore(t) /\ t.progress = s.progress
      /\ t.stopped = s.stopped
  BY <1>2, Zenon DEF Frame, CoreFields
<1>9. Typed(n, t)
  <2>1. \A x \in Barriers(t) : x.id \in Nat
    <3>1. Barriers(t) \subseteq Barriers(s) \cup {b}
      BY <1>3, <1>8, Zenon DEF Barriers
    <3>2. b.id \in Nat
      BY <1>4
    <3> QED BY <3>1, <3>2, Zenon DEF Typed
  <2> QED BY <2>1, <1>3, <1>4, <1>5, <1>7, <1>8 DEF Typed
<1>10. ~IsFor(s.installing, e)
  <2>1. \A x \in Barriers(s) : x.id <= s.seq /\ x.id \in Nat
    BY Zenon DEF Clear, Good, Fresh, Typed
  <2> QED BY <2>1, <1>4 DEF Barriers, IsFor
<1>11. Pending(t, dh, e)
  BY <1>3, <1>4, <1>5, <1>6, <1>8, Zenon DEF Pending
<1>12. Raises(n, s, t, e, dh)
  BY <1>3, <1>4, <1>6, <1>8, <1>9, <1>10, <1>11, Zenon DEF Raises, AsksFor
<1>13. Good(n, t, dh, r, B) /\ Range(t.fx) = Range(s.fx) \cup {e}
  <2>1. Between(n, s, dh, r, B)
    BY Zenon DEF Clear, Good, Sane, Between
  <2> QED BY <2>1, <1>12, HeavyStep
<1>14. Fine(n, t, dh, r, B)
  BY <1>4, <1>13 DEF Fine
<1> QED BY <1>14, Zenon DEF t
-----------------------------------------------------------------------------
(* Changes of role and term *)

\* `advance_commit_index` persists the new commit index, under the hard state it has.
LEMMA AdvanceCommitFine ==
    ASSUME NEW n, NEW s, NEW dh, NEW r, NEW B, Setting, Clear(n, s, dh, r, B)
    PROVE  Fine(n, AdvanceCommit(s), dh, r, B)
<1> DEFINE i == QuorumMatch(s)
           h == [term |-> s.hard.term, vote |-> s.hard.vote, commit |-> i]
           v == [s EXCEPT !.log.committed = i]
           u == SetHard(v, s.hard.term, s.hard.vote, i)
           c == Continue("ApplyCommitted")
<1>1. AdvanceCommit(s) = s \/ AdvanceCommit(s) = QueuePersist(u, u.hard, << >>, c)
  BY DEF AdvanceCommit
<1>2. /\ Typed(n, s) /\ IsCore(s) /\ Snapped(s.log) /\ Tallied(n, s, B)
      /\ Fine(n, s, dh, r, B) /\ DOMAIN s.progress \subseteq Peers(n) /\ Hard(s.hard)
  BY ClearFacts DEF Typed
<1> USE <1>2
<1>3. Frame(s, u, {"hard", "log"})
  BY Zenon DEF Frame, CoreFields, IsCore, SetHard
<1>4. u.hard = h /\ u.log = [s.log EXCEPT !.committed = i]
  BY DEF CoreFields, IsCore, SetHard
<1> USE <1>4
<1>5. h # Nil /\ h.term = s.hard.term /\ h.vote = s.hard.vote /\ c.kind = "ApplyCommitted"
  BY DEF Setting, Continue
<1> USE <1>5
<1>6. Snapped([s.log EXCEPT !.committed = i])
  BY LogKeepsSnapshot, Zenon
<1> HIDE DEF u, v, h, c, i
<1>7. /\ Frame(s, u, Civil) /\ u.role = s.role /\ u.votes = s.votes
      /\ u.progress = s.progress
  BY <1>3 DEF Frame, CoreFields, Civil
<1> USE <1>7
<1>8. Prepares(n, s, u, u.hard, c, B)
  <2>1. Tallied(n, u, B) /\ Hard(u.hard) /\ Vow(u, u.hard, c)
    BY DEF Tallied, Hard, Vow
  <2>2. u.hard # Nil /\ Same(u.hard, u.hard) /\ Follows(u.hard, s.hard)
    BY DEF Same, Follows
  <2>3. IsContinuation(n, c)
    BY DEF IsContinuation
  <2>4. Snapped(u.log) /\ DOMAIN u.progress \subseteq Peers(n)
    BY <1>6, Zenon
  <2> QED BY <2>1, <2>2, <2>3, <2>4, CivilPrepares, Zenon
<1> QED BY <1>1, <1>8, PersistClear

\* `persist_leader_noop` persists the entry that opens a term of office.
LEMMA PersistLeaderNoopFine ==
    ASSUME NEW n, NEW s, NEW dh, NEW r, NEW B, Setting, Clear(n, s, dh, r, B),
           s.role = "Candidate", s.votes # Nil, HasQuorum(s.votes)
    PROVE  Fine(n, PersistLeaderNoop(s), dh, r, B)
<1> DEFINE e == [index |-> s.lastIndex + 1, term |-> s.hard.term, cmd |-> Noop]
           x == Extend(s.log, <<e>>)
           t == [s EXCEPT !.log = x.log]
           u == [t EXCEPT !.lastIndex = e.index, !.lastTerm = e.term, !.noop = e.index]
           c == Continue("ActivateLeader")
<1>1. \/ PersistLeaderNoop(s) = QueuePersist(u, Nil, <<e>>, c)
      \/ PersistLeaderNoop(s) = Fail(s, "Log")
  BY Zenon DEF PersistLeaderNoop, WithLog
<1>2. /\ Typed(n, s) /\ IsCore(s) /\ Snapped(s.log) /\ Tallied(n, s, B)
      /\ DOMAIN s.progress \subseteq Peers(n) /\ Hard(s.hard)
  BY ClearFacts DEF Typed
<1> USE <1>2
<1>3. Frame(s, u, {"log", "lastIndex", "lastTerm", "noop"})
  BY Zenon DEF Frame, CoreFields, IsCore
<1>4. u.log = x.log
  BY DEF CoreFields, IsCore
<1>5. c.kind = "ActivateLeader"
  BY DEF Continue
<1>6. Snapped(x.log)
  BY LogKeepsSnapshot
<1> HIDE DEF u, t, e, x, c
<1>7. /\ Frame(s, u, Civil) /\ u.role = s.role /\ u.votes = s.votes /\ u.hard = s.hard
      /\ u.progress = s.progress
  BY <1>3, Zenon DEF Frame, CoreFields, Civil
<1> USE <1>7
<1>8. Prepares(n, s, u, Nil, c, B)
  <2>1. Tallied(n, u, B) /\ Hard(u.hard) /\ Vow(u, Nil, c) /\ Same(u.hard, s.hard)
    BY <1>5, Zenon DEF Tallied, Vow, Same
  <2>2. IsContinuation(n, c)
    BY <1>5 DEF IsContinuation
  <2>3. Snapped(u.log) /\ DOMAIN u.progress \subseteq Peers(n)
    BY <1>4, <1>6, Zenon
  <2> QED BY <2>1, <2>2, <2>3, CivilPrepares, Zenon
<1>9. Fine(n, QueuePersist(u, Nil, <<e>>, c), dh, r, B)
  BY <1>8, PersistClear
<1> QED BY <1>1, <1>9, FailClear

\* `become_follower` leaves hard state, barriers and outputs alone.
LEMMA BecomeFollowerFrame ==
    ASSUME NEW s, IsCore(s)
    PROVE  /\ Frame(s, BecomeFollower(s), Civil \ {"hard", "log", "lastIndex", "lastTerm"})
           /\ BecomeFollower(s).role = "Follower" /\ DOMAIN BecomeFollower(s).progress = {}
<1>1. Frame(s, BecomeFollower(s), Civil \ {"hard", "log", "lastIndex", "lastTerm"})
  BY Zenon DEF Frame, CoreFields, IsCore, BecomeFollower, Civil
<1>2. BecomeFollower(s).role = "Follower" /\ DOMAIN BecomeFollower(s).progress = {}
  BY DEF CoreFields, IsCore, BecomeFollower
<1> QED BY <1>1, <1>2

\* A follower has no tally to answer for.
LEMMA BecomeFollowerClear ==
    ASSUME NEW n, NEW s, NEW dh, NEW r, NEW B, Clear(n, s, dh, r, B)
    PROVE  /\ Clear(n, BecomeFollower(s), dh, r, B)
           /\ BecomeFollower(s).role = "Follower"
           /\ BecomeFollower(s).hard = s.hard /\ BecomeFollower(s).log = s.log
<1> DEFINE t == BecomeFollower(s)
<1>1. Typed(n, s) /\ IsCore(s) /\ Snapped(s.log)
  BY ClearFacts DEF Typed
<1>2. /\ Frame(s, t, Civil \ {"hard", "log", "lastIndex", "lastTerm"})
      /\ t.role = "Follower" /\ DOMAIN t.progress = {}
  BY <1>1, BecomeFollowerFrame, Zenon
<1> USE <1>2
<1> HIDE DEF t
<1>3. Frame(s, t, Civil) /\ t.hard = s.hard /\ t.log = s.log /\ Tallied(n, t, B)
  BY DEF Frame, CoreFields, Civil, Tallied
<1>4. Shift(n, s, t, B)
  BY <1>1, <1>3, CivilShift
<1>5. Clear(n, t, dh, r, B)
  BY <1>4, ShiftClear
<1> QED BY <1>3, <1>5 DEF t

\* `begin_term_transition` adopts a higher term without a vote, and persists it before
\* anything else.
LEMMA BeginTermTransitionFine ==
    ASSUME NEW n, NEW s, NEW term \in Nat, NEW dh, NEW r, NEW B, Setting,
           Clear(n, s, dh, r, B), s.hard.term < term
    PROVE  Fine(n, BeginTermTransition(s, term), dh, r, B)
<1> DEFINE b == BecomeFollower(s)
           h == [term |-> term, vote |-> Nil, commit |-> s.hard.commit]
           u == SetHard(b, term, Nil, s.hard.commit)
           c == Continue("None")
<1>1. Typed(n, s) /\ IsCore(s) /\ Snapped(s.log)
  BY ClearFacts DEF Typed
<1>2. /\ Frame(s, b, Civil \ {"hard", "log", "lastIndex", "lastTerm"})
      /\ b.role = "Follower" /\ DOMAIN b.progress = {}
  BY <1>1, BecomeFollowerFrame
<1> HIDE DEF b
<1>3. Frame(b, u, {"hard"}) /\ u.hard = h
  BY <1>2 DEF Frame, IsCore, CoreFields, SetHard
<1> USE <1>3
<1>4. h # Nil /\ h.term = term /\ h.vote = Nil /\ c.kind = "None"
  BY DEF Setting, Continue
<1> USE <1>4
<1>5. BeginTermTransition(s, term) = QueuePersist(u, u.hard, << >>, c)
  BY DEF BeginTermTransition, b
<1> HIDE DEF u, h, c
<1>6. Frame(s, u, Civil) /\ u.role = "Follower" /\ DOMAIN u.progress = {} /\ u.log = s.log
  BY <1>2, Zenon DEF Frame, CoreFields, Civil
<1>7. Prepares(n, s, u, u.hard, c, B)
  <2>1. Tallied(n, u, B) /\ Hard(u.hard) /\ Vow(u, u.hard, c)
    BY <1>6 DEF Tallied, Hard, Vow
  <2>2. u.hard # Nil /\ Same(u.hard, u.hard) /\ Follows(u.hard, s.hard)
    BY DEF Same, Follows
  <2>3. IsContinuation(n, c)
    BY DEF IsContinuation
  <2> QED BY <2>1, <2>2, <2>3, <1>1, <1>6, CivilPrepares, Zenon
<1> QED BY <1>5, <1>7, PersistClear, Zenon

\* `become_candidate` votes for itself in a new term, and asks for votes only once that
\* is durable.
LEMMA BecomeCandidateFine ==
    ASSUME NEW n \in Node, NEW s, NEW dh, NEW r, NEW B, Setting, Clear(n, s, dh, r, B)
    PROVE  Fine(n, BecomeCandidate(n, s), dh, r, B)
<1> DEFINE h == [term |-> s.hard.term + 1, vote |-> n, commit |-> s.hard.commit]
           v == [s EXCEPT !.role = "Candidate", !.preVotes = Nil, !.votes = LocalVote(n)]
           u == SetHard(v, s.hard.term + 1, n, s.hard.commit)
           c == Continue("BroadcastVoteRequests")
<1>1. BecomeCandidate(n, s) = QueuePersist(u, u.hard, << >>, c)
  BY DEF BecomeCandidate
<1>2. /\ Typed(n, s) /\ IsCore(s) /\ Snapped(s.log)
      /\ DOMAIN s.progress \subseteq Peers(n) /\ s.hard.term \in Nat
  BY ClearFacts, Zenon DEF Typed, Hard
<1> USE <1>2
<1>3. Frame(s, u, {"role", "preVotes", "votes", "hard"})
  BY Zenon DEF Frame, CoreFields, IsCore, SetHard
<1>4. u.hard = h /\ u.role = "Candidate" /\ u.votes = LocalVote(n)
  BY Zenon DEF CoreFields, IsCore, SetHard
<1> USE <1>4
<1>5. /\ h # Nil /\ h.term = s.hard.term + 1 /\ h.vote = n
      /\ c.kind = "BroadcastVoteRequests"
  BY DEF Setting, Continue
<1> USE <1>5
<1>6. LocalVote(n) # Nil /\ "granted" \in DOMAIN LocalVote(n) /\ LocalVote(n).granted = {n}
  BY DEF Setting, LocalVote
<1> HIDE DEF u, v, h, c
<1>7. Frame(s, u, Civil) /\ u.progress = s.progress /\ u.log = s.log
  BY <1>3, Zenon DEF Frame, CoreFields, Civil
<1>8. Prepares(n, s, u, u.hard, c, B)
  <2>1. Tallied(n, u, B)
    BY <1>6, Zenon DEF Tallied
  <2>2. Hard(u.hard) /\ Vow(u, u.hard, c)
    BY DEF Hard, Vow
  <2>3. u.hard # Nil /\ Same(u.hard, u.hard) /\ Follows(u.hard, s.hard)
    BY DEF Same, Follows
  <2>4. IsContinuation(n, c)
    BY DEF IsContinuation
  <2>5. Snapped(u.log) /\ DOMAIN u.progress \subseteq Peers(n)
    BY <1>7
  <2> QED BY <2>1, <2>2, <2>3, <2>4, <2>5, <1>7, CivilPrepares, Zenon
<1> QED BY <1>1, <1>8, PersistClear

\* An election timeout starts a pre-vote, which promises nothing.
LEMMA StartPreVoteFine ==
    ASSUME NEW n \in Node, NEW s, NEW dh, NEW r, NEW B, Setting, Clear(n, s, dh, r, B)
    PROVE  Fine(n, StartPreVote(n, s), dh, r, B)
<1> DEFINE p == [s EXCEPT !.role = "PreCandidate", !.votes = Nil, !.preVotes = LocalVote(n)]
           m == VoteMessage(n, p, "PreVote", s.hard.term + 1)
<1>1. StartPreVote(n, s) \in {s, BecomeCandidate(n, p), Broadcast(n, p, m)}
  BY Zenon DEF StartPreVote
<1>2. /\ Typed(n, s) /\ IsCore(s) /\ Snapped(s.log) /\ Fine(n, s, dh, r, B)
      /\ DOMAIN s.progress \subseteq Peers(n) /\ s.hard.term \in Nat
  BY ClearFacts DEF Typed, Hard
<1> USE <1>2
<1>3. Frame(s, p, {"role", "preVotes", "votes"})
  BY Zenon DEF Frame, CoreFields, IsCore
<1>4. p.role = "PreCandidate"
  BY DEF CoreFields, IsCore
<1>5. /\ {"to", "from", "term", "kind"} \subseteq DOMAIN m
      /\ m.from = n /\ m.term = s.hard.term + 1 /\ m.kind = "PreVote"
  BY DEF VoteMessage
<1> HIDE DEF p, m
<1>6. /\ Frame(s, p, Civil) /\ p.hard = s.hard /\ p.progress = s.progress /\ p.log = s.log
      /\ Tallied(n, p, B)
  BY <1>3, <1>4, Zenon DEF Frame, CoreFields, Civil, Tallied
<1>7. Shift(n, s, p, B)
  BY <1>6, CivilShift, Zenon
<1>8. Clear(n, p, dh, r, B)
  BY <1>7, ShiftClear, Zenon
<1> USE <1>8
<1>9. Fine(n, BecomeCandidate(n, p), dh, r, B)
  BY BecomeCandidateFine, Zenon
<1>10. Good(n, Broadcast(n, p, m), dh, r, B) /\ Calm(p, Broadcast(n, p, m))
  <2>1. Good(n, p, dh, r, B) /\ m.term \in Nat
    BY <1>5 DEF Clear
  <2> QED BY <2>1, <1>5, BroadcastGood, Zenon
<1>11. Fine(n, Broadcast(n, p, m), dh, r, B)
  BY <1>10, CalmClear
<1> QED BY <1>1, <1>9, <1>11

\* A pre-vote is answered without a change of term or vote.
LEMMA OnPreVoteFine ==
    ASSUME NEW n, NEW s, NEW m, NEW dh, NEW r, NEW B, Clear(n, s, dh, r, B),
           Heard(n, m, B)
    PROVE  Fine(n, OnPreVote(n, s, m), dh, r, B)
<1> DEFINE g == /\ m.term > s.hard.term
                /\ IsLogUpToDate(m.lastIndex, m.lastTerm, s.lastIndex, s.lastTerm)
           a == VoteAnswer(n, m.from, "PreVoteResponse", s.hard.term, g)
<1>1. OnPreVote(n, s, m) = Send(s, {a})
  BY DEF OnPreVote
<1>2. m.from \in Peers(n) /\ s.hard.term \in Nat
  BY ClearFacts, Zenon DEF Heard, Sound, Peers, Hard
<1>3. a.from = n /\ a.to = m.from /\ a.term = s.hard.term /\ a.kind = "PreVoteResponse"
  BY DEF VoteAnswer
<1> HIDE DEF a, g
<1>4. Sound(n, a, B)
  BY <1>2, <1>3 DEF Sound
<1> QED BY <1>1, <1>4, SendClear, Zenon

\* A vote request: the vote is persisted first and granted by the continuation, unless
\* the same vote is durable already.
LEMMA OnVoteRequestFine ==
    ASSUME NEW n \in Node, NEW s, NEW m, NEW dh, NEW r, NEW B, Setting,
           Clear(n, s, dh, r, B), Heard(n, m, B), Registered(n, dh, B)
    PROVE  Fine(n, OnVoteRequest(n, s, m), dh, r, B)
<1> DEFINE current == IsLogUpToDate(m.lastIndex, m.lastTerm, s.lastIndex, s.lastTerm)
           higher == m.term > s.hard.term
           g == current /\ (higher \/ s.hard.vote \in {Nil, m.from})
           refusal == VoteAnswer(n, m.from, "VoteResponse", s.hard.term, FALSE)
           answer == VoteAnswer(n, m.from, "VoteResponse", m.term, g)
           f == [s EXCEPT !.role = "Follower", !.preVotes = Nil, !.votes = Nil]
           v == IF higher THEN f ELSE s
           w == IF g THEN m.from ELSE Nil
           h == [term |-> m.term, vote |-> w, commit |-> s.hard.commit]
           u == SetHard(v, m.term, w, s.hard.commit)
           c == [kind |-> "SendResponse", response |-> answer]
<1>1. \/ OnVoteRequest(n, s, m) = Send(s, {refusal})
      \/ /\ ~(m.term < s.hard.term) /\ (higher \/ (g /\ s.hard.vote = Nil))
         /\ OnVoteRequest(n, s, m) = QueuePersist(u, u.hard, << >>, c)
      \/ /\ ~(m.term < s.hard.term) /\ ~higher /\ (g => s.hard.vote # Nil)
         /\ OnVoteRequest(n, s, m) = Send(s, {answer})
  <2>1. CASE m.term < s.hard.term
    BY <2>1 DEF OnVoteRequest
  <2>2. CASE ~(m.term < s.hard.term) /\ (higher \/ (g /\ s.hard.vote = Nil))
    BY <2>2, Zenon DEF OnVoteRequest
  <2>3. CASE ~(m.term < s.hard.term) /\ ~(higher \/ (g /\ s.hard.vote = Nil))
    BY <2>3, Zenon DEF OnVoteRequest
  <2> QED BY <2>1, <2>2, <2>3, Zenon
<1>2. /\ Typed(n, s) /\ IsCore(s) /\ Snapped(s.log) /\ Tallied(n, s, B)
      /\ DOMAIN s.progress \subseteq Peers(n) /\ Hard(s.hard) /\ Same(dh, s.hard)
  BY ClearFacts DEF Typed
<1> USE <1>2
<1>3. m.from \in Peers(n) /\ m.from \in Node /\ s.hard.term \in Nat /\ m.term \in Nat
  BY Zenon DEF Heard, Sound, Peers, Hard
<1> USE <1>3
<1>4. /\ refusal.from = n /\ refusal.to = m.from /\ refusal.term = s.hard.term
      /\ refusal.kind = "VoteResponse" /\ refusal.granted = FALSE
      /\ answer.from = n /\ answer.to = m.from /\ answer.term = m.term
      /\ answer.kind = "VoteResponse" /\ answer.granted = g
  BY Zenon DEF VoteAnswer
<1>5. c.kind = "SendResponse" /\ c.response = answer
  BY Zenon
<1>6. h # Nil /\ h.term = m.term /\ h.vote = w
  BY DEF Setting
<1>7. Frame(s, f, {"role", "preVotes", "votes"}) /\ f.role = "Follower"
  BY Zenon DEF Frame, CoreFields, IsCore
<1> HIDE DEF f
<1>8. /\ Frame(s, v, {"role", "preVotes", "votes"})
      /\ higher => v.role = "Follower"
      /\ ~higher => v = s
  BY <1>7 DEF Frame, IsCore
<1> HIDE DEF v
<1>9. Frame(v, u, {"hard"}) /\ u.hard = h
  BY <1>8, Zenon DEF Frame, IsCore, CoreFields, SetHard
<1> USE <1>9
<1> HIDE DEF u, c, h, answer, refusal
<1>10. /\ Frame(s, u, Civil) /\ u.role = v.role /\ u.votes = v.votes
       /\ u.progress = s.progress /\ u.log = s.log
  BY <1>8 DEF Frame, CoreFields, Civil
<1>11. Fine(n, Send(s, {refusal}), dh, r, B)
  <2>1. Sound(n, refusal, B)
    BY <1>4, Zenon DEF Sound
  <2> QED BY <2>1, SendClear, Zenon
<1>12. ASSUME ~(m.term < s.hard.term), ~higher, g => s.hard.vote # Nil
       PROVE  Fine(n, Send(s, {answer}), dh, r, B)
  <2>1. m.term = s.hard.term
    BY <1>12
  <2>2. g => <<n, m.term, m.from>> \in B
    BY <2>1, <1>12, Zenon DEF Registered, Same
  <2>3. Sound(n, answer, B)
    BY <2>2, <1>4, Zenon DEF Sound
  <2> QED BY <2>3, SendClear, Zenon
<1>13. ASSUME ~(m.term < s.hard.term), higher \/ (g /\ s.hard.vote = Nil)
       PROVE  Fine(n, QueuePersist(u, u.hard, << >>, c), dh, r, B)
  <2>1. higher \/ (m.term = s.hard.term /\ v = s /\ s.hard.vote = Nil)
    <3>1. CASE ~higher
      <4>1. m.term = s.hard.term
        BY <3>1, <1>13
      <4> QED BY <4>1, <3>1, <1>8, <1>13, Zenon
    <3> QED BY <3>1, Zenon
  <2>2. Tallied(n, u, B)
    BY <2>1, <1>6, <1>8, <1>10, Zenon DEF Tallied, Setting
  <2>3. Hard(u.hard) /\ u.hard # Nil /\ Same(u.hard, u.hard)
    BY <1>6, Zenon DEF Hard, Same
  <2>4. Follows(u.hard, s.hard)
    BY <2>1, <1>6, Zenon DEF Follows
  <2>5. Vow(u, u.hard, c) /\ IsContinuation(n, c)
    BY <1>4, <1>5, <1>6, Zenon DEF Vow, IsAnswer, IsContinuation
  <2>6. Snapped(u.log) /\ DOMAIN u.progress \subseteq Peers(n)
    BY <1>10
  <2>7. Prepares(n, s, u, u.hard, c, B)
    BY <2>2, <2>3, <2>4, <2>5, <2>6, <1>10, CivilPrepares, Zenon
  <2> QED BY <2>7, PersistClear
<1> QED BY <1>1, <1>11, <1>12, <1>13, Zenon

\* A pre-vote answer makes a candidate of a core with a quorum of them.
LEMMA OnPreVoteResponseFine ==
    ASSUME NEW n \in Node, NEW s, NEW m, NEW dh, NEW r, NEW B, Setting,
           Clear(n, s, dh, r, B), Heard(n, m, B)
    PROVE  Fine(n, OnPreVoteResponse(n, s, m), dh, r, B)
<1> DEFINE x == Record(s.preVotes, m.from, m.granted)
           u == [s EXCEPT !.preVotes = x]
           v == [s EXCEPT !.role = "Follower", !.preVotes = Nil]
<1>1. \/ /\ m.term > s.hard.term
         /\ OnPreVoteResponse(n, s, m) = BeginTermTransition(s, m.term)
      \/ OnPreVoteResponse(n, s, m) \in {s, BecomeCandidate(n, u), v, u}
  BY Zenon DEF OnPreVoteResponse
<1>2. /\ Typed(n, s) /\ IsCore(s) /\ Snapped(s.log) /\ Tallied(n, s, B)
      /\ DOMAIN s.progress \subseteq Peers(n) /\ Fine(n, s, dh, r, B)
      /\ s.hard.term \in Nat /\ m.term \in Nat
  BY ClearFacts DEF Typed, Hard, Heard, Sound
<1> USE <1>2
<1>3. Frame(s, u, {"preVotes"}) /\ Frame(s, v, {"role", "preVotes"})
  BY Zenon DEF Frame, CoreFields, IsCore
<1>4. v.role = "Follower"
  BY Zenon DEF CoreFields, IsCore
<1> HIDE DEF u, v, x
<1>5. /\ Frame(s, u, Civil) /\ u.hard = s.hard /\ u.progress = s.progress
      /\ u.log = s.log /\ u.role = s.role /\ u.votes = s.votes
      /\ Frame(s, v, Civil) /\ v.hard = s.hard /\ v.progress = s.progress /\ v.log = s.log
  BY <1>3 DEF Frame, CoreFields, Civil
<1>6. Tallied(n, u, B) /\ Tallied(n, v, B)
  BY <1>4, <1>5, Zenon DEF Tallied
<1>7. Shift(n, s, u, B) /\ Shift(n, s, v, B)
  BY <1>5, <1>6, CivilShift, Zenon
<1>8. Clear(n, u, dh, r, B) /\ Clear(n, v, dh, r, B)
  BY <1>7, ShiftClear, Zenon
<1>9. Fine(n, u, dh, r, B) /\ Fine(n, v, dh, r, B)
  BY <1>8, ClearFacts, Zenon
<1>10. Fine(n, BecomeCandidate(n, u), dh, r, B)
  BY <1>8, BecomeCandidateFine, Zenon
<1>11. m.term > s.hard.term => Fine(n, BeginTermTransition(s, m.term), dh, r, B)
  BY BeginTermTransitionFine
<1> QED BY <1>1, <1>9, <1>10, <1>11

\* A tracker only gains the answers it is given.
LEMMA RecordFacts ==
    ASSUME NEW t, NEW p, NEW g, "granted" \in DOMAIN t, t # Nil, Setting
    PROVE  /\ Record(t, p, g) # Nil /\ "granted" \in DOMAIN Record(t, p, g)
           /\ \A v \in Record(t, p, g).granted : v \in t.granted \/ (v = p /\ g)
<1>1. CASE g /\ Record(t, p, g) = [t EXCEPT !.granted = @ \cup {p}]
  BY <1>1, Zenon DEF Setting
<1>2. CASE Record(t, p, g) = [t EXCEPT !.rejected = @ \cup {p}]
  BY <1>2 DEF Setting
<1>3. CASE Record(t, p, g) = t
  BY <1>3, Zenon
<1> QED BY <1>1, <1>2, <1>3 DEF Record

\* A granted vote that arrives is durable, so the tally stays one of durable votes; with
\* a quorum the persist that activates the leader is queued.
LEMMA OnVoteResponseFine ==
    ASSUME NEW n \in Node, NEW s, NEW m, NEW dh, NEW r, NEW B, Setting,
           Clear(n, s, dh, r, B), Heard(n, m, B), m.kind = "VoteResponse"
    PROVE  Fine(n, OnVoteResponse(n, s, m), dh, r, B)
<1> DEFINE x == Record(s.votes, m.from, m.granted)
           u == [s EXCEPT !.votes = x]
           v == [s EXCEPT !.role = "Follower", !.votes = Nil]
<1>1. \/ /\ m.term > s.hard.term
         /\ OnVoteResponse(n, s, m) = BeginTermTransition(s, m.term)
      \/ OnVoteResponse(n, s, m) = s
      \/ /\ m.term = s.hard.term /\ s.role = "Candidate" /\ s.votes # Nil
         /\ \/ HasQuorum(x) /\ OnVoteResponse(n, s, m) = PersistLeaderNoop(u)
            \/ OnVoteResponse(n, s, m) \in {u, v}
  BY Zenon DEF OnVoteResponse
<1>2. /\ Typed(n, s) /\ IsCore(s) /\ Snapped(s.log) /\ Tallied(n, s, B)
      /\ DOMAIN s.progress \subseteq Peers(n) /\ Fine(n, s, dh, r, B)
      /\ s.hard.term \in Nat /\ m.term \in Nat
  BY ClearFacts DEF Typed, Hard, Heard, Sound
<1> USE <1>2
<1>3. Frame(s, u, {"votes"}) /\ Frame(s, v, {"role", "votes"})
  BY Zenon DEF Frame, CoreFields, IsCore
<1>4. u.votes = x /\ v.role = "Follower"
  BY DEF CoreFields, IsCore
<1> HIDE DEF u, v, x
<1>5. /\ Frame(s, u, Civil) /\ u.hard = s.hard /\ u.progress = s.progress
      /\ u.log = s.log /\ u.role = s.role
      /\ Frame(s, v, Civil) /\ v.hard = s.hard /\ v.progress = s.progress /\ v.log = s.log
  BY <1>3 DEF Frame, CoreFields, Civil
<1>6. ASSUME m.term = s.hard.term, s.role = "Candidate", s.votes # Nil
      PROVE  /\ Clear(n, u, dh, r, B) /\ Clear(n, v, dh, r, B)
             /\ u.role = "Candidate" /\ u.votes # Nil
  <2>1. x # Nil /\ "granted" \in DOMAIN x
        /\ \A p \in x.granted : p \in s.votes.granted \/ (p = m.from /\ m.granted)
    BY <1>6, RecordFacts DEF Tallied, x
  <2>2. m.granted => <<m.from, s.hard.term, n>> \in B
    BY <1>6 DEF Heard, Sound
  <2>3. m.from \in Node
    BY Zenon DEF Heard
  <2>4. Tallied(n, u, B)
    BY <2>1, <2>2, <2>3, <1>4, <1>5, <1>6, Zenon DEF Tallied
  <2>5. Tallied(n, v, B)
    BY <1>4, Zenon DEF Tallied
  <2>6. Shift(n, s, u, B) /\ Shift(n, s, v, B)
    BY <2>4, <2>5, <1>5, CivilShift
  <2> QED BY <2>1, <2>6, <1>4, <1>5, <1>6, ShiftClear, Zenon
<1>7. ASSUME m.term = s.hard.term, s.role = "Candidate", s.votes # Nil
      PROVE  /\ Fine(n, u, dh, r, B) /\ Fine(n, v, dh, r, B)
             /\ HasQuorum(x) => Fine(n, PersistLeaderNoop(u), dh, r, B)
  <2>1. Fine(n, u, dh, r, B) /\ Fine(n, v, dh, r, B)
    BY <1>6, <1>7, ClearFacts, Zenon
  <2>2. HasQuorum(x) => Fine(n, PersistLeaderNoop(u), dh, r, B)
    BY <1>4, <1>6, <1>7, PersistLeaderNoopFine, Zenon
  <2> QED BY <2>1, <2>2, Zenon
<1>8. m.term > s.hard.term => Fine(n, BeginTermTransition(s, m.term), dh, r, B)
  BY BeginTermTransitionFine
<1> QED BY <1>1, <1>7, <1>8

\* A heartbeat, and the step-down of a leader that lost its quorum.
LEMMA OnHeartbeatTickFine ==
    ASSUME NEW n, NEW s, NEW dh, NEW r, NEW B, Setting, Clear(n, s, dh, r, B)
    PROVE  Fine(n, OnHeartbeatTick(n, s), dh, r, B)
<1> DEFINE u == [s EXCEPT !.active = {n}]
<1>1. OnHeartbeatTick(n, s)
         \in {s, BecomeFollower(s), Replicate(n, u, DOMAIN u.progress)}
  BY Zenon DEF OnHeartbeatTick, ReplicateAll
<1>2. Typed(n, s) /\ IsCore(s) /\ Fine(n, s, dh, r, B) /\ Good(n, s, dh, r, B)
  BY ClearFacts DEF Typed, Clear
<1> USE <1>2
<1>3. Frame(s, u, Unrelated)
  BY Zenon DEF Frame, CoreFields, IsCore, Unrelated
<1> HIDE DEF u
<1>4. Good(n, u, dh, r, B) /\ Calm(s, u) /\ u.err = s.err
  BY <1>3, UnrelatedGood, Zenon
<1>5. Clear(n, u, dh, r, B) /\ Settled(u, dh, r)
  BY <1>4, CalmClear DEF Clear
<1>6. ASSUME NEW P PROVE Fine(n, Replicate(n, u, P), dh, r, B)
  <2>1. Good(n, Replicate(n, u, P), dh, r, B) /\ Calm(u, Replicate(n, u, P))
    BY <1>4, <1>5, ReplicateGood
  <2> QED BY <2>1, <1>5, CalmClear
<1>7. Clear(n, BecomeFollower(s), dh, r, B)
  BY BecomeFollowerClear
<1>8. Fine(n, BecomeFollower(s), dh, r, B)
  BY <1>7, ClearFacts
<1> QED BY <1>1, <1>6, <1>8
-----------------------------------------------------------------------------
(* Entries and proposals *)

\* Replication leaves a clear core clear.
LEMMA ReplicateClear ==
    ASSUME NEW n, NEW s, NEW P, NEW dh, NEW r, NEW B, Setting, Clear(n, s, dh, r, B)
    PROVE  /\ Fine(n, Replicate(n, s, P), dh, r, B)
           /\ Fine(n, Then(Replicate(n, s, P), AdvanceCommit), dh, r, B)
<1> DEFINE t == Replicate(n, s, P)
<1>1. Good(n, s, dh, r, B) /\ Settled(s, dh, r)
  BY ClearFacts DEF Clear
<1>2. Good(n, t, dh, r, B) /\ Calm(s, t)
  BY <1>1, ReplicateGood
<1> HIDE DEF t
<1>3. Fine(n, t, dh, r, B) /\ (t.err = "Ok" => Clear(n, t, dh, r, B))
  BY <1>2, CalmClear
<1> USE <1>3
<1>4. t.err = "Ok" => Fine(n, AdvanceCommit(t), dh, r, B)
  BY AdvanceCommitFine
<1>5. Fine(n, Then(t, AdvanceCommit), dh, r, B)
  BY <1>4 DEF Then
<1> QED BY <1>5 DEF t

\* An accepted AppendEntries is persisted before it is acknowledged.
LEMMA AnswerAppendFine ==
    ASSUME NEW n, NEW s, NEW m, NEW success, NEW appended, NEW dh, NEW r, NEW B, Setting,
           Clear(n, s, dh, r, B), Heard(n, m, B), s.role = "Follower",
           ~(m.term < s.hard.term)
    PROVE  Fine(n, AnswerAppend(n, s, m, success, appended), dh, r, B)
<1> DEFINE termChanged == m.term > s.hard.term
           hardChanged == termChanged \/ s.hard.commit # s.log.committed
           w == IF termChanged THEN Nil ELSE s.hard.vote
           hard == [term |-> m.term, vote |-> w, commit |-> s.log.committed]
           v == SetHard(s, m.term, w, s.log.committed)
           u == IF hardChanged THEN v ELSE s
           h == IF hardChanged THEN u.hard ELSE Nil
           match == IF success THEN LastIndex(s.log) ELSE m.prevIndex
           hint == IF success THEN Nil ELSE ConflictHint(s.log, m.prevIndex)
           answer == AppendAnswer(n, m, u.hard.term, success, match, hint)
           c == [kind |-> "SendResponse", response |-> answer]
<1>1. \/ AnswerAppend(n, s, m, success, appended) = QueuePersist(u, h, appended, c)
      \/ /\ u = s
         /\ AnswerAppend(n, s, m, success, appended) = Send(s, {answer})
  <2>1. CASE hardChanged \/ appended # << >>
    BY <2>1, Zenon DEF AnswerAppend
  <2>2. CASE ~(hardChanged \/ appended # << >>)
    BY <2>2, Zenon DEF AnswerAppend
  <2> QED BY <2>1, <2>2, Zenon
<1>2. /\ Typed(n, s) /\ IsCore(s) /\ Snapped(s.log) /\ Hard(s.hard)
      /\ DOMAIN s.progress \subseteq Peers(n)
  BY ClearFacts, Zenon DEF Typed
<1>3. m.from \in Peers(n) /\ s.hard.term \in Nat /\ m.term \in Nat
  BY <1>2 DEF Heard, Sound, Peers, Hard
<1>4. Frame(s, v, {"hard"}) /\ v.hard = hard
  BY <1>2 DEF Frame, IsCore, CoreFields, SetHard
<1>5. hard # Nil /\ hard.term = m.term /\ hard.vote = w
  BY DEF Setting
<1>6. /\ answer.from = n /\ answer.to = m.from /\ answer.term = u.hard.term
      /\ answer.kind = "AppendEntriesResponse"
  BY Zenon DEF AppendAnswer
<1>7. c.kind = "SendResponse" /\ c.response = answer
  OBVIOUS
<1> HIDE DEF v, hard, answer, c
<1>8. /\ Frame(s, u, Civil) /\ u.role = "Follower" /\ u.progress = s.progress
      /\ u.log = s.log
  BY <1>2, <1>4, Zenon DEF Frame, IsCore, CoreFields, Civil
<1>9. Hard(u.hard) /\ u.hard.term \in Nat
  BY <1>2, <1>3, <1>4, <1>5, Zenon DEF Hard
<1>10. \/ h = Nil /\ Same(u.hard, s.hard)
       \/ h # Nil /\ Same(h, u.hard) /\ Follows(u.hard, s.hard)
  <2>1. CASE ~hardChanged
    BY <2>1 DEF Same
  <2>2. CASE termChanged
    BY <2>2, <1>3, <1>4, <1>5, Zenon DEF Same, Follows
  <2>3. CASE hardChanged /\ ~termChanged
    <3>1. m.term = s.hard.term
      BY <2>3, <1>3
    <3> QED BY <3>1, <2>3, <1>4, <1>5 DEF Same, Follows
  <2> QED BY <2>1, <2>2, <2>3, Zenon
<1> HIDE DEF u, h
<1>11. Fine(n, QueuePersist(u, h, appended, c), dh, r, B)
  <2>1. Tallied(n, u, B) /\ Vow(u, h, c)
    BY <1>6, <1>7, <1>8, Zenon DEF Tallied, Vow
  <2>2. IsContinuation(n, c)
    BY <1>3, <1>6, <1>7, <1>9 DEF IsAnswer, IsContinuation
  <2>3. Snapped(u.log) /\ DOMAIN u.progress \subseteq Peers(n)
    BY <1>2, <1>8, Zenon
  <2>4. Prepares(n, s, u, h, c, B)
    BY <2>1, <2>2, <2>3, <1>2, <1>8, <1>9, <1>10, CivilPrepares, Zenon
  <2> QED BY <2>4, PersistClear, Zenon
<1>12. Fine(n, Send(s, {answer}), dh, r, B)
  <2>1. Sound(n, answer, B)
    BY <1>3, <1>6, <1>9 DEF Sound
  <2> QED BY <2>1, SendClear, Zenon
<1> QED BY <1>1, <1>11, <1>12, Zenon

\* `on_append_entries`, whole: stale terms, term transitions, conflicts and commits.
LEMMA OnAppendEntriesFine ==
    ASSUME NEW n, NEW s, NEW m, NEW dh, NEW r, NEW B, Setting,
           Clear(n, s, dh, r, B), Heard(n, m, B)
    PROVE  Fine(n, OnAppendEntries(n, s, m), dh, r, B)
<1> DEFINE f == BecomeFollower(s)
           answer == AppendAnswer(n, m, s.hard.term, FALSE, m.prevIndex, Nil)
           x == MergeFromLeader(f.log, m.entries)
           t == [f EXCEPT !.log = x.log]
           y == CommitTo(t.log, Smaller(m.commit, LastIndex(t.log)))
           u == [t EXCEPT !.log = y.log]
           v == [u EXCEPT !.lastIndex = LastIndex(u.log),
                          !.lastTerm = TermAt(u.log, LastIndex(u.log))]
           es == NewEntries(f.log, m.entries)
<1>1. \/ OnAppendEntries(n, s, m) = Send(s, {answer})
      \/ /\ ~(m.term < s.hard.term)
         /\ OnAppendEntries(n, s, m)
               \in {AnswerAppend(n, f, m, FALSE, << >>), Fail(f, "Log"), Fail(t, "Log"),
                    AnswerAppend(n, v, m, TRUE, es)}
  BY Zenon DEF OnAppendEntries, WithLog
<1>2. m.from \in Peers(n) /\ s.hard.term \in Nat
  BY ClearFacts DEF Heard, Sound, Peers, Hard
<1>3. /\ answer.from = n /\ answer.to = m.from /\ answer.term = s.hard.term
      /\ answer.kind = "AppendEntriesResponse"
  BY DEF AppendAnswer
<1> HIDE DEF answer
<1>4. Fine(n, Send(s, {answer}), dh, r, B)
  <2>1. Sound(n, answer, B)
    BY <1>2, <1>3 DEF Sound
  <2> QED BY <2>1, SendClear
<1>5. Clear(n, f, dh, r, B) /\ f.role = "Follower" /\ f.hard = s.hard
  BY BecomeFollowerClear, Zenon
<1> USE <1>5
<1>6. Typed(n, f) /\ IsCore(f) /\ Snapped(f.log) /\ DOMAIN f.progress \subseteq Peers(n)
  BY ClearFacts, Zenon DEF Typed
<1> USE <1>6
<1> HIDE DEF f
<1>7. Frame(f, t, {"log"}) /\ t.log = x.log
  BY DEF Frame, IsCore, CoreFields
<1> USE <1>7
<1>8. Snapped(x.log)
  BY LogKeepsSnapshot
<1> HIDE DEF t, x
<1>9. Frame(t, v, {"log", "lastIndex", "lastTerm"}) /\ v.log = y.log
  BY Zenon DEF Frame, IsCore, CoreFields
<1>10. Snapped(y.log)
  BY <1>8, LogKeepsSnapshot, Zenon
<1> HIDE DEF v, u, y, es
<1>11. Clear(n, t, dh, r, B)
  <2>1. /\ Frame(f, t, Civil) /\ t.hard = f.hard /\ t.progress = f.progress
        /\ t.role = "Follower" /\ Tallied(n, t, B)
    BY Zenon DEF Frame, CoreFields, Civil, Tallied
  <2>2. Shift(n, f, t, B)
    BY <2>1, <1>8, CivilShift, Zenon
  <2> QED BY <2>2, ShiftClear
<1>12. Clear(n, v, dh, r, B) /\ v.role = "Follower" /\ v.hard = s.hard
  <2>1. /\ Frame(f, v, Civil) /\ v.hard = f.hard /\ v.progress = f.progress
        /\ v.role = "Follower" /\ Tallied(n, v, B)
    BY <1>9, Zenon DEF Frame, CoreFields, Civil, Tallied
  <2>2. Shift(n, f, v, B)
    BY <2>1, <1>9, <1>10, CivilShift, Zenon
  <2> QED BY <2>1, <2>2, ShiftClear, Zenon
<1>13. Fine(n, Fail(f, "Log"), dh, r, B) /\ Fine(n, Fail(t, "Log"), dh, r, B)
  BY <1>11, FailClear, Zenon
<1>14. ~(m.term < s.hard.term) =>
          /\ Fine(n, AnswerAppend(n, f, m, FALSE, << >>), dh, r, B)
          /\ Fine(n, AnswerAppend(n, v, m, TRUE, es), dh, r, B)
  BY <1>12, AnswerAppendFine, Zenon
<1> QED BY <1>1, <1>4, <1>13, <1>14, Zenon

\* A proposal is persisted before it is replicated.
LEMMA OnProposeFine ==
    ASSUME NEW n, NEW s, NEW id, NEW dh, NEW r, NEW B, Setting, Clear(n, s, dh, r, B)
    PROVE  Fine(n, OnPropose(s, id), dh, r, B)
<1> DEFINE e == [index |-> s.lastIndex + 1, term |-> s.hard.term, cmd |-> id]
           a(w) == [s EXCEPT !.res = @ \cup {ProposalResult(id, w, 0)}]
           x == Extend(s.log, <<e>>)
           t == [s EXCEPT !.log = x.log]
           u == [t EXCEPT !.lastIndex = e.index, !.lastTerm = e.term,
                          !.proposals = @ \cup {[index |-> e.index, id |-> id]}]
           c == Continue("ReplicateProposal")
<1>1. OnPropose(s, id) \in {a("LeadershipLost"), a("Rejected"), Fail(s, "Log"),
                            QueuePersist(u, Nil, <<e>>, c)}
  BY Zenon DEF OnPropose, WithLog
<1>2. /\ Typed(n, s) /\ IsCore(s) /\ Snapped(s.log) /\ Tallied(n, s, B)
      /\ DOMAIN s.progress \subseteq Peers(n) /\ Hard(s.hard) /\ Good(n, s, dh, r, B)
  BY ClearFacts, Zenon DEF Typed, Clear
<1> USE <1>2
<1>3. Frame(s, u, {"log", "lastIndex", "lastTerm", "proposals"})
  BY Zenon DEF Frame, CoreFields, IsCore
<1>4. u.log = x.log
  BY DEF CoreFields, IsCore
<1>5. c.kind = "ReplicateProposal"
  BY DEF Continue
<1>6. Snapped(x.log)
  BY LogKeepsSnapshot
<1>7. ASSUME NEW w PROVE Fine(n, a(w), dh, r, B)
  <2>1. Frame(s, a(w), Unrelated)
    BY Zenon DEF Frame, CoreFields, IsCore, Unrelated
  <2> HIDE DEF a
  <2>2. Good(n, a(w), dh, r, B) /\ Calm(s, a(w))
    BY <2>1, UnrelatedGood
  <2> QED BY <2>2, CalmClear
<1> HIDE DEF u, t, e, x, c, a
<1>8. /\ Frame(s, u, Civil) /\ u.role = s.role /\ u.votes = s.votes /\ u.hard = s.hard
      /\ u.progress = s.progress
  BY <1>3, Zenon DEF Frame, CoreFields, Civil
<1> USE <1>8
<1>9. Prepares(n, s, u, Nil, c, B)
  <2>1. Tallied(n, u, B) /\ Hard(u.hard) /\ Vow(u, Nil, c) /\ Same(u.hard, s.hard)
    BY <1>5, Zenon DEF Tallied, Vow, Same
  <2>2. IsContinuation(n, c)
    BY <1>5 DEF IsContinuation
  <2>3. Snapped(u.log) /\ DOMAIN u.progress \subseteq Peers(n)
    BY <1>4, <1>6, Zenon
  <2> QED BY <2>1, <2>2, <2>3, CivilPrepares, Zenon
<1>10. Fine(n, QueuePersist(u, Nil, <<e>>, c), dh, r, B)
  BY <1>9, PersistClear
<1> QED BY <1>1, <1>7, <1>10, FailClear, Zenon

\* An answer to AppendEntries moves progress, read round and commit index.
LEMMA OnAppendEntriesResponseFine ==
    ASSUME NEW n, NEW s, NEW m, NEW dh, NEW r, NEW B, Setting,
           Clear(n, s, dh, r, B), Heard(n, m, B)
    PROVE  Fine(n, OnAppendEntriesResponse(n, s, m), dh, r, B)
<1> DEFINE p == s.progress[m.from]
           match == Smaller(m.match, LastIndex(s.log))
           hint == IF m.hint # Nil THEN m.hint ELSE [index |-> m.match, term |-> 0]
           x == IF m.success THEN Acknowledged(p, match)
                ELSE Rejected(p, m.match, RejectedNext(s.log, hint))
           t == [s EXCEPT !.progress[m.from] = x]
           a == AcknowledgeReadContext(n, t, m.from, m.context)
<1>1. \/ /\ m.term > s.hard.term
         /\ OnAppendEntriesResponse(n, s, m) = BeginTermTransition(s, m.term)
      \/ OnAppendEntriesResponse(n, s, m) = s
      \/ \E u \in {t, a} :
            OnAppendEntriesResponse(n, s, m)
               \in {u, Then(Replicate(n, u, {m.from}), AdvanceCommit)}
  BY Zenon DEF OnAppendEntriesResponse
<1>2. /\ Typed(n, s) /\ IsCore(s) /\ Snapped(s.log) /\ Fine(n, s, dh, r, B)
      /\ DOMAIN s.progress \subseteq Peers(n) /\ Good(n, s, dh, r, B)
      /\ s.hard.term \in Nat /\ m.term \in Nat
  BY ClearFacts, Zenon DEF Typed, Clear, Hard, Heard, Sound
<1> USE <1>2
<1>3. Frame(s, t, {"progress"})
  BY Zenon DEF Frame, CoreFields, IsCore
<1>4. DOMAIN t.progress = DOMAIN s.progress
  BY Zenon DEF CoreFields, IsCore
<1> HIDE DEF t, x
<1>5. Quiet(n, s, t, dh, r, B)
  BY <1>3, <1>4, Zenon DEF Frame, CoreFields, Quiet, Kept, Typed, Snaps
<1>6. Good(n, t, dh, r, B) /\ Calm(s, t) /\ t.err = s.err
  BY <1>3, <1>5, QuietStep, Zenon DEF Frame, CoreFields
<1>7. Clear(n, t, dh, r, B)
  BY <1>6, CalmClear, Zenon DEF Clear
<1>8. Good(n, a, dh, r, B) /\ Calm(t, a) /\ a.err = "Ok"
  <2>1. IsCore(t) /\ t.err = "Ok"
    BY <1>3, <1>7, Zenon DEF Frame, IsCore, Clear
  <2>2. \A from, context : AcknowledgeReadContext(n, t, from, context).err = t.err
    BY <2>1, ReadsKeepErr, Zenon
  <2>3. Good(n, a, dh, r, B) /\ Calm(t, a)
    BY <1>6, AcknowledgeReadContextGood, Zenon
  <2> QED BY <2>1, <2>2, <2>3, Zenon
<1> HIDE DEF a
<1>9. Clear(n, a, dh, r, B)
  BY <1>7, <1>8, CalmClear, Zenon
<1>10. ASSUME NEW u \in {t, a}
       PROVE  /\ Fine(n, u, dh, r, B)
              /\ Fine(n, Then(Replicate(n, u, {m.from}), AdvanceCommit), dh, r, B)
  <2>1. Clear(n, u, dh, r, B)
    BY <1>7, <1>9, Zenon
  <2> QED BY <2>1, ClearFacts, ReplicateClear, Zenon
<1>11. m.term > s.hard.term => Fine(n, BeginTermTransition(s, m.term), dh, r, B)
  BY BeginTermTransitionFine, Zenon
<1> QED BY <1>1, <1>10, <1>11, Zenon

\* An answer to InstallSnapshot moves the transfer on.
LEMMA OnInstallSnapshotResponseFine ==
    ASSUME NEW n, NEW s, NEW m, NEW dh, NEW r, NEW B, Setting,
           Clear(n, s, dh, r, B), Heard(n, m, B)
    PROVE  Fine(n, OnInstallSnapshotResponse(n, s, m), dh, r, B)
<1> DEFINE next == s.senders[m.from].snap.index + 1
           t == [s EXCEPT
                   !.senders = [p \in DOMAIN @ \ {m.from} |-> @[p]],
                   !.progress = [p \in DOMAIN @ |->
                                    IF p = m.from THEN RestoreProbe(@[p], next) ELSE @[p]]]
<1>1. \/ /\ m.term > s.hard.term
         /\ OnInstallSnapshotResponse(n, s, m) = BeginTermTransition(s, m.term)
      \/ OnInstallSnapshotResponse(n, s, m) \in {s, Replicate(n, t, {m.from})}
  BY Zenon DEF OnInstallSnapshotResponse
<1>2. /\ Typed(n, s) /\ IsCore(s) /\ Snaps(s) /\ Fine(n, s, dh, r, B)
      /\ DOMAIN s.progress \subseteq Peers(n) /\ Good(n, s, dh, r, B)
      /\ s.hard.term \in Nat /\ m.term \in Nat
  BY ClearFacts, Zenon DEF Typed, Clear, Hard, Heard, Sound
<1> USE <1>2
<1>3. Frame(s, t, {"senders", "progress"})
  BY Zenon DEF Frame, CoreFields, IsCore
<1>4. DOMAIN t.progress = DOMAIN s.progress
  BY DEF CoreFields, IsCore
<1>5. \A p \in DOMAIN t.senders : Snapped(t.senders[p])
  <2>1. t.senders = [p \in DOMAIN s.senders \ {m.from} |-> s.senders[p]]
    BY Zenon DEF CoreFields, IsCore
  <2> QED BY <2>1 DEF Snaps
<1> HIDE DEF t
<1>6. Quiet(n, s, t, dh, r, B)
  BY <1>3, <1>4, <1>5, Zenon DEF Frame, CoreFields, Quiet, Kept, Snaps
<1>7. Good(n, t, dh, r, B) /\ Calm(s, t) /\ t.err = s.err
  BY <1>3, <1>6, QuietStep, Zenon DEF Frame, CoreFields
<1>8. Clear(n, t, dh, r, B)
  BY <1>7, CalmClear, Zenon DEF Clear
<1>9. Fine(n, Replicate(n, t, {m.from}), dh, r, B)
  BY <1>8, ReplicateClear
<1>10. m.term > s.hard.term => Fine(n, BeginTermTransition(s, m.term), dh, r, B)
  BY BeginTermTransitionFine, Zenon
<1> QED BY <1>1, <1>9, <1>10
-----------------------------------------------------------------------------
(* Snapshots received *)

\* `on_install_snapshot`, whole: stale, repeated, misplaced and fitting chunks.
LEMMA OnInstallSnapshotFine ==
    ASSUME NEW n, NEW s, NEW m, NEW dh, NEW r, NEW B, Setting,
           Clear(n, s, dh, r, B), Heard(n, m, B), m.kind = "InstallSnapshot"
    PROVE  Fine(n, OnInstallSnapshot(n, s, m), dh, r, B)
<1> DEFINE fresh == IF s.incoming = Nil THEN TRUE ELSE s.incoming.snap # m.snap
           q == IF fresh THEN NewReceiver(m.snap) ELSE s.incoming
           answer == InstallAnswer(n, m.from, s.hard.term, FALSE)
           u == [s EXCEPT !.incoming = q]
<1>1. \/ OnInstallSnapshot(n, s, m)
            \in {Send(s, {answer}), s, Fail(s, "InvalidSnapshot"),
                 Fail(u, "InvalidSnapshot")}
      \/ /\ ~(m.term < s.hard.term)
         /\ OnInstallSnapshot(n, s, m)
               \in {StoreChunk(s, q, m), StoreChunk(s, Extended(q, m), m)}
  BY Zenon DEF OnInstallSnapshot
<1>2. /\ Typed(n, s) /\ IsCore(s) /\ Snaps(s) /\ Fine(n, s, dh, r, B)
      /\ Good(n, s, dh, r, B) /\ s.hard.term \in Nat
  BY ClearFacts, Zenon DEF Typed, Clear, Hard
<1>3. m.from \in Peers(n) /\ m.snap # Nil
  BY DEF Heard, Sound, Peers
<1>4. /\ answer.from = n /\ answer.to = m.from /\ answer.term = s.hard.term
      /\ answer.kind = "InstallSnapshotResponse"
  BY DEF InstallAnswer
<1>5. Snapped(NewReceiver(m.snap))
  BY <1>3, Zenon DEF NewReceiver, Snapped
<1>6. Snapped(q)
  BY <1>2, <1>5 DEF Snaps
<1>7. Snapped(Extended(q, m))
  BY <1>6 DEF Extended, Snapped
<1>8. Frame(s, u, {"incoming"})
  BY <1>2, Zenon DEF Frame, CoreFields, IsCore
<1>9. u.incoming = q
  BY <1>2 DEF CoreFields, IsCore
<1> HIDE DEF q, answer, u
<1>10. Fine(n, Send(s, {answer}), dh, r, B)
  <2>1. Sound(n, answer, B)
    BY <1>2, <1>3, <1>4, Zenon DEF Sound
  <2> QED BY <2>1, SendClear
<1>11. Quiet(n, s, u, dh, r, B)
  BY <1>2, <1>6, <1>8, <1>9, Zenon DEF Frame, CoreFields, Quiet, Kept, Typed, Snaps
<1>12. Good(n, u, dh, r, B) /\ Calm(s, u) /\ u.err = s.err
  BY <1>2, <1>8, <1>11, QuietStep, Zenon DEF Frame, CoreFields
<1>13. Clear(n, u, dh, r, B)
  BY <1>12, CalmClear DEF Clear
<1>14. /\ Fine(n, Fail(s, "InvalidSnapshot"), dh, r, B)
       /\ Fine(n, Fail(u, "InvalidSnapshot"), dh, r, B)
  BY <1>13, FailClear, Zenon
<1>15. ~(m.term < s.hard.term) =>
          /\ Fine(n, StoreChunk(s, q, m), dh, r, B)
          /\ Fine(n, StoreChunk(s, Extended(q, m), m), dh, r, B)
  BY <1>6, <1>7, StoreChunkFine, Zenon
<1> QED BY <1>1, <1>2, <1>10, <1>14, <1>15, Zenon
-----------------------------------------------------------------------------
(* The end of a step *)

\* What a handler leaves to the end of its step.
LEMMA StepEnds ==
    ASSUME NEW n, NEW before, NEW s, NEW dh, NEW r, NEW B, Good(n, s, dh, r, B),
           s.err = "Ok" =>
              \/ s.pendingPersist = Nil => Synced(s, dh, Range(r))
              \/ Step(before, s).err # "Log"
    PROVE  Ended(n, Step(before, s), dh, r, B)
<1> DEFINE u == Then(s, EmitApply)
           v == IF before.role = "Leader" /\ u.role # "Leader"
                THEN FailUncommittedProposals(u) ELSE u
<1>1. Step(before, s) = IF u.err # "Ok" THEN Abort(u)
                        ELSE IF ValidateInvariants(v) THEN v ELSE Abort(Fail(v, "Invariant"))
  BY DEF Step, Finish
<1> USE <1>1
<1>2. u = IF s.err = "Ok" THEN EmitApply(s) ELSE s
  BY Zenon DEF Then
<1> HIDE DEF u
<1>3. Typed(n, s)
  BY Zenon DEF Good, Sane, Base
<1>4. Abort(u).err = u.err \/ ~IsCore(u)
  BY DEF Abort, IsCore, CoreFields
<1>5. CASE s.err # "Ok"
  <2>1. u = s /\ Step(before, s) = Abort(s)
    BY <1>2, <1>5
  <2>2. Settled(s, dh, r)
    BY <1>5 DEF Good, Sane
  <2> QED BY <2>1, <2>2, AbortAtRest
<1>6. CASE s.err = "Ok"
  <2>1. u = EmitApply(s)
    BY <1>2, <1>6
  <2>2. IsCore(u) /\ (u.err = "Ok" \/ u.err = "Log")
    <3>1. IsCore(s)
      BY <1>3 DEF Typed
    <3> USE <3>1
    <3> DEFINE a == [id |-> s.seq + 1, through |-> s.hard.commit]
               e == [id |-> s.seq + 1, kind |-> "Apply",
                     entries |-> Entries(s.log, s.applied + 1, s.hard.commit)]
               t == [s EXCEPT !.seq = @ + 1, !.pendingApply = a, !.fx = Append(@, e)]
    <3>2. u = s \/ u = t \/ u = Fail(s, "Log")
      BY <2>1, Zenon DEF EmitApply
    <3>3. IsCore(t) /\ t.err = s.err
      BY DEF IsCore, CoreFields
    <3>4. IsCore(Fail(s, "Log")) /\ Fail(s, "Log").err = "Log"
      BY DEF IsCore, CoreFields, Fail
    <3> HIDE DEF t
    <3> QED BY <3>2, <3>3, <3>4, <1>6, Zenon
  <2>3. s.pendingPersist = Nil /\ u.err = "Log" => Synced(s, dh, Range(r))
    BY <1>4, <1>6, <2>2
  <2>4. Good(n, u, dh, r, B)
    BY <1>6, <2>1, <2>3, EmitApplyGood, Zenon
  <2> USE <2>4
  <2>5. CASE u.err # "Ok"
    <3>1. Settled(u, dh, r)
      BY <2>5 DEF Good, Sane
    <3> QED BY <2>5, <3>1, AbortAtRest
  <2>6. CASE u.err = "Ok"
    <3>1. Good(n, v, dh, r, B)
      BY FailUncommittedProposalsGood, Zenon
    <3> USE <3>1
    <3> HIDE DEF v
    <3>2. CASE ValidateInvariants(v)
      BY <2>6, <3>2, DrainedAtRest
    <3>3. CASE ~ValidateInvariants(v)
      <4> DEFINE f == Fail(v, "Invariant")
      <4>1. Typed(n, v)
        BY Zenon DEF Good, Sane, Base
      <4>2. Frame(v, f, {"err"}) /\ f.err = "Invariant"
        BY <4>1 DEF Frame, CoreFields, IsCore, Typed, Fail
      <4> USE <4>2
      <4> HIDE DEF f
      <4>3. Step(before, s) = Abort(f)
        BY <2>6, <3>3, Zenon DEF f
      <4>4. Typed(n, f)
        BY <4>1, Zenon DEF Frame, CoreFields, Typed, Snaps, Barriers
      <4>5. Tallied(n, f, B)
        BY Zenon DEF Frame, CoreFields, Tallied, Good, Sane, Base
      <4> QED BY <4>3, <4>4, <4>5, StopAtRest, Zenon
    <3> QED BY <3>2, <3>3
  <2> QED BY <2>5, <2>6
<1> QED BY <1>5, <1>6, Zenon

\* The handlers of events leave nothing that the end of the step could lose.
LEMMA FineEnds ==
    ASSUME NEW n, NEW before, NEW s, NEW dh, NEW r, NEW B, Fine(n, s, dh, r, B)
    PROVE  Ended(n, Step(before, s), dh, r, B)
<1>1. /\ Good(n, s, dh, r, B) /\ IsSeq(r) /\ IsSeq(s.fx)
      /\ Matched(s, dh, Range(Queue(s, r))) /\ Synced(s, dh, Range(Queue(s, r)))
      /\ \A e \in Range(s.fx) : e.kind # "InstallSnapshot"
  BY Zenon DEF Fine, Good, Sane, Base
<1> USE <1>1
<1>2. Range(Queue(s, r)) = Range(r) \cup Range(s.fx)
  BY ConcatFacts DEF Queue
<1>3. ASSUME s.pendingPersist = Nil, NoHeavy(Range(r)) PROVE Same(dh, s.hard)
  <2>1. CASE \A e \in Range(s.fx) : ~Heavy(e)
    BY <1>2, <1>3, <2>1, Zenon DEF NoHeavy, Synced
  <2>2. CASE \E e \in Range(s.fx) : Heavy(e)
    <3>1. PICK e \in Range(s.fx) : Heavy(e)
      BY <2>2
    <3>2. Agree(s, e) /\ Pending(s, dh, e) /\ e.kind # "InstallSnapshot"
      BY <1>2, Zenon DEF Matched
    <3>3. ~Protocol(e)
      BY <1>3, <3>2 DEF Agree, IsFor
    <3> QED BY <3>1, <3>2, <3>3, Zenon DEF Heavy, Pending
  <2> QED BY <2>1, <2>2
<1>4. s.pendingPersist = Nil => Synced(s, dh, Range(r))
  BY <1>3 DEF Synced
<1> QED BY <1>4, StepEnds, Zenon
=============================================================================
