------------------------- MODULE RaftEffects_proofs --------------------------
(***************************************************************************)
(* The completion or the failure of an effect keeps the invariant of       *)
(* CoreVotes, and a completion that wrote the hard state elects nobody.    *)
(***************************************************************************)
EXTENDS RaftCore_proofs
-----------------------------------------------------------------------------
(* The operators that ask for nothing heavy *)

\* A snapshot that was built is persisted, under the hard state that stays.
LEMMA SnapshotBuiltGood ==
    ASSUME NEW n, NEW s, NEW snap, NEW dh, NEW r, NEW B,
           Setting, Good(n, s, dh, r, B), Settled(s, dh, r),
           DOMAIN snap # {}
    PROVE  /\ Good(n, SnapshotBuilt(s, snap), dh, r, B)
           /\ Calm(s, SnapshotBuilt(s, snap))
<1> DEFINE e == PersistEffect(s, Nil, << >>, snap)
           b == [phase |-> "PersistLocal", id |-> NextId(s), snap |-> snap]
           t == [Emit(s, e) EXCEPT !.local = b]
<1>1. \/ SnapshotBuilt(s, snap) = t
      \/ SnapshotBuilt(s, snap) = Fail(s, "InvalidSnapshot")
      \/ SnapshotBuilt(s, snap) = Fail(s, "Log")
  BY DEF SnapshotBuilt
<1>2. Typed(n, s)
  BY DEF Good, Sane, Base
<1> USE <1>2
<1>3. Frame(s, t, {"seq", "local", "fx"})
  BY Zenon DEF Frame, CoreFields, IsCore, Typed, Emit
<1>4. t.seq = s.seq + 1 /\ t.local = b /\ t.fx = Append(s.fx, e)
  BY DEF Typed, IsCore, CoreFields, Emit
<1>5. b.id = s.seq + 1 /\ {"id", "phase"} \subseteq DOMAIN b /\ b.phase = "PersistLocal" /\ e.id = s.seq + 1
      /\ e.kind = "Persist" /\ e.snap = snap /\ e.hard = Nil
      /\ "snap" \in DOMAIN b /\ b.snap = snap
  BY DEF NextId, PersistEffect
<1> HIDE DEF t, e, b
<1>6. ~Heavy(e) /\ Snapped(b)
  BY <1>5 DEF Heavy, Protocol, Incoming, Setting, Snapped
<1>7. Single(n, s, t, e, B)
  BY <1>3, <1>4, <1>5, <1>6, Zenon DEF Single, Frame, CoreFields, Kept, AsksFor, Typed, Snaps
<1>8. Good(n, t, dh, r, B) /\ Calm(s, t)
  <2>1. t.pendingApply = s.pendingApply
    BY <1>3, Zenon DEF Frame, CoreFields
  <2> QED BY <1>7, <2>1, SingleStep, Zenon
<1> QED BY <1>1, <1>8, FailGood

\* A persisted snapshot of its own lets the core compact its log.
LEMMA LocalSnapshotPersistedGood ==
    ASSUME NEW n, NEW s, NEW dh, NEW r, NEW B, Good(n, s, dh, r, B),
           s.local # Nil, s.local.phase = "PersistLocal"
    PROVE  /\ Good(n, LocalSnapshotPersisted(s), dh, r, B)
           /\ Calm(s, LocalSnapshotPersisted(s))
<1> DEFINE e == [id |-> NextId(s), kind |-> "CompactLog", through |-> s.local.snap.index]
           b == [s.local EXCEPT !.phase = "Compact", !.id = NextId(s)]
           t == LocalSnapshotPersisted(s)
<1>1. Typed(n, s)
  BY DEF Good, Sane, Base
<1> USE <1>1
<1>2. Frame(s, t, {"seq", "local", "fx"})
  BY Zenon DEF Frame, CoreFields, IsCore, Typed, Emit, LocalSnapshotPersisted
<1>3. t.seq = s.seq + 1 /\ t.fx = Append(s.fx, e)
  BY DEF Typed, IsCore, CoreFields, Emit, LocalSnapshotPersisted
<1>4. t.local = b
  BY DEF Typed, IsCore, CoreFields, Emit, LocalSnapshotPersisted
<1>5. {"id", "phase"} \subseteq DOMAIN s.local /\ Snapped(s.local)
  BY DEF Typed, Snaps
<1>6. b.id = s.seq + 1 /\ {"id", "phase"} \subseteq DOMAIN b /\ b.phase = "Compact"
      /\ e.id = s.seq + 1 /\ e.kind = "CompactLog" /\ Snapped(b)
  BY <1>5 DEF NextId, Snapped
<1> HIDE DEF t, e, b
<1>7. ~Heavy(e)
  BY <1>6 DEF Heavy, Protocol, Incoming
<1>8. Single(n, s, t, e, B)
  BY <1>2, <1>3, <1>4, <1>5, <1>6, <1>7, Zenon DEF Single, Frame, CoreFields, Kept, AsksFor, Typed, Snaps
<1>9. Good(n, t, dh, r, B) /\ Calm(s, t)
  <2>1. t.pendingApply = s.pendingApply
    BY <1>2, Zenon DEF Frame, CoreFields
  <2> QED BY <1>8, <2>1, SingleStep, Zenon
<1> QED BY <1>9 DEF t

\* A compaction that is done ends the local pipeline.
LEMMA LogCompactedGood ==
    ASSUME NEW n, NEW s, NEW dh, NEW r, NEW B, Good(n, s, dh, r, B),
           Settled(s, dh, r), s.local # Nil, s.local.phase = "Compact"
    PROVE  Good(n, LogCompacted(s), dh, r, B) /\ Calm(s, LogCompacted(s))
<1> DEFINE x == Compact(s.log, s.local.snap)
           u == [s EXCEPT !.local = Nil]
           v == [u EXCEPT !.log = x.log]
           w == Fail(u, "Log")
<1>1. LogCompacted(s) = v \/ LogCompacted(s) = w
  BY DEF LogCompacted, WithLog
<1>2. Typed(n, s)
  BY DEF Good, Sane, Base
<1> USE <1>2
<1>3. Frame(s, v, {"local", "log"}) /\ Frame(s, w, {"local", "err"})
  BY Zenon DEF Frame, CoreFields, IsCore, Typed, Fail
<1>4. v.local = Nil /\ w.local = Nil /\ v.log = x.log
  BY DEF Typed, IsCore, CoreFields, Fail
<1> USE <1>4
<1> HIDE DEF v, w
<1>7. Snapped(v.log)
  <2>1. Snapped(s.log) /\ s.local.snap # Nil
    BY DEF Typed, Snaps, Snapped
  <2> QED BY <2>1, LogKeepsSnapshot
<1>5. Quiet(n, s, v, dh, r, B)
  BY <1>3, <1>7 DEF Frame, CoreFields, Quiet, Kept, Typed, Snaps
<1>6. Quiet(n, s, w, dh, r, B)
  BY <1>3 DEF Frame, CoreFields, Quiet, Kept, Typed, Snaps
<1> QED BY <1>1, <1>5, <1>6, QuietStep

\* `maybe_request_local_snapshot` asks for a snapshot when the log has grown enough.
LEMMA MaybeRequestLocalSnapshotGood ==
    ASSUME NEW n, NEW s, NEW dh, NEW r, NEW B, Good(n, s, dh, r, B)
    PROVE  /\ Good(n, MaybeRequestLocalSnapshot(s), dh, r, B)
           /\ Calm(s, MaybeRequestLocalSnapshot(s))
BY RequestLocalSnapshotGood, CalmSame DEF MaybeRequestLocalSnapshot

\* A core may stop waiting for its apply.
LEMMA ApplyDropped ==
    ASSUME NEW n, NEW s, NEW u, NEW dh, NEW r, NEW B, Good(n, s, dh, r, B),
           u = [s EXCEPT !.pendingApply = Nil]
    PROVE  Good(n, u, dh, r, B) /\ Calm(s, u)
<1>1. Typed(n, s)
  BY Zenon DEF Good, Sane, Base
<1>2. Frame(s, u, {"pendingApply"}) /\ u.pendingApply = Nil
  BY <1>1, Zenon DEF Frame, CoreFields, IsCore, Typed
<1>3. Quiet(n, s, u, dh, r, B)
  BY <1>1, <1>2, Zenon DEF Frame, CoreFields, Quiet, Kept, Typed, Snaps
<1> QED BY <1>3, QuietStep, Zenon

\* A completed apply, which the core u no longer waits for, answers clients and asks for
\* the next apply or a snapshot.
LEMMA ApplyDoneGood ==
    ASSUME NEW n, NEW s, NEW u, NEW dh, NEW r, NEW B, IsCore(s),
           u = [s EXCEPT !.pendingApply = Nil], Good(n, u, dh, r, B), Settled(u, dh, r)
    PROVE  Good(n, ApplyDone(n, s), dh, r, B) /\ Gentle(u, ApplyDone(n, s))
<1> DEFINE x == s.pendingApply.through
           a == FinishApply([s EXCEPT !.applied = x, !.pendingApply = Nil], x)
           b == ReleaseReadRound(a)
           c == StartPendingReads(n, b)
           d == IF c.err = "Ok" THEN EmitApply(c) ELSE c
           e == IF d.err = "Ok" THEN MaybeRequestLocalSnapshot(d) ELSE d
<1>1. ApplyDone(n, s) = e
  BY DEF ApplyDone, Then
<1>2. Frame(s, a, Unrelated \cup {"pendingApply"}) /\ Frame(s, u, {"pendingApply"})
  BY Zenon DEF Frame, CoreFields, IsCore, Unrelated, FinishApply
<1>3. a.pendingApply = Nil /\ u.pendingApply = Nil
  BY Zenon DEF CoreFields, IsCore, FinishApply
<1>4. Good(n, u, dh, r, B) /\ Settled(u, dh, r)
  OBVIOUS
<1> HIDE DEF a
<1>5. Frame(u, a, Unrelated)
  BY <1>2, <1>3, Zenon DEF Frame, CoreFields, Unrelated
<1>6. Good(n, a, dh, r, B) /\ Calm(u, a)
  BY <1>4, <1>5, UnrelatedGood, Zenon
<1>7. Good(n, b, dh, r, B) /\ Calm(a, b)
  BY <1>6, ReleaseReadRoundGood
<1> HIDE DEF b
<1>8. Good(n, c, dh, r, B) /\ Calm(b, c)
  BY <1>7, StartPendingReadsGood
<1> USE <1>8
<1> HIDE DEF c
<1>9. Calm(u, c)
  BY <1>6, <1>7, CalmTwice
<1>10. Synced(c, dh, Range(r))
  BY <1>4, <1>9, CalmKeeps, Zenon DEF Settled
<1>11. Good(n, d, dh, r, B) /\ Gentle(c, d)
  <2>1. Gentle(c, c)
    BY CalmSame, Zenon DEF Calm
  <2> QED BY <1>10, <2>1, EmitApplyGood, Zenon
<1> HIDE DEF d
<1>12. Good(n, e, dh, r, B) /\ Calm(d, e)
  BY <1>11, MaybeRequestLocalSnapshotGood, CalmSame
<1> HIDE DEF e
<1>13. Gentle(u, e)
  BY <1>9, <1>11, <1>12, GentleTwice, Zenon DEF Calm
<1> QED BY <1>1, <1>12, <1>13, Zenon

\* A chunk that was read is sent on, unless the transfer has moved.
LEMMA ChunkReadGood ==
    ASSUME NEW n, NEW s, NEW c, NEW chunk, NEW dh, NEW r, NEW B, Setting,
           Good(n, s, dh, r, B), Settled(s, dh, r), c \in s.chunkReads
    PROVE  Good(n, ChunkRead(n, s, c, chunk), dh, r, B) /\ Calm(s, ChunkRead(n, s, c, chunk))
<1> DEFINE read == [s EXCEPT !.chunkReads = @ \ {c}]
           x == s.senders[c.to]
           m == [kind |-> "InstallSnapshot", from |-> n, to |-> c.to,
                 term |-> s.hard.term, snap |-> x.snap, offset |-> x.offset,
                 size |-> chunk.size, done |-> chunk.done]
           sent == Send([read EXCEPT !.senders[c.to].offset = @ + chunk.size], {m})
<1>1. \/ ChunkRead(n, s, c, chunk) = Fail(read, "Panic")
      \/ /\ c.to \in DOMAIN s.senders
         /\ ChunkRead(n, s, c, chunk) \in {sent, ReadSnapshotChunks(sent, {c.to})}
  BY DEF ChunkRead
<1>2. Typed(n, s)
  BY DEF Good, Sane, Base
<1> USE <1>2
<1>3. m.from = n /\ m.to = c.to /\ m.term = s.hard.term /\ m.kind = "InstallSnapshot"
      /\ m.snap = x.snap
  OBVIOUS
<1>5. Frame(s, read, {"chunkReads"}) /\ Frame(s, sent, {"chunkReads", "senders", "out"})
  BY Zenon DEF Frame, CoreFields, IsCore, Typed, Send
<1>6. /\ read.chunkReads = s.chunkReads \ {c} /\ sent.chunkReads = s.chunkReads \ {c}
      /\ sent.out = s.out \cup {m}
  BY DEF CoreFields, IsCore, Typed, Send
<1>7. sent.senders = [s.senders EXCEPT ![c.to].offset = @ + chunk.size]
  BY DEF CoreFields, IsCore, Typed, Send
<1> HIDE DEF sent, read, m
<1>8. Quiet(n, s, read, dh, r, B)
  BY <1>5, <1>6 DEF Frame, CoreFields, Quiet, Kept, Typed, Snaps
<1>9. Good(n, read, dh, r, B) /\ Calm(s, read)
  BY <1>8, QuietStep
<1>10. Good(n, Fail(read, "Panic"), dh, r, B) /\ Calm(read, Fail(read, "Panic"))
  BY <1>9, FailGood, CalmKeeps
<1>11. ASSUME c.to \in DOMAIN s.senders
       PROVE  /\ Good(n, sent, dh, r, B) /\ Calm(s, sent)
              /\ Good(n, ReadSnapshotChunks(sent, {c.to}), dh, r, B)
              /\ Calm(sent, ReadSnapshotChunks(sent, {c.to}))
  <2>1. Snapped(x)
    BY <1>11 DEF Typed, Snaps
  <2>2. Sound(n, m, B) /\ c.to \in Peers(n)
    BY <2>1, <1>3 DEF Sound, Typed, Hard, Snapped
  <2>3. \A p \in DOMAIN sent.senders : Snapped(sent.senders[p])
    BY <2>1, <1>7, <1>11, Zenon DEF Typed, Snaps, Snapped
  <2>4. Quiet(n, s, sent, dh, r, B)
    BY <2>2, <2>3, <1>5, <1>6, Zenon DEF Frame, CoreFields, Quiet, Kept, Typed, Snaps
  <2>5. Good(n, sent, dh, r, B) /\ Calm(s, sent)
    BY <2>4, QuietStep
  <2>6. Settled(sent, dh, r)
    BY <2>5, CalmKeeps
  <2> QED BY <2>2, <2>5, <2>6, ReadSnapshotChunksGood, Zenon
<1> QED BY <1>1, <1>9, <1>10, <1>11, CalmTwice
-----------------------------------------------------------------------------
(* Snapshots received *)

\* A chunk that was stored is acknowledged, and the last one starts the installation.
LEMMA ChunkStoredFine ==
    ASSUME NEW n, NEW s, NEW dh, NEW r, NEW B, Setting, Clear(n, s, dh, r, B),
           s.store # Nil, s.hard.term <= s.store.term
    PROVE  Fine(n, ChunkStored(s), dh, r, B)
<1> DEFINE d == [s EXCEPT !.store = Nil]
           hard == [term |-> s.store.term, vote |-> Nil,
                    commit |-> Larger(s.hard.commit, s.incoming.snap.index)]
           e == PersistEffect(s, hard, << >>, s.incoming.snap)
           b == [phase |-> "PersistIncoming", id |-> NextId(s), snap |-> s.incoming.snap,
                 from |-> s.store.from, term |-> s.store.term]
           t == [Emit(d, e) EXCEPT !.installing = b]
<1>1. \/ ChunkStored(s) \in {Fail(d, "Panic"), d, Fail(s, "InvalidSnapshot")}
      \/ s.incoming # Nil /\ ChunkStored(s) = t
  BY Zenon DEF ChunkStored
<1>2. /\ Typed(n, s) /\ IsCore(s) /\ Snaps(s)
      /\ s.store.from \in Peers(n) /\ s.store.term \in Nat
  BY ClearFacts DEF Typed
<1>3. Frame(s, d, {"store"}) /\ d.store = Nil
  BY <1>2 DEF Frame, CoreFields, IsCore
<1>4. Frame(d, t, {"fx", "seq", "installing"})
  BY <1>2, Zenon DEF Frame, CoreFields, IsCore, Emit
<1>5. t.fx = Append(s.fx, e) /\ t.seq = s.seq + 1 /\ t.installing = b
  BY <1>2 DEF CoreFields, IsCore, Emit
<1>6. /\ e.id = s.seq + 1 /\ e.kind = "Persist" /\ e.snap = s.incoming.snap
      /\ e.hard = hard /\ hard.term = s.store.term /\ hard.vote = Nil /\ hard # Nil
  BY DEF NextId, PersistEffect, Setting
<1>7. /\ b.id = s.seq + 1 /\ b.from = s.store.from /\ b.term = s.store.term
      /\ b.phase = "PersistIncoming" /\ b.snap = s.incoming.snap /\ b # Nil
      /\ {"id", "phase", "from", "term", "snap"} \subseteq DOMAIN b
  BY DEF NextId, Setting
<1> HIDE DEF d, t, e, b, hard
<1>8. Clear(n, d, dh, r, B)
  <2>1. Frame(s, d, {"pendingPersist", "store"}) /\ d.pendingPersist = s.pendingPersist
    BY <1>3, Zenon DEF Frame, CoreFields
  <2> QED BY <2>1, <1>3, DropClear
<1>9. /\ Typed(n, d) /\ Same(dh, d.hard) /\ Fine(n, d, dh, r, B)
      /\ d.fx = s.fx /\ d.seq = s.seq /\ d.hard = s.hard /\ d.incoming = s.incoming
      /\ s.seq \in Nat
  BY <1>3, <1>8, ClearFacts, Zenon DEF Frame, CoreFields, Clear, Good, Fresh
<1>10. /\ t.hard = d.hard /\ t.role = d.role /\ t.votes = d.votes /\ t.err = d.err
       /\ t.out = d.out /\ t.chunkReads = d.chunkReads /\ t.local = d.local
       /\ t.pendingPersist = d.pendingPersist /\ t.pendingApply = d.pendingApply
       /\ t.store = Nil /\ IsCore(t) /\ t.progress = d.progress
       /\ t.stopped = d.stopped /\ t.log = d.log /\ t.incoming = d.incoming
       /\ t.senders = d.senders
  BY <1>3, <1>4 DEF Frame, CoreFields
<1>11. ASSUME s.incoming # Nil
       PROVE  Fine(n, t, dh, r, B)
  <2>1. s.incoming.snap # Nil
    BY <1>2, <1>11 DEF Snaps, Snapped
  <2>2. Heavy(e) /\ ~Protocol(e) /\ Incoming(e)
    BY <2>1, <1>6 DEF Heavy, Protocol, Incoming
  <2>3. Snaps(t)
    BY <2>1, <1>5, <1>7, <1>9, <1>10, Zenon DEF Snaps, Typed, Snapped
  <2>4. Typed(n, t)
    <3>1. \A x \in Barriers(t) : x.id \in Nat
      BY <1>5, <1>7, <1>9, <1>10 DEF Typed, Barriers
    <3> QED BY <3>1, <2>3, <1>2, <1>5, <1>7, <1>9, <1>10, Zenon DEF Typed
  <2>5. Pending(t, dh, e)
    BY <2>2, <1>5, <1>6, <1>7, <1>9, <1>10, Zenon DEF Pending
  <2>6. IsFor(t.installing, e) /\ ~IsFor(t.store, e)
    BY <1>5, <1>6, <1>7, <1>10, Zenon DEF IsFor
  <2>7. Raises(n, d, t, e, dh)
    BY <2>2, <2>4, <2>5, <2>6, <1>5, <1>6, <1>7, <1>9, <1>10, Zenon DEF Raises, AsksFor
  <2>8. Good(n, t, dh, r, B) /\ Range(t.fx) = Range(d.fx) \cup {e}
    <3>1. Between(n, d, dh, r, B)
      BY <1>8, Zenon DEF Clear, Good, Sane, Between
    <3> QED BY <3>1, <2>7, HeavyStep
  <2> QED BY <2>8, <1>6, <1>9, Zenon DEF Fine
<1>12. Fine(n, Fail(d, "Panic"), dh, r, B) /\ Fine(n, Fail(s, "InvalidSnapshot"), dh, r, B)
  BY <1>8, FailClear
<1> QED BY <1>1, <1>9, <1>11, <1>12

\* Once the incoming snapshot is durable, and with it its term, the core asks to install it.
LEMMA IncomingSnapshotPersistedGood ==
    ASSUME NEW n, NEW s, NEW dh, NEW r, NEW B, Setting, Between(n, s, dh, r, B),
           Ahead(s, dh)
    PROVE  /\ Good(n, IncomingSnapshotPersisted(s), dh, r, B)
           /\ IncomingSnapshotPersisted(s).err = "Ok"
<1> DEFINE e == [id |-> NextId(s), kind |-> "InstallSnapshot", snap |-> s.installing.snap]
           b == [s.installing EXCEPT !.phase = "Install", !.id = NextId(s)]
           t == IncomingSnapshotPersisted(s)
<1>1. /\ Typed(n, s) /\ IsCore(s) /\ s.seq \in Nat
      /\ {"id", "phase", "from", "term", "snap"} \subseteq DOMAIN s.installing
      /\ s.installing.snap # Nil /\ s.installing.from \in Peers(n)
      /\ s.installing.term \in Nat
  BY DEF Between, Base, Typed, Snaps, Snapped, Fresh, Ahead
<1> USE <1>1
<1>2. Frame(s, t, {"fx", "seq", "installing"})
  BY Zenon DEF Frame, CoreFields, IsCore, IncomingSnapshotPersisted, Emit
<1>3. t.fx = Append(s.fx, e) /\ t.seq = s.seq + 1
  BY DEF CoreFields, IsCore, IncomingSnapshotPersisted, Emit
<1>4. t.installing = b
  BY DEF CoreFields, IsCore, IncomingSnapshotPersisted, Emit
<1> USE <1>4
<1>5. e.id = s.seq + 1 /\ e.kind = "InstallSnapshot"
  BY DEF NextId
<1> USE <1>5
<1>6. /\ b.id = s.seq + 1 /\ b.from = s.installing.from /\ b.term = s.installing.term
      /\ b.phase = "Install" /\ b.snap = s.installing.snap
      /\ {"id", "phase", "from", "term", "snap"} \subseteq DOMAIN b
  BY DEF NextId
<1> USE <1>6
<1> HIDE DEF t, e, b
<1>7. b # Nil
  BY DEF Setting
<1>8. /\ t.hard = s.hard /\ t.role = s.role /\ t.votes = s.votes /\ t.err = s.err
      /\ t.out = s.out /\ t.chunkReads = s.chunkReads /\ t.local = s.local
      /\ t.pendingPersist = s.pendingPersist /\ t.pendingApply = s.pendingApply
      /\ t.store = s.store /\ IsCore(t) /\ t.progress = s.progress
      /\ t.stopped = s.stopped /\ t.log = s.log /\ t.incoming = s.incoming
      /\ t.senders = s.senders
  BY <1>2, Zenon DEF Frame, CoreFields
<1> USE <1>8
<1>9. Heavy(e) /\ ~Protocol(e) /\ ~Incoming(e)
  BY DEF Heavy, Protocol, Incoming
<1>10. Snaps(t)
  BY DEF Snaps, Typed, Snapped
<1>11. Typed(n, t)
  <2>1. \A x \in Barriers(t) : x.id \in Nat
    BY DEF Typed, Barriers
  <2> QED BY <2>1, <1>10, Zenon DEF Typed
<1>12. Pending(t, dh, e)
  BY <1>9 DEF Pending, Ahead
<1>13. IsFor(t.installing, e) /\ ~IsFor(t.store, e)
  <2>1. \A x \in Barriers(s) : x.id <= s.seq /\ x.id \in Nat
    BY DEF Between, Fresh, Typed
  <2> QED BY <2>1, <1>7 DEF IsFor, Barriers
<1>14. Raises(n, s, t, e, dh)
  BY <1>3, <1>9, <1>11, <1>12, <1>13, Zenon DEF Raises, AsksFor
<1>15. Good(n, t, dh, r, B) /\ t.err = "Ok"
  BY <1>14, HeavyStep
<1> QED BY <1>15, Zenon DEF t

\* `snapshot_installed` makes the core agree with the disk again.
LEMMA SnapshotInstalledClear ==
    ASSUME NEW n, NEW s, NEW dh, NEW r, NEW B, Setting, Between(n, s, dh, r, B),
           Ahead(s, dh), s.role \notin {"Candidate", "Leader"}
    PROVE  Clear(n, SnapshotInstalled(n, s), dh, r, B)
<1> DEFINE i == s.installing
           term == Larger(s.hard.term, i.term)
           x == InstallSnapshot(s.log, i.snap)
           d == [s EXCEPT !.installing = Nil]
           v == [d EXCEPT !.log = x.log]
           hard == [term |-> term, vote |-> Nil,
                    commit |-> Larger(v.hard.commit, i.snap.index)]
           w == [v EXCEPT !.applied = Larger(@, i.snap.index),
                          !.hard = hard,
                          !.lastIndex = LastIndex(v.log),
                          !.lastTerm = TermAt(v.log, LastIndex(v.log)),
                          !.incoming = Nil]
           m == InstallAnswer(n, i.from, term, TRUE)
           t == Send(w, {m})
<1>1. /\ Typed(n, s) /\ IsCore(s) /\ Snapped(s.log) /\ i.snap # Nil /\ s.hard.term \in Nat
      /\ i.from \in Peers(n) /\ i.term \in Nat
  BY DEF Between, Base, Typed, Snaps, Snapped, Ahead, Hard
<1>2. SnapshotInstalled(n, s) = t
  <2>1. x.ok
    BY DEF InstallSnapshot, Ok
  <2>2. v.hard = s.hard
    BY <1>1 DEF IsCore, CoreFields
  <2> QED BY <2>1, <2>2 DEF SnapshotInstalled, WithLog
<1>3. /\ Frame(s, t, {"installing", "log", "applied", "hard", "lastIndex", "lastTerm",
                      "incoming", "out"})
  BY <1>1, Zenon DEF Frame, IsCore, CoreFields, Send
<1>4. /\ t.installing = Nil /\ t.log = x.log /\ t.hard = hard /\ t.incoming = Nil
      /\ t.out = s.out \cup {m}
  BY <1>1 DEF IsCore, CoreFields, Send
<1>5. /\ m.from = n /\ m.to = i.from /\ m.term = term
      /\ m.kind = "InstallSnapshotResponse"
  BY DEF InstallAnswer
<1>6. term = i.term /\ term = dh.term /\ term \in Nat
  BY <1>1 DEF Larger, Ahead
<1>7. hard.term = term /\ hard.vote = Nil
  OBVIOUS
<1>8. Snapped(x.log)
  BY <1>1, LogKeepsSnapshot
<1> HIDE DEF t, w, v, d, hard, m, x, term
<1>9. /\ t.role = s.role /\ t.votes = s.votes /\ t.err = s.err
      /\ t.chunkReads = s.chunkReads /\ t.local = s.local
      /\ t.fx = s.fx /\ t.seq = s.seq /\ t.pendingApply = s.pendingApply
      /\ t.pendingPersist = s.pendingPersist /\ t.store = s.store
      /\ IsCore(t) /\ t.progress = s.progress
      /\ t.stopped = s.stopped /\ t.senders = s.senders
  BY <1>3, Zenon DEF Frame, CoreFields
<1>10. /\ Same(dh, t.hard) /\ Hard(t.hard) /\ Tallied(n, t, B)
  BY <1>4, <1>6, <1>7, <1>9, Zenon DEF Same, Hard, Tallied, Ahead
<1>11. Barriers(t) \subseteq Barriers(s) /\ Queue(t, r) = Queue(s, r)
  BY <1>4, <1>9, Zenon DEF Barriers, Queue
<1>12. Typed(n, t)
  <2>1. Snaps(t)
    BY <1>1, <1>4, <1>8, <1>9, Zenon DEF Typed, Snaps
  <2>2. \A b \in Barriers(t) : b.id \in Nat
    BY <1>1, <1>11, Zenon DEF Typed
  <2> QED BY <2>1, <2>2, <1>1, <1>4, <1>9, <1>10, Zenon DEF Typed
<1>13. /\ IsSeq(r) /\ IsSeq(s.fx) /\ Matched(s, dh, Range(Queue(s, r)))
       /\ OneHeavy(Queue(s, r)) /\ \A y \in s.out : Sound(n, y, B)
       /\ Fresh(s, r) /\ Idle(s, r) /\ s.err = "Ok"
       /\ Waits(s, r) /\ Waits(s, Queue(s, r))
  BY DEF Between, Base
<1>14. Fresh(t, r)
  BY <1>9, <1>11, <1>13, Zenon DEF Fresh
<1>15. ASSUME NEW y \in Range(Queue(s, r))
       PROVE  y.id \in Nat /\ Agree(t, y) /\ Pending(t, dh, y) /\ Promised(t, y)
  <2>1. y.id \in Nat /\ Agree(s, y) /\ ~Heavy(y)
    BY <1>13 DEF Matched, Idle, NoHeavy
  <2>2. ~Protocol(y) /\ ~Incoming(y)
        /\ y.kind # "StoreSnapshotChunk" /\ y.kind # "InstallSnapshot"
    BY <2>1 DEF Heavy
  <2>3. ~IsFor(t.store, y) /\ ~IsFor(t.pendingPersist, y) /\ ~IsFor(t.installing, y)
    BY <2>1, <2>2, <1>4, <1>9, Zenon DEF Agree, IsFor
  <2>4. Agree(t, y)
    BY <2>1, <2>2, <2>3, <1>9, Zenon DEF Agree
  <2> QED BY <2>1, <2>2, <2>3, <2>4, Zenon DEF Pending, Promised
<1>16. Matched(t, dh, Range(Queue(t, r)))
  BY <1>11, <1>15 DEF Matched
<1>17. \A y \in t.out : Sound(n, y, B)
  <2>1. Sound(n, m, B)
    BY <1>1, <1>5, <1>6, Zenon DEF Sound
  <2> QED BY <2>1, <1>4, <1>13, Zenon
<1>18. Synced(t, dh, Range(Queue(t, r))) /\ Idle(t, r) /\ t.err = "Ok"
  BY <1>9, <1>10, <1>11, <1>13, Zenon DEF Synced, Idle
<1>19. Waits(t, r) /\ Waits(t, Queue(t, r))
  BY <1>9, <1>11, <1>13, Zenon DEF Waits, Awaited
<1>20. Clear(n, t, dh, r, B)
  BY <1>19, <1>9, <1>10, <1>11, <1>12, <1>13, <1>14, <1>16, <1>17, <1>18, Zenon
     DEF Clear, Good, Sane, Base
<1> QED BY <1>2, <1>20, Zenon
-----------------------------------------------------------------------------
(* Completions *)

\* `activate_leader`: a candidate with a quorum of durable votes takes office.
LEMMA ActivateLeaderClear ==
    ASSUME NEW n \in Node, NEW s, NEW dh, NEW r, NEW B, Setting,
           Clear(n, s, dh, r, B), Registered(n, dh, B),
           s.role = "Candidate", HasQuorum(s.votes)
    PROVE  Clear(n, ActivateLeader(n, s), dh, r, B)
<1> DEFINE t == ActivateLeader(n, s)
<1>1. /\ Typed(n, s) /\ IsCore(s) /\ Snapped(s.log) /\ Tallied(n, s, B)
      /\ Same(dh, s.hard)
  BY ClearFacts DEF Typed
<1> USE <1>1
<1>2. Frame(s, t, {"role", "votes", "active", "progress"})
  BY Zenon DEF Frame, IsCore, CoreFields, ActivateLeader, InitializeProgress
<1>3. t.role = "Leader" /\ DOMAIN t.progress = Peers(n)
  BY DEF IsCore, CoreFields, ActivateLeader, InitializeProgress
<1> HIDE DEF t
<1>4. <<n, s.hard.term, n>> \in B
  BY DEF Registered, Same, Tallied, Setting
<1>5. Backed(B, s.hard.term, n)
  BY <1>4, QuorumBacked
<1>6. Frame(s, t, Civil) /\ t.hard = s.hard /\ t.log = s.log
  BY <1>2, Zenon DEF Frame, CoreFields, Civil
<1>7. Tallied(n, t, B)
  BY <1>3, <1>5, <1>6, Zenon DEF Tallied
<1>8. Shift(n, s, t, B)
  BY <1>3, <1>6, <1>7, CivilShift, Zenon
<1>9. Clear(n, t, dh, r, B)
  BY <1>8, ShiftClear
<1> QED BY <1>9, Zenon DEF t

\* Applying leaves a clear core clear.
LEMMA EmitApplyClear ==
    ASSUME NEW n, NEW s, NEW dh, NEW r, NEW B, Clear(n, s, dh, r, B)
    PROVE  /\ Good(n, EmitApply(s), dh, r, B) /\ Fine(n, EmitApply(s), dh, r, B)
<1>1. Good(n, s, dh, r, B) /\ Synced(s, dh, Range(r)) /\ s.err = "Ok"
  BY ClearFacts, Zenon DEF Clear, Settled
<1>2. Good(n, EmitApply(s), dh, r, B) /\ Gentle(s, EmitApply(s))
  BY <1>1, EmitApplyGood, Zenon
<1> QED BY <1>2, GentleFine, Zenon

\* Starting a read round leaves a clear core fine.
LEMMA StartPendingReadsFine ==
    ASSUME NEW n, NEW s, NEW dh, NEW r, NEW B, Fine(n, s, dh, r, B)
    PROVE  Fine(n, StartPendingReads(n, s), dh, r, B)
<1>1. Good(n, s, dh, r, B)
  BY DEF Fine
<1>2. Good(n, StartPendingReads(n, s), dh, r, B) /\ Calm(s, StartPendingReads(n, s))
  BY <1>1, StartPendingReadsGood
<1> QED BY <1>1, <1>2, CalmKeeps, Zenon

\* `emit_apply_if_needed` changes neither.
LEMMA EmitApplySteady ==
    ASSUME NEW s, IsCore(s)
    PROVE  IsCore(EmitApply(s)) /\ Steady(s, EmitApply(s))
BY DEF IsCore, CoreFields, Steady, EmitApply, Fail

\* Nor does `maybe_advance_commit`, which moves the commit index only.
LEMMA AdvanceCommitSteady ==
    ASSUME NEW s, IsCore(s)
    PROVE  Steady(s, AdvanceCommit(s))
<1> DEFINE i == QuorumMatch(s)
           v == [s EXCEPT !.log.committed = i]
           u == SetHard(v, s.hard.term, s.hard.vote, i)
           c == Continue("ApplyCommitted")
<1>1. AdvanceCommit(s) = s \/ AdvanceCommit(s) = QueuePersist(u, u.hard, << >>, c)
  BY DEF AdvanceCommit
<1>2. IsCore(u) /\ Steady(s, u)
  BY DEF IsCore, CoreFields, SetHard, Steady
<1> HIDE DEF u
<1>3. Frame(u, QueuePersist(u, u.hard, << >>, c), {"seq", "fx", "pendingPersist"})
  BY <1>2, QueuePersistFrame
<1>4. Steady(u, QueuePersist(u, u.hard, << >>, c))
  BY <1>3 DEF Frame, CoreFields, Steady
<1> QED BY <1>1, <1>2, <1>4 DEF Steady

\* Nor does `persist_leader_noop`: the candidate leads only once its no-op is durable.
LEMMA PersistLeaderNoopSteady ==
    ASSUME NEW s, IsCore(s)
    PROVE  Steady(s, PersistLeaderNoop(s))
<1> DEFINE e == [index |-> s.lastIndex + 1, term |-> s.hard.term, cmd |-> Noop]
           x == Extend(s.log, <<e>>)
           t == [s EXCEPT !.log = x.log]
           u == [t EXCEPT !.lastIndex = e.index, !.lastTerm = e.term, !.noop = e.index]
           c == Continue("ActivateLeader")
<1>1. \/ PersistLeaderNoop(s) = QueuePersist(u, Nil, <<e>>, c)
      \/ PersistLeaderNoop(s) = Fail(s, "Log")
  BY DEF PersistLeaderNoop, WithLog
<1>2. IsCore(u) /\ Steady(s, u)
  BY DEF IsCore, CoreFields, Steady
<1>3. Steady(s, Fail(s, "Log"))
  BY DEF IsCore, CoreFields, Steady, Fail
<1> HIDE DEF u, e
<1>4. Frame(u, QueuePersist(u, Nil, <<e>>, c), {"seq", "fx", "pendingPersist"})
  BY <1>2, QueuePersistFrame
<1>5. Steady(u, QueuePersist(u, Nil, <<e>>, c))
  BY <1>4 DEF Frame, CoreFields, Steady
<1> QED BY <1>1, <1>2, <1>3, <1>5 DEF Steady

\* The end of `step` keeps role and term.
LEMMA StepSteady ==
    ASSUME NEW before, NEW s, IsCore(s)
    PROVE  Steady(s, Step(before, s))
<1> DEFINE u == Then(s, EmitApply)
           v == IF before.role = "Leader" /\ u.role # "Leader"
                THEN FailUncommittedProposals(u) ELSE u
<1>1. Step(before, s) \in {Abort(u), v, Abort(Fail(v, "Invariant"))}
  BY DEF Step, Finish
<1>2. IsCore(u) /\ Steady(s, u)
  BY EmitApplySteady DEF Then, Steady
<1> USE <1>2
<1> HIDE DEF u
<1>3. IsCore(v) /\ Steady(u, v)
  BY DEF IsCore, CoreFields, Steady, FailUncommittedProposals
<1> HIDE DEF v
<1>4. Steady(u, Abort(u)) /\ Steady(v, Abort(Fail(v, "Invariant")))
  BY <1>3 DEF IsCore, CoreFields, Steady, Abort, Fail
<1> QED BY <1>1, <1>3, <1>4, Zenon DEF Steady

\* The persist with hard state h is durable, and so is the vote it carries.
LEMMA RunContinuationFine ==
    ASSUME NEW n \in Node, NEW s, NEW h, NEW cont, NEW dh, NEW r, NEW B, Setting,
           Clear(n, s, dh, r, B), Registered(n, dh, B), IsContinuation(n, cont),
           Vow(s, h, cont),
           h # Nil => (h.vote # Nil => <<n, h.term, h.vote>> \in B)
    PROVE  Fine(n, RunContinuation(n, s, cont), dh, r, B)
<1>1. /\ Typed(n, s) /\ Tallied(n, s, B) /\ Fine(n, s, dh, r, B) /\ s.hard.term \in Nat
      /\ Good(n, s, dh, r, B)
  BY ClearFacts DEF Clear, Hard
<1>2. CASE cont.kind = "BroadcastVoteRequests"
  <2> DEFINE m == VoteMessage(n, s, "RequestVote", s.hard.term)
  <2>1. \/ /\ s.votes # Nil /\ HasQuorum(s.votes)
           /\ RunContinuation(n, s, cont) = PersistLeaderNoop(s)
        \/ RunContinuation(n, s, cont) = Broadcast(n, s, m)
    BY <1>2 DEF RunContinuation
  <2>2. s.role = "Candidate"
    BY <1>2 DEF Vow
  <2>3. /\ {"to", "from", "term", "kind"} \subseteq DOMAIN m
        /\ m.from = n /\ m.term = s.hard.term /\ m.kind = "RequestVote"
    BY DEF VoteMessage
  <2> HIDE DEF m
  <2>4. Good(n, Broadcast(n, s, m), dh, r, B) /\ Calm(s, Broadcast(n, s, m))
    BY <2>3, <1>1, BroadcastGood, Zenon
  <2>5. Fine(n, Broadcast(n, s, m), dh, r, B)
    BY <2>4, CalmClear
  <2>6. s.votes # Nil /\ HasQuorum(s.votes) => Fine(n, PersistLeaderNoop(s), dh, r, B)
    BY <2>2, PersistLeaderNoopFine
  <2> QED BY <2>1, <2>5, <2>6, Zenon
<1>3. CASE cont.kind = "SendResponse"
  <2> DEFINE m == cont.response
             t == Send(s, {m})
  <2>1. RunContinuation(n, s, cont) = EmitApply(t)
    BY <1>3 DEF RunContinuation
  <2>2. m.from = n /\ m.to \in Peers(n) /\ m.term \in Nat
        /\ m.kind \in {"VoteResponse", "AppendEntriesResponse"}
    BY <1>3 DEF IsContinuation, IsAnswer
  <2>3. m.kind = "VoteResponse" /\ m.granted => <<n, m.term, m.to>> \in B
    BY <2>2, <1>3, Zenon DEF Vow, Setting, Peers
  <2>4. Sound(n, m, B)
    BY <2>2, <2>3 DEF Sound
  <2>5. Good(n, t, dh, r, B) /\ Calm(s, t)
    BY <2>4, <1>1, SendGood, Zenon
  <2>6. t.err = "Ok"
    <3>1. IsCore(s) /\ s.err = "Ok"
      BY <1>1 DEF Typed, Clear
    <3> QED BY <3>1, Zenon DEF Send, IsCore, CoreFields
  <2> HIDE DEF t
  <2>7. Clear(n, t, dh, r, B)
    BY <2>5, <2>6, CalmClear, Zenon
  <2> QED BY <2>1, <2>7, EmitApplyClear, Zenon
<1>4. CASE cont.kind = "ReplicateProposal"
  <2> DEFINE t == Then(Replicate(n, s, DOMAIN s.progress), AdvanceCommit)
  <2>1. RunContinuation(n, s, cont) \in {t, StartPendingReads(n, t)}
    BY <1>4 DEF RunContinuation, Then, ReplicateAll
  <2>2. Fine(n, t, dh, r, B)
    BY ReplicateClear
  <2> HIDE DEF t
  <2> QED BY <2>1, <2>2, StartPendingReadsFine, Zenon
<1>5. CASE cont.kind = "ApplyCommitted"
  <2>1. RunContinuation(n, s, cont) \in {EmitApply(s), StartPendingReads(n, EmitApply(s))}
    BY <1>5 DEF RunContinuation, Then
  <2>2. Fine(n, EmitApply(s), dh, r, B)
    BY EmitApplyClear, Zenon
  <2> QED BY <2>1, <2>2, StartPendingReadsFine
<1>6. CASE cont.kind = "ActivateLeader"
  <2> DEFINE t == ActivateLeader(n, s)
  <2>1. RunContinuation(n, s, cont) = Then(Replicate(n, t, DOMAIN t.progress), AdvanceCommit)
    BY <1>6, Zenon DEF RunContinuation, ReplicateAll
  <2>2. Clear(n, t, dh, r, B)
    BY <1>6, ActivateLeaderClear DEF Vow
  <2> HIDE DEF t
  <2> QED BY <2>1, <2>2, ReplicateClear, Zenon
<1>7. CASE cont.kind = "None"
  BY <1>1, <1>7 DEF RunContinuation
<1> QED BY <1>2, <1>3, <1>4, <1>5, <1>6, <1>7, Zenon DEF IsContinuation

\* Only the continuation of a leader's no-op changes the role.
LEMMA RunContinuationSteady ==
    ASSUME NEW n, NEW s, NEW cont, NEW dh, NEW r, NEW B, Setting, Clear(n, s, dh, r, B),
           IsContinuation(n, cont), cont.kind # "ActivateLeader"
    PROVE  Steady(s, RunContinuation(n, s, cont))
<1>1. /\ IsCore(s) /\ Good(n, s, dh, r, B) /\ Settled(s, dh, r) /\ Steady(s, s)
  BY ClearFacts DEF Clear, Typed, Steady
<1> USE <1>1
<1>2. CASE cont.kind = "BroadcastVoteRequests"
  <2> DEFINE m == VoteMessage(n, s, "RequestVote", s.hard.term)
  <2>1. RunContinuation(n, s, cont) \in {PersistLeaderNoop(s), Broadcast(n, s, m)}
    BY <1>2 DEF RunContinuation
  <2>2. Steady(s, Broadcast(n, s, m))
    BY Zenon DEF Broadcast, Send, IsCore, CoreFields, Steady
  <2> QED BY <2>1, <2>2, PersistLeaderNoopSteady
<1>3. CASE cont.kind = "SendResponse"
  <2> DEFINE t == Send(s, {cont.response})
  <2>1. RunContinuation(n, s, cont) = EmitApply(t)
    BY <1>3 DEF RunContinuation
  <2>2. IsCore(t) /\ Steady(s, t)
    BY DEF Send, IsCore, CoreFields, Steady
  <2> HIDE DEF t
  <2>3. Steady(t, EmitApply(t))
    BY <2>2, EmitApplySteady, Zenon
  <2> QED BY <2>1, <2>2, <2>3 DEF Steady
<1>4. CASE cont.kind = "ReplicateProposal"
  <2> DEFINE u == Replicate(n, s, DOMAIN s.progress)
             t == Then(u, AdvanceCommit)
  <2>1. RunContinuation(n, s, cont) \in {t, StartPendingReads(n, t)}
    BY <1>4 DEF RunContinuation, Then, ReplicateAll
  <2>2. Good(n, u, dh, r, B) /\ Calm(s, u)
    BY ReplicateGood, Zenon
  <2>3. IsCore(u) /\ Steady(s, u)
    BY <2>2, Zenon DEF Good, Sane, Base, Typed, Calm, Gentle, Kept, Steady
  <2>4. Good(n, t, dh, r, B)
    BY ReplicateClear DEF Fine
  <2> HIDE DEF u
  <2>5. Steady(s, t)
    BY <2>3, AdvanceCommitSteady DEF Then, Steady
  <2> HIDE DEF t
  <2>6. Calm(t, StartPendingReads(n, t))
    BY <2>4, StartPendingReadsGood, Zenon
  <2> QED BY <2>1, <2>5, <2>6, Zenon DEF Calm, Gentle, Kept, Steady
<1>5. CASE cont.kind = "ApplyCommitted"
  <2> DEFINE t == EmitApply(s)
  <2>1. RunContinuation(n, s, cont) \in {t, StartPendingReads(n, t)}
    BY <1>5 DEF RunContinuation, Then
  <2>2. Good(n, t, dh, r, B) /\ Steady(s, t)
    BY EmitApplyClear, EmitApplySteady, Zenon
  <2> HIDE DEF t
  <2>3. Calm(t, StartPendingReads(n, t))
    BY <2>2, StartPendingReadsGood, Zenon
  <2> QED BY <2>1, <2>2, <2>3 DEF Calm, Gentle, Kept, Steady
<1>6. CASE cont.kind = "None"
  BY <1>6, Zenon DEF RunContinuation
<1> QED BY <1>2, <1>3, <1>4, <1>5, <1>6, Zenon DEF IsContinuation

\* `persist_completed`: the barrier falls, the continuation runs. A write of a hard state
\* makes no new leader.
LEMMA PersistDoneFine ==
    ASSUME NEW n \in Node, NEW s, NEW h, NEW dh, NEW r, NEW B, Setting,
           Clear(n, s, dh, r, B), Registered(n, dh, B),
           s.pendingPersist # Nil, Vow(s, h, s.pendingPersist.cont),
           h # Nil => (h.vote # Nil => <<n, h.term, h.vote>> \in B)
    PROVE  /\ Fine(n, PersistDone(n, s), dh, r, B)
           /\ h # Nil => Steady(s, PersistDone(n, s))
<1> DEFINE cont == s.pendingPersist.cont
           i == s.pendingPersist.stable
           u == [s EXCEPT !.pendingPersist = Nil]
           x == MarkStable(u.log, i)
           t == [u EXCEPT !.log = x.log]
<1>1. PersistDone(n, s) \in {RunContinuation(n, u, cont), Fail(u, "Log"),
                             RunContinuation(n, t, cont)}
  BY Zenon DEF PersistDone, WithLog
<1>2. Typed(n, s) /\ IsCore(s) /\ IsContinuation(n, cont)
  BY ClearFacts DEF Typed
<1> USE <1>2
<1>3. Frame(s, u, {"pendingPersist"}) /\ u.pendingPersist = Nil
  BY Zenon DEF Frame, IsCore, CoreFields
<1> USE <1>3
<1> HIDE DEF u, cont
<1>4. Clear(n, u, dh, r, B)
  <2>1. Frame(s, u, {"pendingPersist", "store"}) /\ u.store = s.store
    BY Zenon DEF Frame, CoreFields
  <2> QED BY <2>1, DropClear
<1> USE <1>4
<1>5. /\ Typed(n, u) /\ IsCore(u) /\ Snapped(u.log) /\ Tallied(n, u, B)
      /\ DOMAIN u.progress \subseteq Peers(n)
  BY ClearFacts, Zenon DEF Typed
<1> USE <1>5
<1>6. Frame(u, t, {"log"}) /\ t.log = x.log
  BY DEF Frame, IsCore, CoreFields
<1> USE <1>6
<1>7. Snapped(x.log)
  BY LogKeepsSnapshot, Zenon
<1> HIDE DEF t, x
<1>8. Clear(n, t, dh, r, B)
  <2>1. /\ Frame(u, t, Civil) /\ t.hard = u.hard /\ t.progress = u.progress
        /\ t.role = u.role /\ t.votes = u.votes
    BY DEF Frame, CoreFields, Civil
  <2>2. Tallied(n, t, B)
    BY <2>1, Zenon DEF Tallied
  <2>3. Shift(n, u, t, B)
    BY <2>1, <2>2, <1>7, CivilShift, Zenon
  <2> QED BY <2>3, ShiftClear, Zenon
<1>9. Vow(s, h, cont) /\ u.role = s.role /\ u.votes = s.votes /\ t.role = s.role
      /\ t.votes = s.votes
  BY Zenon DEF Frame, CoreFields, cont
<1>10. Vow(u, h, cont) /\ Vow(t, h, cont)
  BY <1>9, Zenon DEF Vow
<1>11. /\ Fine(n, RunContinuation(n, u, cont), dh, r, B)
       /\ Fine(n, RunContinuation(n, t, cont), dh, r, B)
  BY <1>8, <1>10, RunContinuationFine, Zenon
<1>12. Fine(n, Fail(u, "Log"), dh, r, B)
  BY FailClear
<1>13. Steady(s, u) /\ Steady(u, t) /\ Steady(u, Fail(u, "Log"))
  BY Zenon DEF Frame, IsCore, CoreFields, Steady, Fail
<1>14. ASSUME h # Nil PROVE Steady(s, PersistDone(n, s))
  <2>1. cont.kind # "ActivateLeader"
    BY <1>10, <1>14, Zenon DEF Vow
  <2>2. Steady(u, RunContinuation(n, u, cont)) /\ Steady(t, RunContinuation(n, t, cont))
    BY <1>8, <2>1, RunContinuationSteady
  <2> QED BY <1>1, <1>13, <2>2, Zenon DEF Steady
<1> QED BY <1>1, <1>11, <1>12, <1>14, Zenon

\* What a completion can be for.
LEMMA AwaitsFacts ==
    ASSUME NEW s, NEW e
    PROVE  /\ \/ Awaits(s, e.id) = "Read" /\ \E c \in s.chunkReads : c.id = e.id
              \/ Awaits(s, e.id) = "Store" /\ IsFor(s.store, e)
              \/ Awaits(s, e.id) = s.installing.phase /\ IsFor(s.installing, e)
              \/ Awaits(s, e.id) = s.local.phase /\ IsFor(s.local, e)
              \/ Awaits(s, e.id) = "Apply" /\ IsFor(s.pendingApply, e)
              \/ Awaits(s, e.id) = "Persist" /\ IsFor(s.pendingPersist, e)
              \/ Awaits(s, e.id) = "Nothing"
           /\ (\A c \in s.chunkReads : c.id # e.id) /\ ~IsFor(s.store, e)
                 /\ IsFor(s.installing, e) => Awaits(s, e.id) = s.installing.phase
<1>1. CASE \E c \in s.chunkReads : c.id = e.id
  BY <1>1, Zenon DEF Awaits
<1>2. CASE ~(\E c \in s.chunkReads : c.id = e.id) /\ IsFor(s.store, e)
  BY <1>2, Zenon DEF Awaits, IsFor
<1>3. CASE /\ ~(\E c \in s.chunkReads : c.id = e.id) /\ ~IsFor(s.store, e)
           /\ IsFor(s.installing, e)
  BY <1>3, Zenon DEF Awaits, IsFor
<1>4. CASE /\ ~(\E c \in s.chunkReads : c.id = e.id) /\ ~IsFor(s.store, e)
           /\ ~IsFor(s.installing, e)
  BY <1>4, Zenon DEF Awaits, IsFor
<1> QED BY <1>1, <1>2, <1>3, <1>4, Zenon

\* A completion that is not about an incoming snapshot or a persist of the protocol.
LEMMA LightCompletion ==
    ASSUME NEW n, NEW s, NEW e, NEW outcome, NEW dh, NEW r, NEW B, Setting,
           Good(n, s, dh, r, B), Settled(s, dh, r), Agree(s, e),
           e.kind = "BuildSnapshot" => DOMAIN outcome # {},
           Awaits(s, e.id) \notin {"Store", "PersistIncoming", "Install", "Persist"}
    PROVE  /\ Good(n, OnEffectCompleted(n, s, e.id, outcome), dh, r, B)
           /\ Gentle(s, OnEffectCompleted(n, s, e.id, outcome))
<1> DEFINE w == Awaits(s, e.id)
           t == OnEffectCompleted(n, s, e.id, outcome)
<1>1. Typed(n, s)
  BY Zenon DEF Good, Sane, Base
<1>2. \/ w = "Read" /\ \E c \in s.chunkReads : c.id = e.id
      \/ w \in {"Build", "PersistLocal", "Compact"} /\ w = s.local.phase /\ IsFor(s.local, e)
      \/ w = "Apply"
      \/ w = "Nothing"
  <2>1. \/ w = "Read" /\ \E c \in s.chunkReads : c.id = e.id
        \/ w = s.installing.phase /\ IsFor(s.installing, e)
        \/ w = s.local.phase /\ IsFor(s.local, e)
        \/ w = "Apply"
        \/ w = "Nothing"
    BY AwaitsFacts, Zenon
  <2> HIDE DEF w
  <2>2. /\ IsFor(s.installing, e) => s.installing.phase \in {"PersistIncoming", "Install"}
        /\ IsFor(s.local, e) => s.local.phase \in {"Build", "PersistLocal", "Compact"}
    BY <1>1 DEF Typed, IsFor
  <2>3. w \notin {"PersistIncoming", "Install"}
    BY Zenon DEF w
  <2> QED BY <2>1, <2>2, <2>3, Zenon
<1> HIDE DEF w
<1>3. CASE w = "Read" /\ \E c \in s.chunkReads : c.id = e.id
  <2> DEFINE c == CHOOSE x \in s.chunkReads : x.id = e.id
  <2>1. t = ChunkRead(n, s, c, outcome)
    BY <1>3, Zenon DEF OnEffectCompleted, w
  <2>2. c \in s.chunkReads
    BY <1>3
  <2> HIDE DEF c
  <2>3. Good(n, t, dh, r, B) /\ Calm(s, t)
    BY <2>1, <2>2, ChunkReadGood, Zenon
  <2> QED BY <2>3, Zenon DEF Calm
<1>4. CASE w = "Build" /\ w = s.local.phase /\ IsFor(s.local, e)
  <2>1. t = SnapshotBuilt(s, outcome)
    BY <1>4, Zenon DEF OnEffectCompleted, w
  <2>2. DOMAIN outcome # {}
    BY <1>4, Zenon DEF Agree
  <2>3. Good(n, t, dh, r, B) /\ Calm(s, t)
    BY <2>1, <2>2, SnapshotBuiltGood, Zenon
  <2> QED BY <2>3, Zenon DEF Calm
<1>5. CASE w = "PersistLocal" /\ w = s.local.phase /\ IsFor(s.local, e)
  <2>1. t = LocalSnapshotPersisted(s)
    BY <1>5, Zenon DEF OnEffectCompleted, w
  <2>2. s.local # Nil /\ s.local.phase = "PersistLocal"
    BY <1>5, Zenon DEF IsFor
  <2>3. Good(n, t, dh, r, B) /\ Calm(s, t)
    BY <2>1, <2>2, LocalSnapshotPersistedGood, Zenon
  <2> QED BY <2>3, Zenon DEF Calm
<1>6. CASE w = "Compact" /\ w = s.local.phase /\ IsFor(s.local, e)
  <2>1. t = LogCompacted(s)
    BY <1>6, Zenon DEF OnEffectCompleted, w
  <2>2. s.local # Nil /\ s.local.phase = "Compact"
    BY <1>6, Zenon DEF IsFor
  <2>3. Good(n, t, dh, r, B) /\ Calm(s, t)
    BY <2>1, <2>2, LogCompactedGood, Zenon
  <2> QED BY <2>3, Zenon DEF Calm
<1>7. CASE w = "Apply"
  <2>1. t = ApplyDone(n, s)
    BY <1>7 DEF OnEffectCompleted, w
  <2>2. PICK u : u = [s EXCEPT !.pendingApply = Nil]
    BY Zenon
  <2>3. Good(n, u, dh, r, B) /\ Calm(s, u)
    BY <1>1, <2>2, ApplyDropped, Zenon
  <2>4. Settled(u, dh, r)
    BY <2>3, CalmKeeps, Zenon
  <2>5. Good(n, t, dh, r, B) /\ Gentle(u, t)
    <3>1. IsCore(s)
      BY <1>1, Zenon DEF Typed
    <3>2. Good(n, ApplyDone(n, s), dh, r, B) /\ Gentle(u, ApplyDone(n, s))
      BY <2>2, <2>3, <2>4, <3>1, ApplyDoneGood, Zenon
    <3> QED BY <2>1, <3>2, Zenon
  <2>6. Gentle(s, t)
    BY <2>3, <2>5, GentleTwice, Zenon DEF Calm
  <2> QED BY <2>5, <2>6, Zenon
<1>8. CASE w = "Nothing"
  <2>1. t = Fail(s, "UnknownEffect")
    BY <1>8, Zenon DEF OnEffectCompleted, w
  <2>2. Good(n, t, dh, r, B) /\ Calm(s, t)
    BY <2>1, FailGood, Zenon
  <2> QED BY <2>2, Zenon DEF Calm
<1> QED BY <1>2, <1>3, <1>4, <1>5, <1>6, <1>7, <1>8, Zenon
-----------------------------------------------------------------------------
(* The completion of an effect e that has left the queue *)

\* A protocol persist is durable: its barrier falls, unless an apply still hides it.
LEMMA ProtocolCompleted ==
    ASSUME NEW n \in Node, NEW s, NEW e, NEW outcome, NEW dh, NEW r, NEW B, Setting,
           Clear(n, s, dh, r, B), Registered(n, dh, B), Protocol(e), Agree(s, e),
           Promised(s, e), e.hard # Nil => (e.hard.vote # Nil =>
                                              <<n, e.hard.term, e.hard.vote>> \in B)
    PROVE  /\ Fine(n, OnEffectCompleted(n, s, e.id, outcome), dh, r, B)
           /\ e.hard # Nil => Steady(s, OnEffectCompleted(n, s, e.id, outcome))
<1> DEFINE w == Awaits(s, e.id)
<1>1. Typed(n, s) /\ Settled(s, dh, r) /\ Good(n, s, dh, r, B)
  BY ClearFacts, Zenon DEF Clear
<1> USE <1>1
<1>2. e.kind = "Persist" /\ ~Incoming(e)
  BY DEF Protocol, Incoming
<1>3. w \notin {"Store", "PersistIncoming", "Install"}
  <2>1. \/ w \in {"Read", "Apply", "Persist", "Nothing"}
        \/ IsFor(s.store, e)
        \/ w = s.installing.phase /\ IsFor(s.installing, e)
        \/ w = s.local.phase /\ IsFor(s.local, e)
    BY AwaitsFacts, Zenon
  <2>2. ~IsFor(s.store, e) /\ ~IsFor(s.installing, e)
    BY <1>2, Zenon DEF Agree, Typed, IsFor
  <2>3. IsFor(s.local, e) => s.local.phase \in {"Build", "PersistLocal", "Compact"}
    BY Zenon DEF Typed, IsFor
  <2> HIDE DEF w
  <2> QED BY <2>1, <2>2, <2>3, Zenon
<1>4. CASE w = "Persist"
  <2>1. OnEffectCompleted(n, s, e.id, outcome) = PersistDone(n, s)
    BY <1>4, Zenon DEF OnEffectCompleted
  <2>2. IsFor(s.pendingPersist, e)
    BY DEF Agree
  <2>3. s.pendingPersist # Nil /\ Vow(s, e.hard, s.pendingPersist.cont)
    BY <2>2, Zenon DEF Promised, IsFor
  <2> QED BY <2>1, <2>3, PersistDoneFine, Zenon
<1>5. CASE w # "Persist"
  <2>1. w \notin {"Store", "PersistIncoming", "Install", "Persist"}
    BY <1>3, <1>5
  <2>2. e.kind # "BuildSnapshot"
    BY <1>2, Zenon
  <2> HIDE DEF w
  <2>3. /\ Good(n, OnEffectCompleted(n, s, e.id, outcome), dh, r, B)
        /\ Gentle(s, OnEffectCompleted(n, s, e.id, outcome))
    BY <2>1, <2>2, LightCompletion, Zenon DEF w
  <2>4. Steady(s, OnEffectCompleted(n, s, e.id, outcome))
    BY <2>3 DEF Gentle, Kept, Steady
  <2> QED BY <2>3, <2>4, GentleFine, Zenon
<1> QED BY <1>4, <1>5, Zenon

\* A chunk is stored; the receiver may have gone meanwhile.
LEMMA StoreCompleted ==
    ASSUME NEW n, NEW s, NEW e, NEW outcome, NEW dh, NEW r, NEW B, Setting,
           Clear(n, s, dh, r, B), e.kind = "StoreSnapshotChunk", Agree(s, e),
           Pending(s, dh, e)
    PROVE  Fine(n, OnEffectCompleted(n, s, e.id, outcome), dh, r, B)
<1> DEFINE w == Awaits(s, e.id)
<1>1. Typed(n, s) /\ Settled(s, dh, r) /\ Good(n, s, dh, r, B)
  BY ClearFacts, Zenon DEF Clear
<1> USE <1>1
<1>2. ~Protocol(e) /\ ~Incoming(e)
  BY Zenon DEF Protocol, Incoming
<1>3. w \notin {"PersistIncoming", "Install", "Persist"}
  <2>1. \/ w \in {"Read", "Apply", "Store", "Nothing"}
        \/ IsFor(s.pendingPersist, e)
        \/ w = s.installing.phase /\ IsFor(s.installing, e)
        \/ w = s.local.phase /\ IsFor(s.local, e)
    BY AwaitsFacts, Zenon
  <2>2. ~IsFor(s.pendingPersist, e) /\ ~IsFor(s.installing, e)
    BY <1>2, Zenon DEF Agree, Typed, IsFor
  <2>3. IsFor(s.local, e) => s.local.phase \in {"Build", "PersistLocal", "Compact"}
    BY Zenon DEF Typed, IsFor
  <2> HIDE DEF w
  <2> QED BY <2>1, <2>2, <2>3
<1>4. CASE w = "Store"
  <2>1. OnEffectCompleted(n, s, e.id, outcome) = ChunkStored(s)
    BY <1>4, Zenon DEF OnEffectCompleted
  <2>2. IsFor(s.store, e)
    BY <1>4, Zenon DEF Awaits, IsFor, Typed
  <2>3. s.store # Nil /\ s.hard.term <= s.store.term
    BY <2>2, Zenon DEF Pending, IsFor
  <2> QED BY <2>1, <2>3, ChunkStoredFine, Zenon
<1>5. CASE w # "Store"
  <2>1. w \notin {"Store", "PersistIncoming", "Install", "Persist"}
    BY <1>3, <1>5, Zenon
  <2> HIDE DEF w
  <2>3. /\ Good(n, OnEffectCompleted(n, s, e.id, outcome), dh, r, B)
        /\ Gentle(s, OnEffectCompleted(n, s, e.id, outcome))
    BY <2>1, LightCompletion, Zenon DEF w
  <2> QED BY <2>3, GentleFine, Zenon
<1> QED BY <1>4, <1>5

\* The received snapshot is persisted or installed.
LEMMA IncomingCompleted ==
    ASSUME NEW n, NEW s, NEW e, NEW outcome, Agree(s, e),
           Incoming(e) \/ e.kind = "InstallSnapshot"
    PROVE  /\ IsFor(s.installing, e)
           /\ Incoming(e) =>
                 OnEffectCompleted(n, s, e.id, outcome) = IncomingSnapshotPersisted(s)
           /\ e.kind = "InstallSnapshot" =>
                 OnEffectCompleted(n, s, e.id, outcome) = SnapshotInstalled(n, s)
           /\ Awaits(s, e.id) # "Nothing"
<1>1. /\ \A c \in s.chunkReads : c.id # e.id
      /\ ~IsFor(s.store, e) /\ IsFor(s.installing, e)
      /\ Incoming(e) => s.installing.phase = "PersistIncoming"
      /\ e.kind = "InstallSnapshot" => s.installing.phase = "Install"
  BY Zenon DEF Agree, Incoming
<1>2. Awaits(s, e.id) = s.installing.phase
  BY <1>1, AwaitsFacts
<1> QED BY <1>1, <1>2, Zenon DEF OnEffectCompleted
-----------------------------------------------------------------------------
(* The oldest effect of the queue is reported *)

\* The host reports its oldest effect e complete.
LEMMA CompletionEnds ==
    ASSUME NEW n \in Node, NEW before, NEW s, NEW dh, NEW q, NEW e, NEW r, NEW B, NEW C,
           NEW outcome, NEW h, Setting,
           Good(n, s, dh, q, B), s.fx = << >>, s.err = "Ok", q # << >>,
           e = Head(q), r = Tail(q), B \subseteq C, h = HardAfter(dh, e), Clean(s),
           Registered(n, h, C),
           e.kind = "Persist" =>
              (e.hard # Nil => (e.hard.vote # Nil => <<n, e.hard.term, e.hard.vote>> \in C)),
           e.kind = "BuildSnapshot" => DOMAIN outcome # {},
           Step(before, OnEffectCompleted(n, s, e.id, outcome)).err # "Log"
    PROVE  LET t == Step(before, OnEffectCompleted(n, s, e.id, outcome))
           IN /\ Ended(n, t, h, r, C)
              /\ WritesHard(e) /\ t.role = "Leader" => Steady(s, t)
<1> DEFINE t == OnEffectCompleted(n, s, e.id, outcome)
<1>1. /\ e.id \in Nat /\ Agree(s, e) /\ Pending(s, dh, e) /\ Promised(s, e)
      /\ ~Heavy(e) /\ ~Awaited(s, e) => Good(n, s, dh, r, C) /\ Settled(s, dh, r)
      /\ Heavy(e) => \A d : /\ Between(n, s, d, r, C)
                            /\ Same(d, s.hard) => Clear(n, s, d, r, C)
  BY HeadRemoved, Zenon
<1>2. Typed(n, s)
  BY Zenon DEF Good, Sane, Base
<1>3. CASE ~Heavy(e)
  <2>1. h = dh
    BY <1>3 DEF HardAfter, Heavy, Protocol, Incoming
  <2>2. ~Protocol(e) /\ ~Incoming(e) /\ e.kind \notin {"StoreSnapshotChunk", "InstallSnapshot"}
    BY <1>3, Zenon DEF Heavy
  <2>3. ~IsFor(s.store, e) /\ ~IsFor(s.installing, e) /\ ~IsFor(s.pendingPersist, e)
    BY <1>1, <1>2, <2>2, Zenon DEF Agree, Typed, IsFor
  <2>4. Awaits(s, e.id) \notin {"Store", "PersistIncoming", "Install", "Persist"}
    <3>1. \/ Awaits(s, e.id) \in {"Read", "Apply", "Nothing"}
          \/ Awaits(s, e.id) = s.local.phase /\ IsFor(s.local, e)
      BY <2>3, AwaitsFacts, Zenon
    <3>2. IsFor(s.local, e) => s.local.phase \in {"Build", "PersistLocal", "Compact"}
      BY <1>2, Zenon DEF Typed, IsFor
    <3> QED BY <3>1, <3>2, Zenon
  <2>5. PICK u : Good(n, u, dh, r, C) /\ Settled(u, dh, r) /\ Good(n, t, dh, r, C) /\ Gentle(u, t)
    <3>1. CASE ~Awaited(s, e)
      BY <1>1, <1>3, <2>4, <3>1, LightCompletion, Zenon
    <3>2. CASE Awaited(s, e)
      <4>1. PICK u : u = [s EXCEPT !.pendingApply = Nil]
        BY Zenon
      <4>2. Good(n, u, dh, r, C) /\ Settled(u, dh, r)
        <5>1. Good(n, u, dh, q, B)
          BY <1>2, <4>1, ApplyDropped, Zenon
        <5>2. u.fx = s.fx /\ u.err = s.err /\ u.pendingApply = Nil
          BY <1>2, <4>1, Zenon DEF Typed, IsCore, CoreFields
        <5>3. ~Awaited(u, e)
          BY <5>2, Zenon DEF Awaited, IsFor
        <5> QED BY <1>3, <5>1, <5>2, <5>3, HeadRemoved, Zenon
      <4>3. Awaits(s, e.id) = "Apply"
        <5>1. /\ \A c \in s.chunkReads : c.id # e.id
              /\ ~IsFor(s.local, e) /\ IsFor(s.pendingApply, e)
          BY <1>1, <3>2, Zenon DEF Agree, Awaited
        <5> QED BY <2>3, <5>1, Zenon DEF Awaits, IsFor
      <4>4. t = ApplyDone(n, s)
        BY <4>3, Zenon DEF OnEffectCompleted
      <4> QED BY <1>2, <4>1, <4>2, <4>4, ApplyDoneGood, Zenon DEF Typed
    <3> QED BY <3>1, <3>2, Zenon
  <2> HIDE DEF t
  <2>6. Synced(t, dh, Range(r))
    BY <2>5, GentleKeeps, Zenon DEF Settled
  <2>7. Ended(n, Step(before, t), dh, r, C)
    BY <2>5, <2>6, StepEnds, Zenon
  <2>8. ~WritesHard(e)
    BY <1>3, Zenon DEF WritesHard, Heavy, Protocol, Incoming
  <2> QED BY <2>1, <2>7, <2>8, Zenon DEF t
<1>4. CASE Protocol(e)
  <2>1. Same(h, s.hard)
    BY <1>1, <1>4, Zenon DEF Pending, HardAfter, Protocol
  <2>2. Clear(n, s, h, r, C)
    BY <1>1, <1>4, <2>1, Zenon DEF Heavy
  <2>3. e.hard # Nil => (e.hard.vote # Nil => <<n, e.hard.term, e.hard.vote>> \in C)
    BY <1>4, Zenon DEF Protocol
  <2>4. Fine(n, t, h, r, C) /\ (e.hard # Nil => Steady(s, t))
    BY <1>1, <1>4, <2>2, <2>3, ProtocolCompleted, Zenon
  <2> HIDE DEF t
  <2>5. Ended(n, Step(before, t), h, r, C)
    BY <2>4, FineEnds, Zenon
  <2>6. Steady(t, Step(before, t))
    BY <2>4, StepSteady, Zenon DEF Fine, Good, Sane, Base, Typed
  <2> QED BY <2>4, <2>5, <2>6, Zenon DEF t, Steady, WritesHard
<1>5. CASE e.kind = "StoreSnapshotChunk"
  <2>1. h = dh /\ Same(h, s.hard)
    BY <1>1, <1>5, Zenon DEF Pending, HardAfter
  <2>2. Clear(n, s, h, r, C)
    BY <1>1, <1>5, <2>1, Zenon DEF Heavy
  <2>3. Fine(n, t, h, r, C)
    BY <1>1, <1>5, <2>1, <2>2, StoreCompleted, Zenon
  <2> HIDE DEF t
  <2>4. Ended(n, Step(before, t), h, r, C)
    BY <2>3, FineEnds, Zenon
  <2> QED BY <1>5, <2>4, Zenon DEF t, WritesHard
<1>6. CASE Incoming(e)
  <2>1. IsFor(s.installing, e) /\ t = IncomingSnapshotPersisted(s)
    BY <1>1, <1>6, IncomingCompleted, Zenon
  <2>2. Ahead(s, h)
    BY <1>1, <1>6, <2>1, Zenon DEF Ahead, Pending, HardAfter, Incoming, IsFor
  <2>3. Between(n, s, h, r, C)
    BY <1>1, <1>6, Zenon DEF Heavy
  <2>4. Good(n, t, h, r, C)
    BY <2>1, <2>2, <2>3, IncomingSnapshotPersistedGood, Zenon
  <2> HIDE DEF t
  <2>5. Step(before, t).err # "Log"
    BY Zenon DEF t
  <2>6. Ended(n, Step(before, t), h, r, C)
    BY <2>4, <2>5, StepEnds, Zenon
  <2>7. t.role # "Leader"
    <3>1. s.role # "Leader"
      BY <2>1, Zenon DEF Clean, IsFor
    <3>2. t.role = s.role
      BY <2>1, <1>2, Zenon DEF t, IncomingSnapshotPersisted, Emit, Typed, IsCore, CoreFields
    <3> QED BY <3>1, <3>2, Zenon
  <2>8. Steady(t, Step(before, t))
    BY <2>4, StepSteady, Zenon DEF Good, Sane, Base, Typed
  <2> QED BY <2>6, <2>7, <2>8, Zenon DEF t, Steady
<1>7. CASE e.kind = "InstallSnapshot"
  <2>1. IsFor(s.installing, e) /\ t = SnapshotInstalled(n, s)
    BY <1>1, <1>7, IncomingCompleted, Zenon
  <2>2. h = dh
    BY <1>7, Zenon DEF HardAfter
  <2>3. Ahead(s, h) /\ s.role \notin {"Candidate", "Leader"}
    BY <1>1, <1>7, <2>1, <2>2, Zenon DEF Ahead, Pending, IsFor, Clean
  <2>4. Between(n, s, h, r, C)
    BY <1>1, <1>7, Zenon DEF Heavy
  <2>5. Clear(n, t, h, r, C)
    BY <2>1, <2>3, <2>4, SnapshotInstalledClear, Zenon
  <2> HIDE DEF t
  <2>6. Fine(n, t, h, r, C)
    BY <2>5, ClearFacts, Zenon
  <2>7. Ended(n, Step(before, t), h, r, C)
    BY <2>6, FineEnds, Zenon
  <2> QED BY <1>7, <2>7, Zenon DEF t, WritesHard
<1> QED BY <1>3, <1>4, <1>5, <1>6, <1>7, Zenon DEF Heavy

\* The host reports that its oldest effect e failed.
LEMMA FailureEnds ==
    ASSUME NEW n, NEW before, NEW s, NEW dh, NEW q, NEW e, NEW r, NEW B, Setting,
           Good(n, s, dh, q, B), s.fx = << >>, s.err = "Ok", q # << >>,
           e = Head(q), r = Tail(q)
    PROVE  Ended(n, Step(before, OnEffectFailed(s, e.id)), dh, r, B)
<1> DEFINE w == Awaits(s, e.id)
<1>1. /\ e.id \in Nat /\ Agree(s, e) /\ Pending(s, dh, e) /\ Promised(s, e)
      /\ Protocol(e) => s.pendingApply = Nil
      /\ ~Heavy(e) /\ ~Awaited(s, e) => Good(n, s, dh, r, B) /\ Settled(s, dh, r)
      /\ Heavy(e) => \A d : /\ Between(n, s, d, r, B)
                            /\ Same(d, s.hard) => Clear(n, s, d, r, B)
  BY HeadRemoved, Zenon
<1>2. Typed(n, s) /\ Tallied(n, s, B)
  BY DEF Good, Sane, Base
<1>3. /\ IsFor(s.installing, e) => s.installing.phase # "Nothing"
      /\ IsFor(s.local, e) => s.local.phase # "Nothing"
  BY <1>2, Zenon DEF Typed, IsFor
<1>4. CASE w = "Nothing"
  <2> DEFINE t == Fail(s, "UnknownEffect")
  <2>1. OnEffectFailed(s, e.id) = t
    BY <1>4 DEF OnEffectFailed
  <2>2. ~Incoming(e) /\ e.kind # "InstallSnapshot"
    BY <1>1, <1>4, IncomingCompleted, Zenon
  <2>3. ~Protocol(e)
    <3> SUFFICES ASSUME Protocol(e) PROVE FALSE
      OBVIOUS
    <3>1. IsFor(s.pendingPersist, e) /\ s.pendingApply = Nil
      BY <1>1, Zenon DEF Agree
    <3> QED BY <1>4, <1>3, <3>1, Zenon DEF Awaits, IsFor
  <2>4. ~Awaited(s, e)
    BY <1>4, <1>3, Zenon DEF Awaits, Awaited, IsFor
  <2>5. Good(n, s, dh, r, B) /\ Settled(s, dh, r)
    <3>1. CASE ~Heavy(e)
      BY <1>1, <2>4, <3>1, Zenon
    <3>2. CASE Heavy(e)
      <4>1. e.kind = "StoreSnapshotChunk"
        BY <2>2, <2>3, <3>2, Zenon DEF Heavy
      <4>2. Clear(n, s, dh, r, B)
        BY <1>1, <3>2, <4>1, Zenon DEF Pending
      <4> QED BY <4>2, ClearFacts, Zenon DEF Clear
    <3> QED BY <3>1, <3>2, Zenon
  <2>6. Good(n, t, dh, r, B) /\ Calm(s, t)
    BY <2>5, FailGood, Zenon
  <2>7. Synced(t, dh, Range(r))
    BY <2>5, <2>6, CalmKeeps, Zenon DEF Settled
  <2> HIDE DEF t
  <2> QED BY <2>1, <2>6, <2>7, StepEnds, Zenon
<1>5. CASE w # "Nothing"
  <2>1. PICK error \in {"StateMachine", "Storage"} : OnEffectFailed(s, e.id) = Fail(s, error)
    BY <1>5, Zenon DEF OnEffectFailed
  <2> DEFINE t == Fail(s, error)
  <2>2. Frame(s, t, {"err"}) /\ t.err = error
    BY <1>2, Zenon DEF Frame, CoreFields, IsCore, Typed, Fail
  <2> HIDE DEF t
  <2>3. Typed(n, t) /\ Tallied(n, t, B)
    <3>1. Tallied(n, t, B)
      BY <1>2, <2>2, Zenon DEF Frame, CoreFields, Tallied
    <3>2. Barriers(t) = Barriers(s) /\ Snaps(t)
      BY <1>2, <2>2, Zenon DEF Frame, CoreFields, Typed, Snaps, Barriers
    <3> QED BY <3>1, <3>2, <1>2, <2>2, Zenon DEF Frame, CoreFields, Typed
  <2>4. Step(before, t) = Abort(t)
    BY <2>2, Zenon DEF Step, Finish, Then
  <2>5. Ended(n, Abort(t), dh, r, B)
    BY <2>2, <2>3, StopAtRest
  <2> QED BY <2>1, <2>4, <2>5, Zenon DEF t
<1> QED BY <1>4, <1>5, Zenon
=============================================================================
