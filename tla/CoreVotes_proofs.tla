-------------------------- MODULE CoreVotes_proofs ---------------------------
(***************************************************************************)
(* The lemmas about the invariant of CoreVotes that speak of no handler of *)
(* the core: queues of effects, the kinds of change a step is made of, the *)
(* end of a step, and the report of the oldest effect.                     *)
(***************************************************************************)
EXTENDS CoreVotes, TLAPS
-----------------------------------------------------------------------------
(* Sequences of effects *)

\* The concatenation of two queues of effects holds the effects of both, in order.
LEMMA ConcatFacts ==
    ASSUME NEW q, NEW es, IsSeq(q), IsSeq(es)
    PROVE  /\ IsSeq(q \o es)
           /\ Range(q \o es) = Range(q) \cup Range(es)
           /\ DOMAIN (q \o es) = 1..(Len(q) + Len(es))
           /\ DOMAIN q = 1..Len(q) /\ DOMAIN es = 1..Len(es)
           /\ Len(q) \in Nat /\ Len(es) \in Nat
           /\ \A i \in 1..(Len(q) + Len(es)) :
                 (q \o es)[i] = IF i <= Len(q) THEN q[i] ELSE es[i - Len(q)]
<1> DEFINE S == Range(q) \cup Range(es)
<1>1. q \in Seq(S) /\ es \in Seq(S)
  BY DEF IsSeq
<1>2. /\ q \o es \in Seq(S)
      /\ Len(q \o es) = Len(q) + Len(es)
      /\ \A i \in 1..(Len(q) + Len(es)) :
            (q \o es)[i] = IF i <= Len(q) THEN q[i] ELSE es[i - Len(q)]
  BY <1>1
<1> USE <1>2
<1>3. /\ Len(q) \in Nat /\ Len(es) \in Nat
      /\ DOMAIN q = 1..Len(q) /\ DOMAIN es = 1..Len(es)
      /\ DOMAIN (q \o es) = 1..(Len(q) + Len(es))
  BY <1>1
<1> USE <1>3
<1>4. Range(q \o es) \subseteq S
  <2> SUFFICES ASSUME NEW i \in DOMAIN (q \o es) PROVE (q \o es)[i] \in S
    BY DEF Range
  <2>1. i \in 1..Len(q) \/ i - Len(q) \in 1..Len(es)
    OBVIOUS
  <2> QED BY <2>1 DEF Range
<1>5. S \subseteq Range(q \o es)
  <2>1. ASSUME NEW i \in DOMAIN q PROVE q[i] \in Range(q \o es)
    <3>1. i \in 1..(Len(q) + Len(es)) /\ i <= Len(q)
      BY <2>1
    <3> QED BY <3>1 DEF Range
  <2>2. ASSUME NEW i \in DOMAIN es PROVE es[i] \in Range(q \o es)
    <3>1. i + Len(q) \in 1..(Len(q) + Len(es)) /\ ~(i + Len(q) <= Len(q))
          /\ (i + Len(q)) - Len(q) = i
      BY <2>2
    <3>2. (q \o es)[i + Len(q)] = es[i]
      BY <3>1
    <3> QED BY <3>1, <3>2 DEF Range
  <2> QED BY <2>1, <2>2 DEF Range
<1>6. IsSeq(q \o es)
  BY <1>4, <1>5 DEF IsSeq
<1> QED BY <1>4, <1>5, <1>6

\* A queue that grows by one effect.
LEMMA AppendFacts ==
    ASSUME NEW q, NEW e, IsSeq(q)
    PROVE  /\ IsSeq(<<e>>) /\ Range(<<e>>) = {e}
           /\ Append(q, e) = q \o <<e>>
           /\ IsSeq(Append(q, e))
           /\ Range(Append(q, e)) = Range(q) \cup {e}
<1>1. Range(<<e>>) = {e} /\ IsSeq(<<e>>)
  BY DEF Range, IsSeq
<1>2. q \in Seq(Range(q) \cup {e})
  BY DEF IsSeq
<1>3. Append(q, e) = q \o <<e>>
  BY <1>2
<1> QED BY <1>1, <1>3, ConcatFacts

\* The empty queue.
LEMMA EmptyFacts == IsSeq(<< >>) /\ Range(<< >>) = {}
BY DEF IsSeq, Range

\* A step that asks for nothing leaves the queue as it is.
LEMMA NothingAsked ==
    ASSUME NEW s, NEW q, IsSeq(q), s.fx = << >>
    PROVE  Queue(s, q) = q
<1>1. PICK S : q \in Seq(S)
  BY Zenon DEF IsSeq
<1>2. q \o << >> = q
  BY <1>1
<1> QED BY <1>2, Zenon DEF Queue

\* A queue that takes light effects at its end keeps at most one heavy one.
LEMMA OneHeavyLight ==
    ASSUME NEW q, NEW es, IsSeq(q), IsSeq(es), OneHeavy(q), NoHeavy(Range(es))
    PROVE  OneHeavy(q \o es)
<1> SUFFICES ASSUME NEW j \in DOMAIN (q \o es), NEW k \in DOMAIN (q \o es),
                    Heavy((q \o es)[j]), Heavy((q \o es)[k])
             PROVE  j = k
  BY DEF OneHeavy
<1>1. ASSUME NEW i \in DOMAIN (q \o es), Heavy((q \o es)[i])
      PROVE  i \in DOMAIN q /\ (q \o es)[i] = q[i]
  <2>1. CASE i <= Len(q)
    BY <2>1, <1>1, ConcatFacts
  <2>2. CASE ~(i <= Len(q))
    <3>1. /\ i \in 1..(Len(q) + Len(es)) /\ Len(q) \in Nat /\ Len(es) \in Nat
          /\ DOMAIN es = 1..Len(es) /\ (q \o es)[i] = es[i - Len(q)]
      BY <2>2, <1>1, ConcatFacts, Zenon
    <3>2. i - Len(q) \in DOMAIN es
      BY <2>2, <3>1
    <3> QED BY <3>1, <3>2, <1>1 DEF NoHeavy, Range
  <2> QED BY <2>1, <2>2
<1> QED BY <1>1 DEF OneHeavy

\* A queue without heavy effects may take one.
LEMMA OneHeavyFirst ==
    ASSUME NEW q, NEW e, IsSeq(q), NoHeavy(Range(q))
    PROVE  OneHeavy(q \o <<e>>)
<1>0. IsSeq(<<e>>) /\ Len(<<e>>) = 1
  BY AppendFacts, Zenon
<1>1. ASSUME NEW i \in DOMAIN (q \o <<e>>), Heavy((q \o <<e>>)[i])
      PROVE  i = Len(q) + 1
  <2>1. CASE i <= Len(q)
    <3>1. i \in DOMAIN q /\ (q \o <<e>>)[i] = q[i]
      BY <2>1, <1>1, <1>0, ConcatFacts
    <3> QED BY <3>1, <1>1 DEF NoHeavy, Range
  <2>2. CASE ~(i <= Len(q))
    BY <2>2, <1>1, <1>0, ConcatFacts
  <2> QED BY <2>1, <2>2
<1> QED BY <1>1 DEF OneHeavy

\* The host appends the effects of a step to its queue, whatever the grouping.
LEMMA Associative ==
    ASSUME NEW a, NEW b, NEW c, IsSeq(a), IsSeq(b), IsSeq(c)
    PROVE  \A x, y : x = a \o b /\ y = b \o c => x \o c = a \o y
<1> DEFINE S == Range(a) \cup Range(b) \cup Range(c)
<1>1. a \in Seq(S) /\ b \in Seq(S) /\ c \in Seq(S)
  <2>1. Range(a) \subseteq S /\ Range(b) \subseteq S /\ Range(c) \subseteq S
    OBVIOUS
  <2> HIDE DEF S
  <2>2. \A q, R : q \in Seq(R) /\ R \subseteq S => q \in Seq(S)
    OBVIOUS
  <2> QED BY <2>1, <2>2 DEF IsSeq
<1> HIDE DEF S
<1>2. (a \o b) \o c = a \o (b \o c)
  BY <1>1
<1> QED BY <1>2

\* What is outstanding after the core has asked for the effects es.
LEMMA QueueGrows ==
    ASSUME NEW r, NEW s, NEW t, NEW es, IsSeq(r), IsSeq(s.fx), IsSeq(es),
           Asks(s, t, es)
    PROVE  /\ IsSeq(t.fx) /\ IsSeq(Queue(s, r)) /\ Queue(t, r) = Queue(s, r) \o es
           /\ Range(t.fx) = Range(s.fx) \cup Range(es)
           /\ Range(Queue(s, r)) = Range(r) \cup Range(s.fx)
           /\ Range(Queue(t, r)) = Range(Queue(s, r)) \cup Range(es)
<1>1. IsSeq(s.fx \o es) /\ Range(s.fx \o es) = Range(s.fx) \cup Range(es)
  BY ConcatFacts
<1>2. IsSeq(r \o s.fx) /\ Range(r \o s.fx) = Range(r) \cup Range(s.fx)
  BY ConcatFacts
<1>3. Queue(t, r) = Queue(s, r) \o es
  <2>1. PICK f : f = s.fx
    OBVIOUS
  <2>2. PICK x, y : x = r \o f /\ y = f \o es
    BY Zenon
  <2>3. IsSeq(f)
    BY <2>1
  <2>4. x \o es = r \o y
    BY <2>2, <2>3, Associative
  <2> QED BY <2>1, <2>2, <2>4 DEF Queue, Asks
<1>4. IsSeq(Queue(s, r)) /\ Range(Queue(s, r)) = Range(r) \cup Range(s.fx)
  BY <1>2 DEF Queue
<1>5. Range(Queue(s, r) \o es) = Range(Queue(s, r)) \cup Range(es)
  BY <1>4, ConcatFacts
<1> QED BY <1>1, <1>3, <1>4, <1>5 DEF Asks

\* The same for one more effect: the queue may take a heavy one if it holds none.
LEMMA QueueGrowsByOne ==
    ASSUME NEW r, NEW s, NEW t, NEW e, IsSeq(r), IsSeq(s.fx), AsksFor(s, t, e)
    PROVE  /\ IsSeq(One(e)) /\ Range(One(e)) = {e} /\ Asks(s, t, One(e))
           /\ IsSeq(t.fx) /\ (NoHeavy(Range(Queue(s, r))) => OneHeavy(Queue(t, r)))
           /\ Range(t.fx) = Range(s.fx) \cup {e}
           /\ Range(Queue(s, r)) = Range(r) \cup Range(s.fx)
           /\ Range(Queue(t, r)) = Range(Queue(s, r)) \cup {e}
<1>1. IsSeq(One(e)) /\ Range(One(e)) = {e}
  BY AppendFacts, Zenon DEF One
<1>2. Asks(s, t, One(e))
  BY AppendFacts DEF Asks, AsksFor, One
<1>5. ASSUME NEW es, IsSeq(es), Asks(s, t, es)
      PROVE  /\ IsSeq(t.fx) /\ IsSeq(Queue(s, r)) /\ Queue(t, r) = Queue(s, r) \o es
             /\ Range(t.fx) = Range(s.fx) \cup Range(es)
             /\ Range(Queue(s, r)) = Range(r) \cup Range(s.fx)
             /\ Range(Queue(t, r)) = Range(Queue(s, r)) \cup Range(es)
  BY <1>5, QueueGrows
<1>3. /\ IsSeq(t.fx) /\ IsSeq(Queue(s, r)) /\ Queue(t, r) = Queue(s, r) \o One(e)
      /\ Range(t.fx) = Range(s.fx) \cup Range(One(e))
      /\ Range(Queue(s, r)) = Range(r) \cup Range(s.fx)
      /\ Range(Queue(t, r)) = Range(Queue(s, r)) \cup Range(One(e))
  BY <1>1, <1>2, <1>5
<1>4. NoHeavy(Range(Queue(s, r))) => OneHeavy(Queue(t, r))
  BY <1>3, OneHeavyFirst, Zenon DEF One
<1> QED BY <1>1, <1>2, <1>3, <1>4

\* An apply stays in its place before the persists when effects are asked for.
LEMMA WaitsGrows ==
    ASSUME NEW s, NEW t, NEW q, NEW es, IsSeq(q), IsSeq(es), Waits(s, q),
           t.pendingApply \in {Nil, s.pendingApply}
    PROVE  Waits(t, q \o es)
<1> SUFFICES ASSUME t.pendingApply # Nil
             PROVE  \E j \in DOMAIN (q \o es) :
                       /\ Awaited(t, (q \o es)[j])
                       /\ \A k \in DOMAIN (q \o es) : Protocol((q \o es)[k]) => j < k
  BY Zenon DEF Waits, Awaited
<1>1. PICK j \in DOMAIN q : /\ Awaited(t, q[j])
                            /\ \A k \in DOMAIN q : Protocol(q[k]) => j < k
  BY Zenon DEF Waits, Awaited
<1>2. PICK z : z = q \o es
  BY Zenon
<1>3. /\ DOMAIN z = 1..(Len(q) + Len(es)) /\ DOMAIN q = 1..Len(q)
      /\ Len(q) \in Nat /\ Len(es) \in Nat
      /\ \A i \in 1..(Len(q) + Len(es)) : z[i] = IF i <= Len(q) THEN q[i] ELSE es[i - Len(q)]
  BY <1>2, ConcatFacts, Zenon
<1>4. \A i \in DOMAIN q : i \in DOMAIN z /\ z[i] = q[i]
  BY <1>3
<1>5. ASSUME NEW k \in DOMAIN z, Protocol(z[k]) PROVE j < k
  <2>1. CASE k \in DOMAIN q
    BY <1>1, <1>4, <1>5, <2>1, Zenon
  <2>2. CASE k \notin DOMAIN q
    BY <1>3, <2>2
  <2> QED BY <2>1, <2>2
<1> QED BY <1>1, <1>2, <1>4, <1>5, Zenon

\* The same when one effect is asked for.
LEMMA WaitsGrowsByOne ==
    ASSUME NEW r, NEW s, NEW t, NEW e, IsSeq(r), IsSeq(s.fx), AsksFor(s, t, e),
           Waits(s, Queue(s, r)), t.pendingApply = s.pendingApply
    PROVE  Waits(t, Queue(t, r))
<1>1. PICK es : es = One(e)
  BY Zenon
<1>2. IsSeq(es) /\ Asks(s, t, es)
  BY <1>1, QueueGrowsByOne, Zenon
<1>3. IsSeq(Queue(s, r)) /\ Queue(t, r) = Queue(s, r) \o es
  BY <1>2, QueueGrows, Zenon
<1>4. t.pendingApply \in {Nil, s.pendingApply}
  OBVIOUS
<1>5. Waits(t, Queue(s, r) \o es)
  BY <1>2, <1>3, <1>4, WaitsGrows, Zenon
<1> QED BY <1>3, <1>5, Zenon

\* An apply may be asked for while no persist of the protocol is outstanding.
LEMMA WaitsAnew ==
    ASSUME NEW t, NEW q, NEW es, NEW e \in Range(es), IsSeq(q), IsSeq(es),
           Awaited(t, e),
           \A x \in Range(q \o es) : ~Protocol(x)
    PROVE  Waits(t, q \o es)
<1>1. e \in Range(q \o es)
  BY ConcatFacts, Zenon
<1>2. PICK j \in DOMAIN (q \o es) : e = (q \o es)[j]
  BY <1>1, Zenon DEF Range
<1>3. \A k \in DOMAIN (q \o es) : ~Protocol((q \o es)[k])
  BY Zenon DEF Range
<1> QED BY <1>2, <1>3, Zenon DEF Waits, Awaited
-----------------------------------------------------------------------------
(* Three kinds of change within a step *)

\* A light change keeps the invariant of a core.
LEMMA LightStep ==
    ASSUME NEW n, NEW s, NEW t, NEW es, NEW dh, NEW r, NEW B,
           Good(n, s, dh, r, B), Light(n, s, t, es, dh, r, B)
    PROVE  /\ Good(n, t, dh, r, B) /\ Gentle(s, t)
           /\ t.pendingApply \in {Nil, s.pendingApply} => Calm(s, t)
<1> DEFINE E == Range(Queue(s, r))
           F == Range(Queue(t, r))
<1>1. /\ Typed(n, s) /\ IsSeq(r) /\ IsSeq(s.fx) /\ Tallied(n, s, B)
      /\ Matched(s, dh, E) /\ OneHeavy(Queue(s, r)) /\ \A m \in s.out : Sound(n, m, B)
      /\ Synced(s, dh, E) /\ (s.err # "Ok" => Settled(s, dh, r))
      /\ Fresh(s, r) /\ Waits(s, Queue(s, r))
  BY DEF Good, Sane, Base
<1>2. /\ IsSeq(t.fx) /\ IsSeq(Queue(s, r)) /\ Queue(t, r) = Queue(s, r) \o es
      /\ Range(t.fx) = Range(s.fx) \cup Range(es)
      /\ F = E \cup Range(es)
  <2>1. IsSeq(es) /\ Asks(s, t, es)
    BY DEF Light
  <2>2. IsSeq(r) /\ IsSeq(s.fx)
    BY <1>1
  <2> QED BY <2>1, <2>2, QueueGrows
<1>3. Kept(s, t) /\ IsCore(t)
  BY DEF Light
<1>4. Gentle(s, t)
  BY <1>2, <1>3 DEF Gentle, Light
<1>5. Typed(n, t)
  <2>1. \A b \in Barriers(t) : b.id \in Nat
    BY <1>1, <1>3 DEF Barriers, Light, Kept, Typed
  <2> QED BY <2>1, <1>1, <1>3, Zenon DEF Light, Kept, Typed
<1>6. Tallied(n, t, B)
  BY <1>1, <1>3 DEF Tallied, Kept
<1>7. OneHeavy(Queue(t, r))
  BY <1>1, <1>2, OneHeavyLight DEF Light, NoHeavy
<1>8. \A m \in t.out : Sound(n, m, B)
  BY <1>1 DEF Light
<1>9. Synced(t, dh, F)
  BY <1>1, <1>2, <1>3, Zenon DEF Synced, NoHeavy, Kept
<1>10. t.err # "Ok" => Settled(t, dh, r)
  <2> SUFFICES ASSUME t.err # "Ok" PROVE Settled(t, dh, r)
    OBVIOUS
  <2>1. Settled(s, dh, r) /\ t.pendingApply \in {Nil, s.pendingApply}
    BY <1>1, Zenon DEF Light
  <2>2. Synced(t, dh, Range(r))
    BY <2>1, <1>3, Zenon DEF Settled, Synced, Kept
  <2>3. Waits(t, r)
    BY <2>1, Zenon DEF Settled, Waits, Awaited
  <2> QED BY <2>2, <2>3, Zenon DEF Settled
<1>11. Fresh(t, r)
  <2>1. \A e \in F : e.id <= t.seq
    BY <1>1, <1>2 DEF Fresh, Light, Matched
  <2>2. \A c \in t.chunkReads : c.id <= t.seq
    BY <1>1 DEF Fresh, Light, Typed
  <2>3. ASSUME NEW b \in Barriers(t) PROVE b.id <= t.seq
    <3>1. b \in Barriers(s) \/ b.id <= t.seq
      BY <2>3, <1>3 DEF Barriers, Light, Kept
    <3> QED BY <3>1, <1>1 DEF Fresh, Light, Typed
  <2> QED BY <2>1, <2>2, <2>3, Zenon DEF Fresh, Light
<1>12. ASSUME NEW e \in F PROVE e.id \in Nat /\ Agree(t, e) /\ Pending(t, dh, e) /\ Promised(t, e)
  <2>1. CASE e \in E
    <3>1. e.id \in Nat /\ Agree(s, e) /\ Pending(s, dh, e) /\ Promised(s, e) /\ e.id <= s.seq
          /\ s.seq \in Nat
      BY <2>1, <1>1 DEF Matched, Fresh
    <3>2. \A c \in t.chunkReads : c.id = e.id => e.kind = "ReadSnapshotChunk"
      <4> SUFFICES ASSUME NEW c \in t.chunkReads, c.id = e.id
                   PROVE  e.kind = "ReadSnapshotChunk"
        OBVIOUS
      <4>1. c \in s.chunkReads
        BY <3>1 DEF Light
      <4> QED BY <4>1, <3>1 DEF Agree
    <3>6. IsFor(t.local, e) =>
              e.kind # "Apply" /\ (t.local.phase = "Build" => e.kind = "BuildSnapshot")
      <4>1. CASE t.local \in {Nil, s.local}
        BY <4>1, <3>1 DEF Agree, IsFor
      <4>2. CASE s.seq < t.local.id /\ t.local.id \in Nat
        BY <4>2, <3>1 DEF IsFor
      <4> QED BY <4>1, <4>2 DEF Light
    <3>3. Agree(t, e)
      BY <3>1, <3>2, <3>6, <1>3 DEF Agree, Kept
    <3>4. Pending(t, dh, e)
      BY <3>1, <1>3 DEF Pending, Kept
    <3>5. Promised(t, e)
      BY <3>1, <1>3 DEF Promised, Vow, Kept
    <3> QED BY <3>1, <3>3, <3>4, <3>5
  <2>2. CASE e \in Range(es)
    <3>1. ~Heavy(e) /\ e.id \in Nat /\ s.seq < e.id /\ s.seq \in Nat
      BY <2>2, <1>1 DEF Light, Fresh
    <3>2. ~Protocol(e) /\ ~Incoming(e)
          /\ e.kind # "StoreSnapshotChunk" /\ e.kind # "InstallSnapshot"
      BY <3>1, Zenon DEF Heavy
    <3>3. \A b \in Barriers(s) : b.id # e.id
      BY <3>1, <1>1 DEF Fresh, Typed
    <3>4. ~IsFor(t.pendingPersist, e) /\ ~IsFor(t.store, e) /\ ~IsFor(t.installing, e)
      BY <3>3, <1>3, Zenon DEF Barriers, IsFor, Kept
    <3>5. \A c \in t.chunkReads : c.id = e.id => e.kind = "ReadSnapshotChunk"
      BY <3>1, <2>2, <1>1 DEF Light, Fresh, Typed
    <3>6. IsFor(t.local, e) =>
              e.kind # "Apply" /\ (t.local.phase = "Build" => e.kind = "BuildSnapshot")
      BY <3>3, <2>2 DEF Barriers, IsFor, Light
    <3> QED BY <3>1, <3>2, <3>4, <3>5, <3>6, Zenon DEF Agree, Pending, Promised
  <2> QED BY <2>1, <2>2, <1>2
<1>13. Waits(t, Queue(t, r))
  <2>1. CASE t.pendingApply \in {Nil, s.pendingApply}
    <3>1. IsSeq(es)
      BY Zenon DEF Light
    <3>2. IsSeq(Queue(s, r)) /\ Waits(s, Queue(s, r)) /\ Queue(t, r) = Queue(s, r) \o es
      BY <1>1, <1>2, Zenon
    <3>3. Waits(t, Queue(s, r) \o es)
      BY <2>1, <3>1, <3>2, WaitsGrows, Zenon
    <3> QED BY <3>2, <3>3, Zenon
  <2>2. CASE t.pendingApply \notin {Nil, s.pendingApply}
    <3>1. PICK e \in Range(es) : Awaited(t, e)
      BY <2>2, Zenon DEF Light
    <3>2. s.pendingPersist = Nil
      BY <2>2, Zenon DEF Light
    <3>3. \A x \in E : ~Protocol(x)
      BY <1>1, <3>2, Zenon DEF Matched, Agree, IsFor
    <3>4. \A x \in Range(es) : ~Protocol(x)
      BY Zenon DEF Light, Heavy
    <3>5. \A x \in Range(Queue(s, r) \o es) : ~Protocol(x)
      BY <1>2, <3>3, <3>4, Zenon
    <3>6. IsSeq(es)
      BY DEF Light
    <3> QED BY <1>2, <3>1, <3>5, <3>6, WaitsAnew, Zenon
  <2> QED BY <2>1, <2>2
<1>14. t.pendingApply \in {Nil, s.pendingApply} => Calm(s, t)
  BY <1>4, Zenon DEF Calm
<1> QED BY <1>1, <1>2, <1>4, <1>5, <1>6, <1>7, <1>8, <1>9, <1>10, <1>11, <1>12, <1>13, <1>14
        DEF Good, Sane, Base, Matched

\* A change of role, while nothing heavy is outstanding, keeps the invariant.
LEMMA RoleStep ==
    ASSUME NEW n, NEW s, NEW t, NEW dh, NEW r, NEW B,
           Good(n, s, dh, r, B), Idle(s, r), Shift(n, s, t, B)
    PROVE  Good(n, t, dh, r, B) /\ Idle(t, r)
<1>1. /\ Typed(n, s) /\ IsSeq(r) /\ IsSeq(s.fx)
      /\ Matched(s, dh, Range(Queue(s, r))) /\ OneHeavy(Queue(s, r))
      /\ \A m \in s.out : Sound(n, m, B)
      /\ Synced(s, dh, Range(Queue(s, r))) /\ (s.err # "Ok" => Settled(s, dh, r))
      /\ Fresh(s, r) /\ Waits(s, Queue(s, r))
  BY DEF Good, Sane, Base
<1> USE <1>1
<1>2. Queue(t, r) = Queue(s, r) /\ Barriers(t) = Barriers(s)
  BY Zenon DEF Shift, Queue, Barriers
<1> USE <1>2
<1>3. Typed(n, t)
  BY Zenon DEF Typed, Shift
<1>4. Fresh(t, r)
  BY Zenon DEF Fresh, Shift
<1>5. Idle(t, r)
  BY Zenon DEF Idle
<1>6. ASSUME NEW e \in Range(Queue(t, r))
      PROVE  e.id \in Nat /\ Agree(t, e) /\ Pending(t, dh, e) /\ Promised(t, e)
  <2>1. e.id \in Nat /\ Agree(s, e) /\ Pending(s, dh, e) /\ ~Heavy(e)
    BY DEF Matched, Idle, NoHeavy
  <2> USE <2>1
  <2>2. Agree(t, e)
    BY Zenon DEF Agree, Shift
  <2>3. Pending(t, dh, e)
    BY Zenon DEF Pending, Shift
  <2>4. Promised(t, e)
    BY <2>2 DEF Promised, Agree, Heavy
  <2> QED BY <2>2, <2>3, <2>4
<1>7. Synced(t, dh, Range(Queue(t, r))) /\ (t.err # "Ok" => Settled(t, dh, r))
      /\ Waits(t, Queue(t, r))
  BY Zenon DEF Settled, Synced, Waits, Awaited, Shift
<1>8. Tallied(n, t, B) /\ \A m \in t.out : Sound(n, m, B)
  BY DEF Shift
<1>9. IsSeq(t.fx)
  BY DEF Shift
<1> QED BY <1>3, <1>4, <1>5, <1>6, <1>7, <1>8, <1>9, Zenon
        DEF Good, Sane, Base, Matched

\* `queue_persist` changes the persist barrier, the outputs and the ids only.
LEMMA QueuePersistFrame ==
    ASSUME NEW s, NEW h, NEW es, NEW cont, IsCore(s)
    PROVE  LET t == QueuePersist(s, h, es, cont)
           IN /\ Frame(s, t, {"fx", "seq", "pendingPersist"})
              /\ t.fx = Append(s.fx, PersistEffect(s, h, es, Nil))
              /\ t.seq = s.seq + 1
              /\ t.pendingPersist.id = s.seq + 1 /\ t.pendingPersist.cont = cont
              /\ (DOMAIN Nil = {} => t.pendingPersist # Nil)
<1> DEFINE t == QueuePersist(s, h, es, cont)
<1>1. Frame(s, t, {"fx", "seq", "pendingPersist"})
  BY Zenon DEF CoreFields, IsCore, Frame, QueuePersist, Emit
<1>2. /\ t.fx = Append(s.fx, PersistEffect(s, h, es, Nil)) /\ t.seq = s.seq + 1
      /\ t.pendingPersist = [id |-> NextId(s), cont |-> cont,
                             stable |-> IF es = << >> THEN 0 ELSE es[Len(es)].index]
  BY DEF CoreFields, IsCore, QueuePersist, Emit
<1>3. t.pendingPersist.id = s.seq + 1 /\ t.pendingPersist.cont = cont
      /\ DOMAIN t.pendingPersist # {}
  BY <1>2 DEF NextId
<1> QED BY <1>1, <1>2, <1>3, Zenon

\* Every id in use lies below the one that the next effect takes.
LEMMA IdsBelow ==
    ASSUME NEW n, NEW s, NEW dh, NEW r, Typed(n, s), Fresh(s, r),
           Matched(s, dh, Range(Queue(s, r)))
    PROVE  /\ s.seq \in Nat /\ s.seq + 1 \in Nat /\ s.seq <= s.seq + 1
           /\ s.seq < s.seq + 1 /\ s.seq + 1 <= s.seq + 1
           /\ \A e \in Range(Queue(s, r)) : e.id <= s.seq + 1 /\ e.id # s.seq + 1
           /\ \A c \in s.chunkReads : c.id <= s.seq + 1 /\ c.id # s.seq + 1
           /\ \A b \in Barriers(s) : b.id <= s.seq + 1 /\ b.id # s.seq + 1
<1>1. /\ s.seq \in Nat
      /\ \A e \in Range(Queue(s, r)) : e.id \in Nat /\ e.id <= s.seq
      /\ \A c \in s.chunkReads : c.id \in Nat /\ c.id <= s.seq
      /\ \A b \in Barriers(s) : b.id \in Nat /\ b.id <= s.seq
  BY Zenon DEF Typed, Fresh, Matched
<1>2. \A i, k \in Nat : i <= k => i <= k + 1 /\ i # k + 1
  OBVIOUS
<1>3. s.seq + 1 \in Nat /\ s.seq <= s.seq + 1 /\ s.seq < s.seq + 1 /\ s.seq + 1 <= s.seq + 1
  BY <1>1
<1> QED BY <1>1, <1>2, <1>3, Zenon

\* `queue_persist` of a prepared hard state: the persist is the one heavy effect, and
\* the barrier holds what the core has vowed to do once it is durable.
LEMMA PersistStep ==
    ASSUME NEW n, NEW s, NEW u, NEW h, NEW es, NEW cont, NEW dh, NEW r, NEW B,
           Setting, Good(n, s, dh, r, B), Idle(s, r), s.err = "Ok",
           Prepares(n, s, u, h, cont, B)
    PROVE  Fine(n, QueuePersist(u, h, es, cont), dh, r, B)
<1> DEFINE t == QueuePersist(u, h, es, cont)
           p == PersistEffect(u, h, es, Nil)
<1>1. /\ Typed(n, s) /\ IsSeq(r) /\ IsSeq(s.fx)
      /\ Matched(s, dh, Range(Queue(s, r)))
      /\ \A m \in s.out : Sound(n, m, B)
      /\ Synced(s, dh, Range(Queue(s, r))) /\ Fresh(s, r) /\ Waits(s, Queue(s, r))
  BY Zenon DEF Good, Sane, Base
<1>2. /\ IsCore(t) /\ t.hard = u.hard /\ t.role = u.role /\ t.votes = u.votes
      /\ t.progress = u.progress /\ t.err = u.err /\ t.stopped = u.stopped
      /\ t.out = u.out /\ t.chunkReads = u.chunkReads /\ t.pendingApply = u.pendingApply
      /\ t.local = u.local /\ t.store = u.store /\ t.installing = u.installing
  <2>1. IsCore(u)
    BY Zenon DEF Prepares
  <2>2. Frame(u, t, {"fx", "seq", "pendingPersist"})
    BY <2>1, QueuePersistFrame, Zenon
  <2> HIDE DEF t
  <2> QED BY <2>2, Zenon DEF Frame, CoreFields
<1>3. /\ t.fx = Append(u.fx, p) /\ t.seq = u.seq + 1
      /\ t.pendingPersist.id = u.seq + 1 /\ t.pendingPersist.cont = cont
      /\ t.pendingPersist # Nil
  <2>1. IsCore(u) /\ DOMAIN Nil = {}
    BY Zenon DEF Prepares, Setting
  <2> QED BY <2>1, QueuePersistFrame
<1>4. p.kind = "Persist" /\ p.snap = Nil /\ p.hard = h /\ p.id = u.seq + 1
  BY Zenon DEF PersistEffect, NextId
<1>5. /\ u.seq = s.seq /\ s.seq \in Nat /\ p.id \in Nat /\ s.seq < p.id /\ p.id = t.seq
      /\ t.seq \in Nat /\ s.seq <= t.seq /\ t.pendingPersist.id = t.seq
  <2>1. u.seq = s.seq /\ s.seq \in Nat
    BY <1>1, Zenon DEF Prepares, Fresh
  <2> HIDE DEF t, p
  <2> QED BY <1>3, <1>4, <2>1
<1> HIDE DEF t, p
<1>6. AsksFor(s, t, p)
  BY <1>3 DEF AsksFor, Prepares
<1>7. /\ IsSeq(t.fx) /\ (NoHeavy(Range(Queue(s, r))) => OneHeavy(Queue(t, r)))
      /\ Range(t.fx) = Range(s.fx) \cup {p}
      /\ Range(Queue(s, r)) = Range(r) \cup Range(s.fx)
      /\ Range(Queue(t, r)) = Range(Queue(s, r)) \cup {p}
  <2>1. IsSeq(r) /\ IsSeq(s.fx)
    BY <1>1
  <2> QED BY <2>1, <1>6, QueueGrowsByOne
<1>8. OneHeavy(Queue(t, r))
  BY <1>7 DEF Idle
<1>9. Same(dh, s.hard)
  BY <1>1 DEF Synced, Idle
<1>10. Heavy(p) /\ Protocol(p) /\ ~Incoming(p)
  BY <1>4, Zenon DEF Protocol, Heavy, Incoming
<1>11. Typed(n, t)
  <2>1. \A b \in Barriers(t) : b.id \in Nat
    BY <1>1, <1>2, <1>5 DEF Typed, Barriers, Prepares
  <2>2. Snaps(t)
    <3>1. Frame(u, t, {"fx", "seq", "pendingPersist"}) /\ Snaps(u)
      BY QueuePersistFrame, Zenon DEF Prepares, t
    <3>2. t.log = u.log /\ t.incoming = u.incoming /\ t.senders = u.senders
      BY <3>1, Zenon DEF Frame, CoreFields
    <3> QED BY <3>1, <3>2, <1>2, Zenon DEF Snaps
  <2> QED BY <2>1, <2>2, <1>1, <1>2, <1>3, Zenon DEF Typed, Prepares
<1>12. Tallied(n, t, B) /\ \A m \in t.out : Sound(n, m, B)
  BY <1>1, <1>2 DEF Prepares, Tallied
<1>13. Synced(t, dh, Range(Queue(t, r))) /\ t.err = "Ok"
  BY <1>2, <1>7, <1>10, Zenon DEF Synced, NoHeavy, Prepares
<1>14. \A b \in Barriers(t) : b = t.pendingPersist \/ b \in Barriers(s)
  BY <1>2 DEF Barriers, Prepares
<1>15. Fresh(t, r)
  <2>1. t.seq = s.seq + 1 /\ t.chunkReads = s.chunkReads
    BY <1>2, <1>3, Zenon DEF Prepares
  <2>2. /\ \A e \in Range(Queue(s, r)) : e.id <= t.seq
        /\ \A c \in t.chunkReads : c.id <= t.seq
        /\ \A b \in Barriers(s) : b.id <= t.seq
        /\ t.seq \in Nat /\ t.seq <= t.seq
    BY <2>1, <1>1, IdsBelow, Zenon
  <2> QED BY <2>2, <1>5, <1>7, <1>14, Zenon DEF Fresh
<1>16. ASSUME NEW e \in Range(Queue(s, r))
       PROVE  e.id \in Nat /\ Agree(t, e) /\ Pending(t, dh, e) /\ Promised(t, e)
  <2>1. e.id \in Nat /\ Agree(s, e) /\ ~Heavy(e) /\ e.id <= s.seq
    BY <1>1 DEF Matched, Fresh, Idle, NoHeavy
  <2>2. ~Protocol(e) /\ ~Incoming(e)
        /\ e.kind # "StoreSnapshotChunk" /\ e.kind # "InstallSnapshot"
    BY <2>1 DEF Heavy
  <2>3. ~IsFor(t.pendingPersist, e)
    BY <2>1, <1>5 DEF IsFor
  <2>4. Agree(t, e)
    BY <2>1, <2>2, <2>3, <1>2 DEF Agree, Prepares
  <2> QED BY <2>1, <2>2, <2>3, <2>4, Zenon DEF Pending, Promised
<1>17. p.id \in Nat /\ Agree(t, p) /\ Pending(t, dh, p) /\ Promised(t, p)
  <2>0. p.id = s.seq + 1 /\ t.chunkReads = s.chunkReads
    BY <1>2, <1>4, Zenon DEF Prepares
  <2>1. IsFor(t.pendingPersist, p)
    BY <1>3, <1>5 DEF IsFor
  <2>2. ~IsFor(t.store, p) /\ ~IsFor(t.installing, p) /\ ~IsFor(t.local, p)
    <3>1. \A b \in Barriers(s) : b.id # p.id
      BY <2>0, <1>1, IdsBelow, Zenon
    <3> QED BY <3>1, <1>2 DEF Barriers, IsFor, Prepares
  <2>3. \A c \in t.chunkReads : c.id # p.id
    BY <2>0, <1>1, IdsBelow, Zenon
  <2>4. Agree(t, p)
    BY <2>1, <2>2, <2>3, <1>4, <1>10 DEF Agree
  <2>5. Pending(t, dh, p)
    <3>1. CASE h = Nil
      BY <3>1, <1>2, <1>4, <1>9, <1>10, Zenon DEF Pending, Prepares, Same
    <3>2. CASE h # Nil
      BY <3>2, <1>2, <1>4, <1>9, <1>10, Zenon DEF Pending, Prepares, Same, Follows
    <3> QED BY <3>1, <3>2, Zenon
  <2>6. Promised(t, p)
    BY <1>2, <1>3, <1>4 DEF Promised, Prepares, Vow
  <2> QED BY <1>5, <2>4, <2>5, <2>6
<1>18. Matched(t, dh, Range(Queue(t, r)))
  BY <1>7, <1>16, <1>17 DEF Matched
<1>19. \A e \in Range(t.fx) : e.kind # "InstallSnapshot"
  BY <1>4, <1>7, Zenon DEF Idle, NoHeavy, Heavy
<1>20. Waits(t, Queue(t, r))
  <2>1. t.pendingApply = s.pendingApply
    BY <1>2, Zenon DEF Prepares
  <2> QED BY <2>1, <1>1, <1>6, WaitsGrowsByOne, Zenon
<1>21. Fine(n, t, dh, r, B)
  BY <1>1, <1>20, <1>7, <1>8, <1>11, <1>12, <1>13, <1>15, <1>18, <1>19
     DEF Fine, Good, Sane, Base
<1> QED BY <1>21 DEF t

\* A change that asks for nothing keeps the invariant.
LEMMA QuietStep ==
    ASSUME NEW n, NEW s, NEW t, NEW dh, NEW r, NEW B,
           Good(n, s, dh, r, B), Quiet(n, s, t, dh, r, B)
    PROVE  Good(n, t, dh, r, B) /\ Calm(s, t)
<1>1. IsSeq(s.fx) /\ Typed(n, s) /\ Fresh(s, r)
  BY DEF Good, Sane, Base
<1>2. PICK es : es = << >>
  OBVIOUS
<1>3. IsSeq(es) /\ Range(es) = {}
  BY <1>2, EmptyFacts
<1>4. Asks(s, t, es)
  <2>1. s.fx \o << >> = s.fx
    BY <1>1 DEF IsSeq
  <2> QED BY <2>1, <1>2 DEF Asks, Quiet
<1>5. t.seq \in Nat /\ s.seq <= t.seq
  <2>1. t.seq = s.seq /\ s.seq \in Nat
    BY <1>1, Zenon DEF Fresh, Quiet
  <2> QED BY <2>1
<1>6. Light(n, s, t, es, dh, r, B)
  BY <1>3, <1>4, <1>5 DEF Light, Quiet
<1>7. t.pendingApply \in {Nil, s.pendingApply}
  BY DEF Quiet
<1> QED BY <1>6, <1>7, LightStep

\* A change that asks for one light effect keeps the invariant.
LEMMA SingleStep ==
    ASSUME NEW n, NEW s, NEW t, NEW e, NEW dh, NEW r, NEW B,
           Good(n, s, dh, r, B), Single(n, s, t, e, B)
    PROVE  /\ Good(n, t, dh, r, B) /\ Gentle(s, t)
           /\ t.pendingApply = s.pendingApply => Calm(s, t)
<1>1. IsSeq(s.fx) /\ IsSeq(r) /\ Typed(n, s) /\ Fresh(s, r)
  BY DEF Good, Sane, Base
<1> USE <1>1
<1>2. IsSeq(One(e)) /\ Range(One(e)) = {e} /\ Asks(s, t, One(e))
  <2>1. AsksFor(s, t, e)
    BY DEF Single
  <2>2. IsSeq(r) /\ IsSeq(s.fx)
    OBVIOUS
  <2>3. IsSeq(One(e))
    BY <2>1, <2>2, QueueGrowsByOne, Zenon
  <2>4. Range(One(e)) = {e}
    BY DEF One, Range
  <2>5. Asks(s, t, One(e))
    BY <2>1, <2>2, QueueGrowsByOne, Zenon
  <2> QED BY <2>3, <2>4, <2>5
<1>3. /\ s.seq \in Nat /\ t.seq \in Nat /\ s.seq < t.seq /\ s.seq <= t.seq
      /\ t.seq = s.seq + 1 /\ t.seq <= t.seq
  <2>1. s.seq \in Nat /\ t.seq = s.seq + 1
    BY Zenon DEF Fresh, Single
  <2> QED BY <2>1
<1>4. Light(n, s, t, One(e), dh, r, B)
  <2>1. \A x \in Range(One(e)) : x = e
    BY <1>2, Zenon
  <2>2. e.id = t.seq
    BY <1>3, Zenon DEF Single
  <2>6. \/ t.pendingApply \in {Nil, s.pendingApply}
        \/ /\ t.pendingApply.id \in Nat /\ t.pendingApply.id <= t.seq
           /\ s.pendingPersist = Nil /\ t.err = "Ok"
           /\ \E x \in Range(One(e)) : Awaited(t, x)
    BY <1>2, <1>3, Zenon DEF Single, Awaited, IsFor
  <2>3. \A x \in Range(One(e)) : ~Heavy(x) /\ x.id \in Nat /\ s.seq < x.id /\ x.id <= t.seq
    BY <1>3, <2>1, <2>2, Zenon DEF Single
  <2>4. \/ t.local \in {Nil, s.local}
        \/ /\ t.local.id \in Nat /\ s.seq < t.local.id /\ t.local.id <= t.seq
           /\ t.local.phase \in {"Build", "PersistLocal", "Compact"}
           /\ {"id", "phase"} \subseteq DOMAIN t.local
           /\ \A x \in Range(One(e)) :
                 x.id = t.local.id =>
                     x.kind # "Apply" /\ (t.local.phase = "Build" => x.kind = "BuildSnapshot")
    BY <1>3, <2>1, Zenon DEF Single
  <2>5. DOMAIN t.progress \subseteq Peers(n)
    BY Zenon DEF Single, Typed
  <2> QED BY <1>2, <1>3, <2>2, <2>3, <2>4, <2>5, <2>6, Zenon DEF Light, Single
<1> QED BY <1>4, LightStep, Zenon
-----------------------------------------------------------------------------
(* The operators of the step itself *)

\* `send` puts sound messages out.
LEMMA SendGood ==
    ASSUME NEW n, NEW s, NEW ms, NEW dh, NEW r, NEW B,
           Good(n, s, dh, r, B), \A m \in ms : Sound(n, m, B)
    PROVE  Good(n, Send(s, ms), dh, r, B) /\ Calm(s, Send(s, ms))
<1> DEFINE t == Send(s, ms)
<1>1. Typed(n, s)
  BY DEF Good, Sane, Base
<1>2. Frame(s, t, {"out"}) /\ t.out = s.out \cup ms
  BY <1>1, Zenon DEF Frame, CoreFields, IsCore, Typed, Send
<1> HIDE DEF t
<1>3. Quiet(n, s, t, dh, r, B)
  BY <1>1, <1>2 DEF Frame, CoreFields, Quiet, Kept, Typed, Snaps
<1>4. Good(n, t, dh, r, B) /\ Calm(s, t)
  BY <1>3, QuietStep
<1> QED BY <1>4 DEF t

\* A failing step keeps the invariant if nothing is lost with the effects of the step.
LEMMA FailGood ==
    ASSUME NEW n, NEW s, NEW error, NEW dh, NEW r, NEW B,
           Good(n, s, dh, r, B), Settled(s, dh, r)
    PROVE  Good(n, Fail(s, error), dh, r, B) /\ Calm(s, Fail(s, error))
<1> DEFINE t == Fail(s, error)
<1>1. Typed(n, s)
  BY DEF Good, Sane, Base
<1>2. Frame(s, t, {"err"})
  BY <1>1, Zenon DEF Frame, CoreFields, IsCore, Typed, Fail
<1> HIDE DEF t
<1>3. Quiet(n, s, t, dh, r, B)
  BY <1>1, <1>2 DEF Frame, CoreFields, Quiet, Kept, Typed, Snaps
<1>4. Good(n, t, dh, r, B) /\ Calm(s, t)
  BY <1>3, QuietStep
<1> QED BY <1>4, Zenon DEF t

\* Clients, reads, applied index and the lease are no concern of elections.
LEMMA UnrelatedGood ==
    ASSUME NEW n, NEW s, NEW t, NEW dh, NEW r, NEW B,
           Good(n, s, dh, r, B), Frame(s, t, Unrelated)
    PROVE  Good(n, t, dh, r, B) /\ Calm(s, t) /\ t.err = s.err
<1>1. Typed(n, s)
  BY DEF Good, Sane, Base
<1>2. t.err = s.err
  BY Zenon DEF Frame, CoreFields, Unrelated
<1>3. Quiet(n, s, t, dh, r, B)
  BY <1>1, Zenon DEF Frame, CoreFields, Quiet, Kept, Typed, Snaps, Unrelated
<1> QED BY <1>2, <1>3, QuietStep, Zenon

\* Two gentle changes in a row.
LEMMA GentleTwice ==
    ASSUME NEW s, NEW t, NEW u, Gentle(s, t), Gentle(t, u)
    PROVE  Gentle(s, u)
BY Zenon DEF Gentle, Kept

\* Two calm changes in a row.
LEMMA CalmTwice ==
    ASSUME NEW s, NEW t, NEW u, Calm(s, t), Calm(t, u)
    PROVE  Calm(s, u)
BY DEF Calm, Gentle, Kept

\* Doing nothing is a calm change.
LEMMA CalmSame == \A s : Calm(s, s)
BY DEF Calm, Gentle, Kept

\* A gentle change leaves the core as idle, as synced and as fine as it was.
LEMMA GentleKeeps ==
    ASSUME NEW n, NEW s, NEW t, NEW dh, NEW r, NEW B, Gentle(s, t),
           Good(n, s, dh, r, B), Good(n, t, dh, r, B)
    PROVE  /\ Idle(s, r) => Idle(t, r)
           /\ Synced(s, dh, Range(r)) => Synced(t, dh, Range(r))
           /\ Fine(n, s, dh, r, B) => Fine(n, t, dh, r, B)
<1>1. IsSeq(s.fx) /\ IsSeq(t.fx) /\ IsSeq(r)
  BY DEF Good, Sane, Base
<1>2. Range(r \o s.fx) = Range(r) \cup Range(s.fx)
  BY <1>1, ConcatFacts
<1>3. Range(r \o t.fx) = Range(r) \cup Range(t.fx)
  BY <1>1, ConcatFacts
<1>4. Range(Queue(s, r)) = Range(r) \cup Range(s.fx)
      /\ Range(Queue(t, r)) = Range(r) \cup Range(t.fx)
  BY <1>2, <1>3 DEF Queue
<1>5. Idle(s, r) => Idle(t, r)
  BY <1>4 DEF Idle, NoHeavy, Gentle
<1>6. Synced(s, dh, Range(r)) => Synced(t, dh, Range(r))
  BY DEF Synced, Gentle, Kept
<1>7. Fine(n, s, dh, r, B) => Fine(n, t, dh, r, B)
  BY DEF Fine, Gentle, Heavy
<1> QED BY <1>5, <1>6, <1>7, Zenon

\* A calm change leaves it as settled too.
LEMMA CalmKeeps ==
    ASSUME NEW n, NEW s, NEW t, NEW dh, NEW r, NEW B, Calm(s, t),
           Good(n, s, dh, r, B), Good(n, t, dh, r, B)
    PROVE  /\ Idle(s, r) => Idle(t, r)
           /\ Settled(s, dh, r) => Settled(t, dh, r)
           /\ Synced(s, dh, Range(r)) => Synced(t, dh, Range(r))
           /\ Waits(s, r) => Waits(t, r)
           /\ Fine(n, s, dh, r, B) => Fine(n, t, dh, r, B)
<1>1. Gentle(s, t)
  BY DEF Calm
<1>2. Waits(s, r) => Waits(t, r)
  BY Zenon DEF Waits, Awaited, Calm
<1> QED BY <1>1, <1>2, GentleKeeps, Zenon DEF Settled

\* An idle core agrees with its disk, and loses nothing by failing.
LEMMA IdleSynced ==
    ASSUME NEW n, NEW s, NEW dh, NEW r, NEW B, Good(n, s, dh, r, B), Idle(s, r)
    PROVE  Same(dh, s.hard) /\ Synced(s, dh, Range(r)) /\ Fine(n, s, dh, r, B)
<1>1. IsSeq(s.fx) /\ IsSeq(r) /\ Synced(s, dh, Range(Queue(s, r)))
  BY DEF Good, Sane, Base
<1>2. Same(dh, s.hard)
  BY <1>1 DEF Synced, Idle
<1>3. Range(r \o s.fx) = Range(r) \cup Range(s.fx)
  BY <1>1, ConcatFacts
<1>4. \A e \in Range(s.fx) : ~Heavy(e)
  BY <1>3 DEF Idle, NoHeavy, Queue
<1> QED BY <1>2, <1>4 DEF Synced, Fine, Heavy

\* Reads of snapshot chunks, numbered one after the other from seq + 1.
LEMMA NumberedReads ==
    ASSUME NEW q \in Nat, NEW c \in Nat, NEW es,
           es = [k \in 1..c |-> es[k]],
           \A k \in 1..c : es[k].kind = "ReadSnapshotChunk" /\ es[k].id = q + k
    PROVE  /\ IsSeq(es)
           /\ \A e \in Range(es) :
                 ~Heavy(e) /\ e.id \in Nat /\ q < e.id /\ e.id <= q + c
                    /\ e.kind = "ReadSnapshotChunk"
<1>1. ASSUME NEW e \in Range(es)
      PROVE  ~Heavy(e) /\ e.id \in Nat /\ q < e.id /\ e.id <= q + c
                /\ e.kind = "ReadSnapshotChunk"
  <2>1. PICK k \in 1..c : e = es[k]
    BY <1>1 DEF Range
  <2>2. e.kind = "ReadSnapshotChunk" /\ e.id = q + k
    BY <2>1
  <2>3. ~Heavy(e)
    BY <2>2 DEF Heavy, Protocol, Incoming
  <2> QED BY <2>2, <2>3
<1>2. es \in [1..c -> Range(es)]
  BY DEF Range
<1> QED BY <1>1, <1>2 DEF IsSeq

\* `broadcast` sends a message that grants nothing to every peer.
LEMMA BroadcastGood ==
    ASSUME NEW n, NEW s, NEW m, NEW dh, NEW r, NEW B, Good(n, s, dh, r, B),
           {"to", "from", "term", "kind"} \subseteq DOMAIN m, m.from = n, m.term \in Nat,
           m.kind \notin {"VoteResponse", "InstallSnapshot"}
    PROVE  Good(n, Broadcast(n, s, m), dh, r, B) /\ Calm(s, Broadcast(n, s, m))
<1> DEFINE ms == {[m EXCEPT !.to = p] : p \in Peers(n)}
<1>1. \A x \in ms : Sound(n, x, B)
  <2> SUFFICES ASSUME NEW p \in Peers(n) PROVE Sound(n, [m EXCEPT !.to = p], B)
    OBVIOUS
  <2>1. /\ [m EXCEPT !.to = p].to = p /\ [m EXCEPT !.to = p].from = m.from
        /\ [m EXCEPT !.to = p].term = m.term /\ [m EXCEPT !.to = p].kind = m.kind
    OBVIOUS
  <2> QED BY <2>1 DEF Sound
<1> HIDE DEF ms
<1>2. Good(n, Send(s, ms), dh, r, B) /\ Calm(s, Send(s, ms))
  BY <1>1, SendGood, Zenon
<1> QED BY <1>2 DEF Broadcast, ms
-----------------------------------------------------------------------------
(* Changes of role and term *)

\* A change of civil fields that keeps the hard state is a change of role.
LEMMA CivilShift ==
    ASSUME NEW n, NEW s, NEW t, NEW B, Typed(n, s), Frame(s, t, Civil), t.hard = s.hard,
           Snapped(t.log), DOMAIN t.progress \subseteq Peers(n), Tallied(n, t, B)
    PROVE  Shift(n, s, t, B)
BY Zenon DEF Typed, Frame, Civil, CoreFields, Shift, Snaps

\* A change of civil fields with a hard state that follows is prepared to be persisted.
LEMMA CivilPrepares ==
    ASSUME NEW n, NEW s, NEW u, NEW h, NEW cont, NEW B,
           Typed(n, s), Frame(s, u, Civil),
           Snapped(u.log), DOMAIN u.progress \subseteq Peers(n), Tallied(n, u, B),
           Hard(u.hard), Vow(u, h, cont),
           \/ h = Nil /\ Same(u.hard, s.hard)
           \/ h # Nil /\ Same(h, u.hard) /\ Follows(u.hard, s.hard),
           IsContinuation(n, cont)
    PROVE  Prepares(n, s, u, h, cont, B)
BY Zenon DEF Typed, Frame, Civil, CoreFields, Prepares, Snaps

\* What a clear core offers to a handler: above all, disk and core agree.
LEMMA ClearFacts ==
    ASSUME NEW n, NEW s, NEW dh, NEW r, NEW B, Clear(n, s, dh, r, B)
    PROVE  /\ Typed(n, s) /\ Tallied(n, s, B) /\ Same(dh, s.hard)
           /\ Settled(s, dh, r) /\ Fine(n, s, dh, r, B)
           /\ Snapped(s.log) /\ Hard(s.hard) /\ DOMAIN s.progress \subseteq Peers(n)
<1>1. Good(n, s, dh, r, B) /\ Idle(s, r)
  BY DEF Clear
<1>2. Same(dh, s.hard) /\ Synced(s, dh, Range(r)) /\ Fine(n, s, dh, r, B)
  BY <1>1, IdleSynced, Zenon
<1>3. Typed(n, s) /\ Tallied(n, s, B)
  BY <1>1 DEF Good, Sane, Base
<1>4. Settled(s, dh, r)
  BY <1>2, Zenon DEF Clear, Settled
<1> QED BY <1>2, <1>3, <1>4, Zenon DEF Typed, Snaps

\* A step that is calm so far and met no error leaves the core clear.
LEMMA CalmClear ==
    ASSUME NEW n, NEW s, NEW t, NEW dh, NEW r, NEW B, Clear(n, s, dh, r, B),
           Good(n, t, dh, r, B), Calm(s, t)
    PROVE  /\ Idle(t, r) /\ Settled(t, dh, r) /\ Fine(n, t, dh, r, B)
           /\ t.err = "Ok" => Clear(n, t, dh, r, B)
<1>1. Good(n, s, dh, r, B) /\ Idle(s, r)
  BY DEF Clear
<1>2. Idle(t, r) /\ Waits(t, r)
  BY <1>1, CalmKeeps, Zenon DEF Clear
<1> QED BY <1>2, IdleSynced, Zenon DEF Clear, Settled

\* A gentle change of a clear core loses nothing but the core's right to fail.
LEMMA GentleFine ==
    ASSUME NEW n, NEW s, NEW t, NEW dh, NEW r, NEW B, Clear(n, s, dh, r, B),
           Good(n, t, dh, r, B), Gentle(s, t)
    PROVE  Fine(n, t, dh, r, B)
<1>1. Good(n, s, dh, r, B) /\ Fine(n, s, dh, r, B)
  BY ClearFacts, Zenon DEF Clear
<1> QED BY <1>1, GentleKeeps, Zenon

\* A change of role leaves the core clear.
LEMMA ShiftClear ==
    ASSUME NEW n, NEW s, NEW t, NEW dh, NEW r, NEW B, Clear(n, s, dh, r, B),
           Shift(n, s, t, B)
    PROVE  Clear(n, t, dh, r, B)
<1>1. Good(n, s, dh, r, B) /\ Idle(s, r) /\ s.err = "Ok"
  BY DEF Clear
<1>2. Good(n, t, dh, r, B) /\ Idle(t, r)
  BY <1>1, RoleStep
<1>3. Waits(t, r)
  BY Zenon DEF Clear, Waits, Awaited, Shift
<1> QED BY <1>1, <1>2, <1>3 DEF Clear, Shift

\* A clear core may persist.
LEMMA PersistClear ==
    ASSUME NEW n, NEW s, NEW u, NEW h, NEW es, NEW cont, NEW dh, NEW r, NEW B,
           Setting, Clear(n, s, dh, r, B), Prepares(n, s, u, h, cont, B)
    PROVE  Fine(n, QueuePersist(u, h, es, cont), dh, r, B)
BY PersistStep DEF Clear

\* A clear core may fail.
LEMMA FailClear ==
    ASSUME NEW n, NEW s, NEW error, NEW dh, NEW r, NEW B, Clear(n, s, dh, r, B)
    PROVE  Fine(n, Fail(s, error), dh, r, B)
<1>1. Good(n, s, dh, r, B) /\ Settled(s, dh, r)
  BY ClearFacts DEF Clear
<1>2. Good(n, Fail(s, error), dh, r, B) /\ Calm(s, Fail(s, error))
  BY <1>1, FailGood
<1> QED BY <1>2, CalmClear

\* A clear core may answer.
LEMMA SendClear ==
    ASSUME NEW n, NEW s, NEW m, NEW dh, NEW r, NEW B, Clear(n, s, dh, r, B),
           Sound(n, m, B)
    PROVE  Fine(n, Send(s, {m}), dh, r, B)
<1>1. Good(n, s, dh, r, B) /\ \A x \in {m} : Sound(n, x, B)
  BY DEF Clear
<1>2. Good(n, Send(s, {m}), dh, r, B) /\ Calm(s, Send(s, {m}))
  BY <1>1, SendGood
<1> QED BY <1>2, CalmClear
-----------------------------------------------------------------------------
(* Snapshots received *)

\* A heavy effect of an incoming snapshot keeps the invariant.
LEMMA HeavyStep ==
    ASSUME NEW n, NEW s, NEW t, NEW e, NEW dh, NEW r, NEW B,
           Between(n, s, dh, r, B), Raises(n, s, t, e, dh)
    PROVE  /\ Good(n, t, dh, r, B) /\ t.err = "Ok"
           /\ Range(t.fx) = Range(s.fx) \cup {e}
<1>1. /\ Typed(n, s) /\ IsSeq(r) /\ IsSeq(s.fx) /\ Tallied(n, s, B)
      /\ Matched(s, dh, Range(Queue(s, r)))
      /\ \A m \in s.out : Sound(n, m, B)
      /\ Fresh(s, r) /\ Idle(s, r) /\ s.err = "Ok" /\ Waits(s, Queue(s, r))
  BY Zenon DEF Between, Base
<1>2. /\ Typed(n, t) /\ AsksFor(s, t, e) /\ t.seq = s.seq + 1 /\ e.id = s.seq + 1
      /\ Heavy(e) /\ ~Protocol(e) /\ Pending(t, dh, e)
      /\ t.hard = s.hard /\ t.role = s.role /\ t.votes = s.votes /\ t.err = s.err
      /\ t.out = s.out /\ t.chunkReads = s.chunkReads /\ t.local = s.local
      /\ t.pendingPersist = s.pendingPersist /\ t.pendingApply = s.pendingApply
  BY Zenon DEF Raises
<1>3. /\ IsSeq(t.fx) /\ (NoHeavy(Range(Queue(s, r))) => OneHeavy(Queue(t, r)))
      /\ Range(t.fx) = Range(s.fx) \cup {e}
      /\ Range(Queue(t, r)) = Range(Queue(s, r)) \cup {e}
  <2>1. IsSeq(r) /\ IsSeq(s.fx) /\ AsksFor(s, t, e)
    BY <1>1, <1>2, Zenon
  <2> QED BY <2>1, QueueGrowsByOne
<1>4. OneHeavy(Queue(t, r)) /\ Synced(t, dh, Range(Queue(t, r)))
  BY <1>1, <1>2, <1>3, Zenon DEF Idle, Synced, NoHeavy
<1>5. /\ t.seq \in Nat /\ e.id \in Nat /\ e.id <= t.seq
      /\ \A x \in Range(Queue(s, r)) : x.id <= t.seq /\ x.id # e.id
      /\ \A c \in t.chunkReads : c.id <= t.seq /\ c.id # e.id
      /\ \A b \in Barriers(s) : b.id <= t.seq /\ b.id # e.id
  BY <1>1, <1>2, IdsBelow, Zenon
<1>6. Tallied(n, t, B) /\ \A m \in t.out : Sound(n, m, B)
  BY <1>1, <1>2, Zenon DEF Tallied
<1>7. \A b \in Barriers(t) : b \in Barriers(s) \/ b.id = e.id
  BY <1>2, Zenon DEF Barriers, Raises
<1>8. Fresh(t, r)
  BY <1>3, <1>5, <1>7, Zenon DEF Fresh
<1>9. ASSUME NEW x \in Range(Queue(s, r))
      PROVE  x.id \in Nat /\ Agree(t, x) /\ Pending(t, dh, x) /\ Promised(t, x)
  <2>1. /\ x.id \in Nat /\ Agree(s, x) /\ Promised(s, x) /\ ~Heavy(x) /\ x.id # e.id
    BY <1>1, <1>5, Zenon DEF Matched, Idle, NoHeavy
  <2>2. ~Protocol(x) /\ ~Incoming(x)
        /\ x.kind # "StoreSnapshotChunk" /\ x.kind # "InstallSnapshot"
    BY <2>1, Zenon DEF Heavy
  <2>3. ~IsFor(t.store, x) /\ ~IsFor(t.pendingPersist, x)
    BY <1>2, <2>1, <2>2, Zenon DEF Agree, IsFor, Raises
  <2>4. /\ ~(IsFor(t.installing, x) /\ t.installing.phase = "PersistIncoming")
        /\ ~(IsFor(t.installing, x) /\ t.installing.phase = "Install")
    BY <2>1, <2>2, Zenon DEF Agree, IsFor, Raises
  <2>5. Agree(t, x)
    BY <1>2, <2>1, <2>2, <2>3, <2>4, Zenon DEF Agree
  <2> QED BY <2>1, <2>2, <2>3, <2>5, Zenon DEF Pending, Promised
<1>10. Agree(t, e) /\ Promised(t, e)
  <2>1. ~IsFor(t.pendingPersist, e) /\ ~IsFor(t.local, e)
    BY <1>2, <1>5, Zenon DEF Barriers, IsFor
  <2> QED BY <2>1, <1>2, <1>5, Zenon DEF Agree, Promised, Raises
<1>11. Matched(t, dh, Range(Queue(t, r)))
  BY <1>2, <1>3, <1>5, <1>9, <1>10, Zenon DEF Matched
<1>12. Waits(t, Queue(t, r))
  BY <1>1, <1>2, WaitsGrowsByOne, Zenon
<1>13. Base(n, t, dh, r, B)
  BY <1>1, <1>2, <1>3, <1>4, <1>6, <1>11, <1>12, Zenon DEF Base
<1> QED BY <1>1, <1>2, <1>3, <1>4, <1>8, <1>13, Zenon DEF Good, Sane

\* A barrier may fall once nothing heavy is outstanding.
LEMMA DropClear ==
    ASSUME NEW n, NEW s, NEW t, NEW dh, NEW r, NEW B, Clear(n, s, dh, r, B),
           Frame(s, t, {"pendingPersist", "store"}),
           t.pendingPersist \in {Nil, s.pendingPersist}, t.store \in {Nil, s.store}
    PROVE  Clear(n, t, dh, r, B)
<1>1. /\ Typed(n, s) /\ IsSeq(r) /\ IsSeq(s.fx) /\ Tallied(n, s, B)
      /\ Matched(s, dh, Range(Queue(s, r))) /\ OneHeavy(Queue(s, r))
      /\ \A m \in s.out : Sound(n, m, B)
      /\ Fresh(s, r) /\ Idle(s, r) /\ s.err = "Ok"
      /\ Synced(s, dh, Range(Queue(s, r))) /\ Waits(s, r) /\ Waits(s, Queue(s, r))
  BY Zenon DEF Clear, Good, Sane, Base
<1> USE <1>1
<1>2. /\ t.hard = s.hard /\ t.role = s.role /\ t.votes = s.votes /\ t.err = s.err
      /\ t.out = s.out /\ t.chunkReads = s.chunkReads /\ t.local = s.local
      /\ t.fx = s.fx /\ t.seq = s.seq /\ t.pendingApply = s.pendingApply
      /\ t.installing = s.installing /\ IsCore(t) /\ t.progress = s.progress
      /\ t.stopped = s.stopped /\ t.log = s.log /\ t.incoming = s.incoming
      /\ t.senders = s.senders
  BY DEF Frame, CoreFields
<1> USE <1>2
<1>3. Queue(t, r) = Queue(s, r)
  BY Zenon DEF Queue
<1> USE <1>3
<1>4. Barriers(t) \subseteq Barriers(s)
  BY Zenon DEF Barriers
<1>5. Typed(n, t)
  <2>1. Snaps(t)
    BY Zenon DEF Typed, Snaps
  <2>2. \A b \in Barriers(t) : b.id \in Nat
    BY <1>4, Zenon DEF Typed
  <2> QED BY <2>1, <2>2, Zenon DEF Typed
<1>6. Fresh(t, r)
  BY <1>4, Zenon DEF Fresh
<1>7. ASSUME NEW x \in Range(Queue(s, r))
      PROVE  x.id \in Nat /\ Agree(t, x) /\ Pending(t, dh, x) /\ Promised(t, x)
  <2>1. x.id \in Nat /\ Agree(s, x) /\ ~Heavy(x)
    BY Zenon DEF Matched, Idle, NoHeavy
  <2> USE <2>1
  <2>2. ~Protocol(x) /\ ~Incoming(x)
        /\ x.kind # "StoreSnapshotChunk" /\ x.kind # "InstallSnapshot"
    BY Zenon DEF Heavy
  <2> USE <2>2
  <2>3. ~IsFor(t.store, x) /\ ~IsFor(t.pendingPersist, x)
    BY Zenon DEF Agree, IsFor
  <2>4. Agree(t, x)
    BY <2>3, Zenon DEF Agree
  <2> QED BY <2>3, <2>4, Zenon DEF Pending, Promised
<1>8. Matched(t, dh, Range(Queue(t, r)))
  BY <1>7, Zenon DEF Matched
<1>9. Tallied(n, t, B) /\ \A m \in t.out : Sound(n, m, B)
  BY Zenon DEF Tallied
<1>10. Synced(t, dh, Range(Queue(t, r))) /\ Idle(t, r) /\ t.err = "Ok"
  BY Zenon DEF Synced, Idle
<1>11. Waits(t, r) /\ Waits(t, Queue(t, r))
  BY Zenon DEF Waits, Awaited
<1> QED BY <1>5, <1>6, <1>8, <1>9, <1>10, <1>11, Zenon DEF Clear, Good, Sane, Base
-----------------------------------------------------------------------------
(* The end of a step *)

\* A step that succeeds keeps its effects.
LEMMA DrainedAtRest ==
    ASSUME NEW n, NEW t, NEW dh, NEW r, NEW B, Good(n, t, dh, r, B)
    PROVE  Ended(n, t, dh, r, B)
<1> DEFINE u == Drained(t)
           q == r \o t.fx
<1>1. /\ Typed(n, t) /\ IsSeq(r) /\ IsSeq(t.fx) /\ Tallied(n, t, B)
      /\ Matched(t, dh, Range(q)) /\ OneHeavy(q) /\ Synced(t, dh, Range(q))
      /\ Waits(t, q)
      /\ \A m \in t.out : Sound(n, m, B)
      /\ t.seq \in Nat /\ \A e \in Range(q) : e.id <= t.seq
      /\ \A c \in t.chunkReads : c.id <= t.seq
      /\ \A b \in Barriers(t) : b.id <= t.seq
  BY DEF Good, Sane, Base, Queue, Fresh
<1> USE <1>1
<1>2. Frame(t, u, {"out", "fx", "res", "err", "seq"})
  BY Zenon DEF Frame, CoreFields, IsCore, Typed, Drained
<1> USE <1>2
<1>3. u.out = {} /\ u.fx = << >> /\ u.err = "Ok"
  BY Zenon DEF Typed, IsCore, CoreFields, Drained
<1> USE <1>3
<1>4. IsSeq(q)
  BY ConcatFacts, Zenon
<1>5. Queue(u, q) = q
  <2> HIDE DEF u, q
  <2> QED BY <1>3, <1>4, NothingAsked, Zenon
<1> HIDE DEF u, q
<1>6. Typed(n, u)
  BY Zenon DEF Frame, CoreFields, Typed, Snaps, Barriers
<1>7. Tallied(n, u, B)
  BY Zenon DEF Frame, CoreFields, Tallied
<1>8. /\ u.pendingPersist = t.pendingPersist /\ u.store = t.store /\ u.local = t.local
      /\ u.installing = t.installing /\ u.chunkReads = t.chunkReads /\ u.hard = t.hard
      /\ u.role = t.role /\ u.votes = t.votes /\ u.pendingApply = t.pendingApply
  BY Zenon DEF Frame, CoreFields
<1>9. Matched(u, dh, Range(q))
  <2>1. \A e : Agree(t, e) => Agree(u, e)
    BY <1>8, Zenon DEF Agree
  <2>2. \A e : Pending(t, dh, e) => Pending(u, dh, e)
    BY <1>8, Zenon DEF Pending
  <2>3. \A e : Promised(t, e) => Promised(u, e)
    BY <1>8, Zenon DEF Promised, Vow
  <2> QED BY <2>1, <2>2, <2>3, Zenon DEF Matched
<1>10. Synced(u, dh, Range(q)) /\ Waits(u, q)
  BY <1>8, Zenon DEF Synced, Waits, Awaited
<1>11. Base(n, u, dh, q, B)
  BY <1>4, <1>5, <1>6, <1>7, <1>9, <1>10, EmptyFacts, Zenon DEF Base
<1>12. Sane(n, u, dh, q, B)
  BY <1>11, <1>10, <1>5, Zenon DEF Sane
<1>13. IsCore(u) /\ Hard(u.hard) /\ u.stopped \in BOOLEAN
  BY <1>6, Zenon DEF Typed
<1>14. Limited(u, q)
  <2>1. Barriers(u) = Barriers(t) /\ u.chunkReads = t.chunkReads
    BY Zenon DEF Frame, CoreFields, Barriers
  <2> QED BY <2>1, Zenon DEF Limited
<1> QED BY <1>7, <1>12, <1>13, <1>14, Zenon DEF Ended, AtRest, u, q

\* A step that fails drops its effects.
LEMMA AbortAtRest ==
    ASSUME NEW n, NEW s, NEW dh, NEW r, NEW B, Good(n, s, dh, r, B),
           Settled(s, dh, r)
    PROVE  Ended(n, Abort(s), dh, r, B)
<1> DEFINE t == Abort(s)
<1>1. /\ Typed(n, s) /\ IsSeq(r) /\ IsSeq(s.fx) /\ Tallied(n, s, B)
      /\ Matched(s, dh, Range(Queue(s, r))) /\ OneHeavy(Queue(s, r)) /\ Fresh(s, r)
  BY Zenon DEF Good, Sane, Base
<1>2. Frame(s, t, {"out", "fx", "res", "stopped"})
  BY <1>1, Zenon DEF Frame, CoreFields, IsCore, Typed, Abort
<1>3. t.out = {} /\ t.fx = << >> /\ t.stopped \in BOOLEAN
  BY <1>1 DEF Typed, IsCore, CoreFields, Abort
<1> HIDE DEF t
<1>4. Tallied(n, t, B)
  BY <1>1, <1>2 DEF Frame, CoreFields, Tallied
<1>5. Queue(t, r) = r
  <2>1. PICK S : r \in Seq(S)
    BY <1>1 DEF IsSeq
  <2> QED BY <1>3, <2>1 DEF Queue
<1>6. /\ t.pendingPersist = s.pendingPersist /\ t.store = s.store /\ t.local = s.local
      /\ t.installing = s.installing /\ t.chunkReads = s.chunkReads /\ t.hard = s.hard
      /\ t.role = s.role /\ t.votes = s.votes /\ t.pendingApply = s.pendingApply
      /\ t.seq = s.seq
  BY <1>2, Zenon DEF Frame, CoreFields
<1>7. Typed(n, t)
  BY <1>1, <1>2, <1>3, Zenon DEF Frame, CoreFields, Typed, Snaps, Barriers
<1>8. Range(r) \subseteq Range(Queue(s, r))
  BY <1>1, ConcatFacts, Zenon DEF Queue
<1>9. Matched(t, dh, Range(r))
  <2>1. \A e : Agree(s, e) => Agree(t, e)
    BY <1>6, Zenon DEF Agree
  <2>2. \A e : Pending(s, dh, e) => Pending(t, dh, e)
    BY <1>6, Zenon DEF Pending
  <2>3. \A e : Promised(s, e) => Promised(t, e)
    BY <1>6, Zenon DEF Promised, Vow
  <2> QED BY <2>1, <2>2, <2>3, <1>1, <1>8, Zenon DEF Matched
<1>10. OneHeavy(r)
  <2> SUFFICES ASSUME NEW j \in DOMAIN r, NEW k \in DOMAIN r, Heavy(r[j]), Heavy(r[k])
               PROVE  j = k
    BY DEF OneHeavy
  <2>1. PICK q : q = Queue(s, r)
    BY Zenon
  <2>2. /\ j \in 1..Len(r) /\ k \in 1..Len(r) /\ Len(r) \in Nat /\ Len(s.fx) \in Nat
        /\ DOMAIN q = 1..(Len(r) + Len(s.fx))
    BY <1>1, <2>1, ConcatFacts, Zenon DEF Queue
  <2>3. j \in DOMAIN q /\ k \in DOMAIN q
    BY <2>2
  <2>4. \A i \in 1..(Len(r) + Len(s.fx)) :
           q[i] = IF i <= Len(r) THEN r[i] ELSE s.fx[i - Len(r)]
    BY <1>1, <2>1, ConcatFacts, Zenon DEF Queue
  <2>5. q[j] = r[j] /\ q[k] = r[k]
    BY <2>2, <2>3, <2>4
  <2> QED BY <1>1, <2>1, <2>3, <2>5 DEF OneHeavy
<1>11. Synced(t, dh, Range(r)) /\ Waits(t, r)
  BY <1>6, Zenon DEF Settled, Synced, Waits, Awaited
<1>12. Fresh(t, r)
  BY <1>1, <1>5, <1>6, <1>8, Zenon DEF Fresh, Barriers
<1>13. Base(n, t, dh, r, B)
  BY <1>1, <1>3, <1>4, <1>5, <1>7, <1>9, <1>10, <1>11, EmptyFacts DEF Base
<1>14. Good(n, t, dh, r, B)
  BY <1>5, <1>11, <1>12, <1>13 DEF Good, Sane, Settled
<1> QED BY <1>14, DrainedAtRest, Zenon DEF t

\* Some errors stop the core, and a step that stops it may have lost anything.
LEMMA StopAtRest ==
    ASSUME NEW n, NEW s, NEW dh, NEW r, NEW B, Typed(n, s), Tallied(n, s, B),
           s.err \in {"StateMachine", "Storage", "Invariant", "Panic"}
    PROVE  Ended(n, Abort(s), dh, r, B)
<1> DEFINE t == Abort(s)
           u == Drained(t)
<1>1. Frame(s, t, {"out", "fx", "res", "stopped"})
  BY Zenon DEF Frame, CoreFields, IsCore, Typed, Abort
<1> USE <1>1
<1>2. t.out = {} /\ t.fx = << >> /\ t.stopped = TRUE
  BY Zenon DEF Typed, IsCore, CoreFields, Abort
<1> HIDE DEF t
<1>3. Frame(t, u, {"out", "fx", "res", "err", "seq"})
  BY Zenon DEF Frame, CoreFields, IsCore, Drained
<1>4. u.out = {} /\ u.fx = << >> /\ u.err = "Ok"
  BY DEF Frame, IsCore, CoreFields, Drained
<1> HIDE DEF u
<1>5. /\ IsCore(u) /\ u.stopped = TRUE /\ u.hard = s.hard /\ u.role = s.role
      /\ u.votes = s.votes /\ t.hard = s.hard /\ t.role = s.role /\ t.votes = s.votes
  BY <1>2, <1>3, Zenon DEF Frame, CoreFields
<1> USE <1>5
<1>6. Tallied(n, u, B) /\ Tallied(n, t, B)
  BY Zenon DEF Tallied
<1>7. Hard(u.hard)
  BY DEF Typed
<1> QED BY <1>2, <1>4, <1>6, <1>7, Zenon DEF Ended, AtRest, u, t
-----------------------------------------------------------------------------
(* The oldest effect of the queue is reported *)

\* Nothing that rests on durable votes is lost when more votes become durable.
LEMMA MoreVotes ==
    ASSUME NEW n, NEW s, NEW B, NEW C, Setting, B \subseteq C
    PROVE  /\ Tallied(n, s, B) => Tallied(n, s, C)
           /\ \A m : Sound(n, m, B) => Sound(n, m, C)
           /\ \A t, c : Backed(B, t, c) => Backed(C, t, c)
<1>1. ASSUME NEW t, NEW c, Backed(B, t, c) PROVE Backed(C, t, c)
  <2> DEFINE V == Voters(B, t, c)
             W == Voters(C, t, c)
  <2>1. V \subseteq W /\ W \subseteq Node
    BY DEF Voters
  <2> HIDE DEF V, W
  <2>2. /\ Cardinality(V) \in Nat /\ Cardinality(W) \in Nat /\ Cardinality(Node) \in Nat
        /\ Cardinality(V) <= Cardinality(W)
    BY <2>1 DEF Setting, Countable
  <2>3. Quorum \in Int
    BY <2>2 DEF Quorum
  <2> QED BY <1>1, <2>2, <2>3 DEF Backed, V, W
<1> QED BY <1>1 DEF Tallied, Sound

\* A quorum of grants, each of them durable, is a quorum of votes.
LEMMA QuorumBacked ==
    ASSUME NEW n, NEW s, NEW B, Setting, Tallied(n, s, B), n \in Node,
           s.role = "Candidate", HasQuorum(s.votes), <<n, s.hard.term, n>> \in B
    PROVE  Backed(B, s.hard.term, n)
<1> DEFINE G == s.votes.granted
           V == Voters(B, s.hard.term, n)
<1>1. G \subseteq V /\ V \subseteq Node
  BY DEF Tallied, Voters
<1> HIDE DEF G, V
<1>2. /\ Cardinality(G) <= Cardinality(V) /\ Cardinality(G) \in Nat /\ Cardinality(V) \in Nat
      /\ Cardinality(Node) \in Nat
  BY <1>1 DEF Setting, Countable
<1>3. Quorum \in Nat
  BY <1>2 DEF Quorum
<1>4. Cardinality(G) >= Quorum
  BY DEF HasQuorum, G
<1>5. Cardinality(V) >= Quorum
  BY <1>2, <1>3, <1>4
<1> QED BY <1>5 DEF Backed, V

\* The oldest effect of a queue is one of it; if it is heavy the rest are light.
LEMMA HeadFacts ==
    ASSUME NEW q, IsSeq(q), q # << >>
    PROVE  /\ IsSeq(Tail(q)) /\ Range(q) = {Head(q)} \cup Range(Tail(q))
           /\ OneHeavy(q) => OneHeavy(Tail(q))
           /\ OneHeavy(q) /\ Heavy(Head(q)) => NoHeavy(Range(Tail(q)))
<1>1. PICK S : q \in Seq(S)
  BY DEF IsSeq
<1> DEFINE r == Tail(q)
<1>2. /\ Len(q) \in Nat \ {0} /\ DOMAIN q = 1..Len(q)
      /\ r \in Seq(S) /\ Len(r) = Len(q) - 1 /\ DOMAIN r = 1..Len(r)
      /\ \A i \in 1..Len(r) : r[i] = q[i + 1]
      /\ Head(q) = q[1]
  BY <1>1
<1> USE <1>2
<1> HIDE DEF r
<1>3. Range(q) = {Head(q)} \cup Range(r)
  <2>1. ASSUME NEW i \in DOMAIN q PROVE q[i] \in {Head(q)} \cup Range(r)
    <3>1. CASE i = 1
      BY <3>1
    <3>2. CASE i # 1
      <4>1. i - 1 \in 1..Len(r) /\ (i - 1) + 1 = i
        BY <3>2
      <4>2. r[i - 1] = q[i]
        BY <4>1
      <4> QED BY <4>1, <4>2 DEF Range
    <3> QED BY <3>1, <3>2
  <2>2. ASSUME NEW i \in DOMAIN r PROVE r[i] \in Range(q)
    <3>1. i \in 1..Len(r) /\ i + 1 \in DOMAIN q
      OBVIOUS
    <3>2. r[i] = q[i + 1]
      BY <3>1
    <3> QED BY <3>1, <3>2 DEF Range
  <2>3. 1 \in DOMAIN q
    OBVIOUS
  <2>4. Head(q) \in Range(q)
    BY <2>3 DEF Range
  <2> QED BY <2>1, <2>2, <2>4 DEF Range
<1>4. IsSeq(r)
  <2>1. \A i \in 1..Len(r) : r[i] \in Range(r)
    BY Zenon DEF Range
  <2> QED BY <2>1 DEF IsSeq
<1>5. ASSUME OneHeavy(q), NEW i \in DOMAIN r, Heavy(r[i])
      PROVE  /\ \A j \in DOMAIN r : Heavy(r[j]) => i = j
             /\ ~Heavy(Head(q))
  <2>1. /\ i \in 1..Len(r) /\ i + 1 \in DOMAIN q /\ 1 \in DOMAIN q /\ i + 1 # 1
        /\ r[i] = q[i + 1]
    OBVIOUS
  <2> USE <2>1
  <2>2. ~Heavy(Head(q))
    BY <1>5 DEF OneHeavy
  <2>3. ASSUME NEW j \in DOMAIN r, Heavy(r[j]) PROVE i = j
    <3>1. j \in 1..Len(r) /\ j + 1 \in DOMAIN q /\ r[j] = q[j + 1]
      OBVIOUS
    <3>2. i + 1 = j + 1
      BY <1>5, <2>3, <3>1, Zenon DEF OneHeavy
    <3> QED BY <3>1, <3>2
  <2> QED BY <2>2, <2>3
<1> QED BY <1>3, <1>4, <1>5 DEF OneHeavy, NoHeavy, Range, r

\* Once the oldest effect has run, the apply that the core waits for is still in its
\* place, unless it was the oldest; and a persist is never the oldest before it.
LEMMA WaitsTail ==
    ASSUME NEW s, NEW q, IsSeq(q), q # << >>, Waits(s, q)
    PROVE  /\ Awaited(s, Head(q)) \/ Waits(s, Tail(q))
           /\ Protocol(Head(q)) => s.pendingApply = Nil
<1> DEFINE r == Tail(q)
<1>1. PICK S : q \in Seq(S)
  BY DEF IsSeq
<1>2. /\ Len(q) \in Nat \ {0} /\ DOMAIN q = 1..Len(q) /\ DOMAIN r = 1..(Len(q) - 1)
      /\ \A i \in 1..(Len(q) - 1) : r[i] = q[i + 1]
      /\ Head(q) = q[1]
  BY <1>1
<1> HIDE DEF r
<1>3. CASE s.pendingApply = Nil
  BY <1>3, Zenon DEF Waits, r
<1>4. CASE s.pendingApply # Nil
  <2>1. PICK j \in DOMAIN q : /\ Awaited(s, q[j])
                              /\ \A k \in DOMAIN q : Protocol(q[k]) => j < k
    BY <1>4, Zenon DEF Waits, Awaited
  <2>2. ~Protocol(Head(q))
    <3>1. 1 \in DOMAIN q /\ ~(j < 1)
      BY <1>2
    <3> QED BY <2>1, <3>1, <1>2, Zenon
  <2>3. CASE j = 1
    BY <1>2, <2>1, <2>2, <2>3, Zenon
  <2>4. CASE j # 1
    <3>1. j - 1 \in DOMAIN r /\ r[j - 1] = q[j]
      <4>1. j - 1 \in 1..(Len(q) - 1) /\ (j - 1) + 1 = j
        BY <1>2, <2>4
      <4> QED BY <1>2, <4>1
    <3>2. ASSUME NEW k \in DOMAIN r, Protocol(r[k]) PROVE j - 1 < k
      <4>1. k + 1 \in DOMAIN q /\ r[k] = q[k + 1]
        BY <1>2
      <4>2. j < k + 1
        BY <2>1, <3>2, <4>1, Zenon
      <4> QED BY <1>2, <4>2
    <3>3. Waits(s, r)
      BY <2>1, <3>1, <3>2, Zenon DEF Waits, Awaited
    <3> QED BY <2>2, <3>3, Zenon DEF r
  <2> QED BY <2>3, <2>4
<1> QED BY <1>3, <1>4

\* The core and the rest r of the queue once its oldest effect e has run.
LEMMA HeadRemoved ==
    ASSUME NEW n, NEW s, NEW dh, NEW q, NEW e, NEW r, NEW B, NEW C, Setting,
           Good(n, s, dh, q, B), s.fx = << >>, s.err = "Ok", q # << >>,
           e = Head(q), r = Tail(q), B \subseteq C
    PROVE  /\ e.id \in Nat /\ Agree(s, e) /\ Pending(s, dh, e) /\ Promised(s, e)
           /\ Protocol(e) => s.pendingApply = Nil
           /\ ~Heavy(e) /\ ~Awaited(s, e) => Good(n, s, dh, r, C) /\ Settled(s, dh, r)
           /\ Heavy(e) => \A d : /\ Between(n, s, d, r, C)
                                 /\ Same(d, s.hard) => Clear(n, s, d, r, C)
<1>1. /\ Typed(n, s) /\ IsSeq(q) /\ Tallied(n, s, B) /\ IsSeq(s.fx)
      /\ \A m \in s.out : Sound(n, m, B)
  BY DEF Good, Sane, Base
<1> USE <1>1
<1>2. Queue(s, q) = q
  <2>1. PICK S : q \in Seq(S)
    BY Zenon DEF IsSeq
  <2> QED BY <2>1 DEF Queue
<1>3. /\ IsSeq(r) /\ Range(q) = {e} \cup Range(r)
      /\ OneHeavy(q) => OneHeavy(r)
      /\ OneHeavy(q) /\ Heavy(e) => NoHeavy(Range(r))
  BY HeadFacts
<1> USE <1>3
<1>4. Queue(s, r) = r
  <2>1. PICK S : r \in Seq(S)
    BY DEF IsSeq
  <2> QED BY <2>1 DEF Queue
<1> USE <1>4
<1>5. /\ Matched(s, dh, Range(q)) /\ OneHeavy(q) /\ Synced(s, dh, Range(q))
      /\ Fresh(s, q) /\ Waits(s, q)
  BY <1>2, Zenon DEF Good, Sane, Base
<1> USE <1>5
<1>6. e.id \in Nat /\ Agree(s, e) /\ Pending(s, dh, e) /\ Promised(s, e)
  BY DEF Matched
<1>7. Tallied(n, s, C) /\ \A m \in s.out : Sound(n, m, C)
  BY MoreVotes, Zenon
<1>8. Fresh(s, r)
  BY <1>2, Zenon DEF Fresh
<1>9. Matched(s, dh, Range(r))
  BY Zenon DEF Matched
<1>10. /\ Awaited(s, e) \/ Waits(s, r)
       /\ Protocol(e) => s.pendingApply = Nil
  BY WaitsTail, Zenon
<1>11. CASE ~Heavy(e)
  <2> SUFFICES ASSUME Waits(s, r) PROVE Good(n, s, dh, r, C) /\ Settled(s, dh, r)
    BY <1>6, <1>11, <1>10, Zenon
  <2>1. Base(n, s, dh, r, C)
    BY <1>7, <1>9, Zenon DEF Base
  <2>2. Synced(s, dh, Range(r))
    BY <1>11 DEF Synced, NoHeavy
  <2> QED BY <1>8, <2>1, <2>2, Zenon DEF Good, Sane, Settled
<1>12. CASE Heavy(e)
  <2>1. NoHeavy(Range(r))
    BY <1>12, Zenon
  <2>2. Waits(s, r)
    BY <1>12, <1>10 DEF Heavy, Protocol, Incoming, Awaited
  <2>3. Idle(s, r)
    BY <2>1, Zenon DEF Idle
  <2> SUFFICES ASSUME NEW d
               PROVE  /\ Between(n, s, d, r, C)
                      /\ Same(d, s.hard) => Clear(n, s, d, r, C)
    BY <1>6, <1>12, <1>10, Zenon
  <2>4. Matched(s, d, Range(r))
    BY <1>9, <2>1, Zenon DEF Matched, NoHeavy, Heavy, Pending
  <2>5. Base(n, s, d, r, C)
    BY <1>7, <2>4, <2>2, Zenon DEF Base
  <2>6. Between(n, s, d, r, C)
    BY <1>8, <2>2, <2>3, <2>5, Zenon DEF Between
  <2>7. Same(d, s.hard) => Clear(n, s, d, r, C)
    BY <1>8, <2>3, <2>5, <2>2, Zenon DEF Clear, Good, Sane, Synced
  <2> QED BY <2>6, <2>7, Zenon
<1> QED BY <1>11, <1>12, Zenon
=============================================================================
