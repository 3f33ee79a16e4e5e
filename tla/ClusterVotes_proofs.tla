------------------------- MODULE ClusterVotes_proofs -------------------------
(***************************************************************************)
(* What a step of one node owes to the invariant of ClusterVotes, and that *)
(* the initial states, crashes, failed starts and restarts pay it.         *)
(***************************************************************************)
EXTENDS ClusterVotes, CoreVotes_proofs, FiniteSetTheorems, NaturalsInduction,
        WellFoundedInduction
-----------------------------------------------------------------------------
(* A recovered core *)

\* A core that has just been recovered has nothing outstanding and agrees with its disk.
LEMMA RecoveredAtRest ==
    ASSUME NEW n, NEW d, NEW B, Setting, Hard(d.hard), d.snap # Nil
    PROVE  AtRest(n, Recovered(d), d.hard, << >>, B)
<1> DEFINE s == Recovered(d)
<1>1. /\ IsCore(s) /\ s.hard = d.hard /\ s.role = "Follower" /\ s.log = FromRecovered(d)
      /\ s.progress = [p \in {} |-> Nil] /\ s.pendingPersist = Nil /\ s.pendingApply = Nil
      /\ s.local = Nil /\ s.incoming = Nil /\ s.store = Nil /\ s.installing = Nil
      /\ s.senders = [p \in {} |-> Nil] /\ s.chunkReads = {} /\ s.stopped = FALSE
      /\ s.out = {} /\ s.fx = << >> /\ s.err = "Ok"
  BY Zenon DEF Recovered, IsCore, CoreFields
<1> USE <1>1
<1>2. Snapped(s.log)
  BY DEF FromRecovered, Snapped
<1> HIDE DEF s
<1>3. Limited(s, << >>)
  BY EmptyFacts, Zenon DEF Limited, Barriers
<1>4. Typed(n, s)
  BY <1>2, Zenon DEF Typed, Snaps, Barriers
<1>5. Tallied(n, s, B)
  BY DEF Tallied
<1>6. Queue(s, << >>) = << >>
  BY DEF Queue
<1>7. Base(n, s, d.hard, << >>, B)
  BY <1>4, <1>5, <1>6, EmptyFacts DEF Base, Matched, OneHeavy, Range, Waits
<1>8. Sane(n, s, d.hard, << >>, B)
  BY <1>7 DEF Sane, Synced, Same
<1> QED BY <1>3, <1>4, <1>5, <1>8, Zenon DEF AtRest, Typed, s
-----------------------------------------------------------------------------
(* Numbers *)

\* A set of numbers that holds 0 and, below c, the successor of each of its
\* elements, holds every number up to c.
LEMMA UpTo ==
    ASSUME NEW c \in Nat, NEW S, Setting, 0 \in S,
           \A i \in 0..c : i \in S /\ i < c => i + 1 \in S
    PROVE  \A i \in 0..c : i \in S
<1> SUFFICES ASSUME NEW k \in 0..c, k \notin S PROVE FALSE
  OBVIOUS
<1> DEFINE T == {i \in 0..c : i \notin S}
<1>1. T \in SUBSET Nat /\ T # {}
  OBVIOUS
<1>2. PICK x \in T : \A y \in T : x <= y
  <2> HIDE DEF T
  <2> QED BY <1>1 DEF Setting, Ordered
<1>3. x # 0 /\ x \in 0..c /\ x \notin S
  OBVIOUS
<1>4. x - 1 \in 0..c /\ x - 1 < c /\ x - 1 \notin T /\ (x - 1) + 1 = x
  BY <1>2, <1>3
<1> QED BY <1>3, <1>4

\* The greatest of a bounded set of numbers.
LEMMA GreatestProperty ==
    ASSUME Setting, NEW S \in SUBSET Nat, NEW z \in S, NEW b \in Nat, \A y \in S : y <= b
    PROVE  Greatest(S) \in S /\ \A y \in S : y <= Greatest(S)
<1> DEFINE U == {x \in Nat : \A y \in S : y <= x}
<1>1. U \in SUBSET Nat /\ U # {}
  OBVIOUS
<1>2. PICK x \in U : \A y \in U : x <= y
  <2> HIDE DEF U
  <2> QED BY <1>1 DEF Setting, Ordered
<1>3. x \in S
  <2> SUFFICES ASSUME x \notin S PROVE FALSE
    OBVIOUS
  <2>1. \A y \in S : y \in Nat /\ y <= x /\ y # x
    OBVIOUS
  <2>2. x \in Nat /\ z < x
    BY <2>1
  <2>3. x - 1 \in Nat /\ \A y \in S : y <= x - 1
    BY <2>1, <2>2
  <2>4. x - 1 \in U
    BY <2>3
  <2>5. x <= x - 1
    BY <2>4, <1>2
  <2> QED BY <2>2, <2>5
<1>4. \E a \in S : \A y \in S : a >= y
  BY <1>2, <1>3
<1>5. Greatest(S) \in S /\ \A y \in S : Greatest(S) >= y
  BY <1>4, Zenon DEF Greatest
<1> QED BY <1>5
-----------------------------------------------------------------------------
(* The start of a step *)

\* The ids in use are numbers with a bound.
LEMMA LiveIdsBounded ==
    ASSUME NEW n, NEW s, NEW q, Typed(n, s), IsSeq(q), Limited(s, q),
           \A e \in Range(q) : e.id \in Nat
    PROVE  /\ LiveIds(s, q) \in SUBSET Nat
           /\ \E i \in Nat : \A y \in LiveIds(s, q) : y <= i
<1>1. DOMAIN q = 1..Len(q)
  BY DEF IsSeq
<1>2. \A y \in LiveIds(s, q) : \/ \E e \in Range(q) : y = e.id
                               \/ \E r \in s.chunkReads : y = r.id
                               \/ \E x \in Barriers(s) : y = x.id
  BY <1>1 DEF LiveIds, Barriers, Range
<1>3. /\ \A r \in s.chunkReads : r.id \in Nat
      /\ \A x \in Barriers(s) : x.id \in Nat
  BY DEF Typed
<1>4. LiveIds(s, q) \subseteq Nat
  BY <1>2, <1>3
<1>5. PICK i \in Nat : /\ \A e \in Range(q) : e.id <= i
                       /\ \A c \in s.chunkReads : c.id <= i
                       /\ \A b \in Barriers(s) : b.id <= i
  BY DEF Limited
<1>6. \A y \in LiveIds(s, q) : y <= i
  BY <1>2, <1>5
<1> QED BY <1>4, <1>6

\* A handler starts from a core whose ids are not above `seq`.
LEMMA BeginGood ==
    ASSUME NEW n, NEW dh, NEW B, Setting, AtRest(n, core[n], dh, host[n], B),
           ~core[n].stopped
    PROVE  /\ Good(n, Begin(n), dh, host[n], B)
           /\ Begin(n).fx = << >> /\ Begin(n).err = "Ok"
           /\ Frame(core[n], Begin(n), {"seq"})
<1> DEFINE ids == {0} \cup LiveIds(core[n], host[n])
           i == Greatest(ids)
<1>1. PICK s : s = core[n]
  OBVIOUS
<1>2. PICK q : q = host[n]
  OBVIOUS
<1>3. /\ Sane(n, s, dh, q, B) /\ IsCore(s) /\ s.fx = << >> /\ s.err = "Ok"
      /\ Typed(n, s) /\ IsSeq(q) /\ Limited(s, q)
  BY <1>1, <1>2, Zenon DEF AtRest, Sane, Base
<1>4. Queue(s, q) = q
  <2>1. PICK S : q \in Seq(S)
    BY <1>3 DEF IsSeq
  <2> QED BY <1>3, <2>1 DEF Queue
<1>5. \A e \in Range(q) : e.id \in Nat
  BY <1>3, <1>4 DEF Sane, Base, Matched
<1>6. i \in ids /\ ids \in SUBSET Nat /\ \A y \in ids : y <= i
  <2>1. ids \in SUBSET Nat /\ 0 \in ids
    BY <1>1, <1>2, <1>3, <1>5, LiveIdsBounded
  <2>2. PICK b \in Nat : \A y \in LiveIds(s, q) : y <= b
    BY <1>3, <1>5, LiveIdsBounded, Zenon
  <2>3. \A y \in ids : y <= b
    BY <1>1, <1>2, <2>2
  <2> HIDE DEF ids
  <2> QED BY <2>1, <2>3, GreatestProperty, Zenon
<1> DEFINE t == [s EXCEPT !.seq = i]
<1>7. Begin(n) = t
  BY <1>1 DEF Begin
<1>8. Frame(s, t, {"seq"}) /\ t.seq = i
  <2> HIDE DEF i
  <2> QED BY <1>3 DEF Frame, CoreFields, IsCore
<1> HIDE DEF t
<1>9. /\ t.pendingPersist = s.pendingPersist /\ t.store = s.store /\ t.local = s.local
      /\ t.installing = s.installing /\ t.chunkReads = s.chunkReads /\ t.hard = s.hard
      /\ t.role = s.role /\ t.votes = s.votes /\ t.pendingApply = s.pendingApply
      /\ t.fx = s.fx /\ t.err = s.err /\ t.out = s.out
  BY <1>8, Zenon DEF Frame, CoreFields
<1>10. Typed(n, t)
  BY <1>3, <1>8, Zenon DEF Frame, CoreFields, Typed, Snaps, Barriers
<1>11. Tallied(n, t, B)
  BY <1>3, <1>9 DEF Tallied, Sane, Base
<1>12. Queue(t, q) = q
  BY <1>4, <1>9, Zenon DEF Queue
<1>13. Matched(t, dh, Range(q))
  <2>1. Matched(s, dh, Range(q))
    BY <1>3, <1>4, Zenon DEF Sane, Base
  <2> QED BY <2>1, <1>9 DEF Matched, Agree, Pending, Promised, Vow
<1>14. Synced(t, dh, Range(q)) /\ Waits(t, q)
  BY <1>3, <1>4, <1>9, Zenon DEF Sane, Base, Synced, Waits, Awaited
<1>15. Base(n, t, dh, q, B)
  BY <1>3, <1>4, <1>9, <1>10, <1>11, <1>12, <1>13, <1>14, Zenon DEF Sane, Base
<1>16. Fresh(t, q)
  <2>1. /\ \A y \in LiveIds(s, q) : y <= t.seq
        /\ t.seq \in Nat
    BY <1>1, <1>2, <1>6, <1>8, Zenon
  <2>2. \A e \in Range(q) : e.id \in LiveIds(s, q)
    <3>1. DOMAIN q = 1..Len(q)
      <4>1. PICK S : q \in Seq(S)
        BY <1>3 DEF IsSeq
      <4> QED BY <4>1
    <3> QED BY <3>1 DEF LiveIds, Range
  <2>3. /\ \A c \in s.chunkReads : c.id \in LiveIds(s, q)
        /\ \A b \in Barriers(s) : b.id \in LiveIds(s, q)
    BY DEF LiveIds, Barriers
  <2>4. Barriers(t) = Barriers(s)
    BY <1>9, Zenon DEF Barriers
  <2> HIDE DEF i, ids
  <2> QED BY <1>9, <1>12, <2>1, <2>2, <2>3, <2>4, Zenon DEF Fresh
<1>17. Good(n, t, dh, q, B)
  BY <1>3, <1>9, <1>12, <1>14, <1>15, <1>16, Zenon DEF Good, Sane
<1> QED BY <1>1, <1>2, <1>3, <1>7, <1>8, <1>9, <1>17, Zenon

\* A core whose host has reported every effect is clear when its next event comes.
LEMMA BeginClear ==
    ASSUME NEW n, NEW dh, NEW B, Setting, AtRest(n, core[n], dh, host[n], B),
           ~core[n].stopped, host[n] = << >>
    PROVE  /\ Clear(n, Begin(n), dh, host[n], B)
           /\ Begin(n).fx = << >> /\ Frame(core[n], Begin(n), {"seq"})
<1>1. /\ Good(n, Begin(n), dh, host[n], B)
      /\ Begin(n).fx = << >> /\ Begin(n).err = "Ok"
      /\ Frame(core[n], Begin(n), {"seq"})
  BY BeginGood
<1>2. Idle(Begin(n), host[n])
  BY <1>1, EmptyFacts DEF Idle, Queue, NoHeavy
<1>3. Waits(Begin(n), host[n])
  <2>1. Queue(Begin(n), host[n]) = host[n]
    BY <1>1 DEF Queue
  <2> QED BY <1>1, <2>1, Zenon DEF Good, Sane, Base
<1> QED BY <1>1, <1>2, <1>3, Zenon DEF Clear

\* A core that an event may be delivered to is clear.
LEMMA ReadyClear ==
    ASSUME NEW n \in Node, SerialHost, Setting, VoteInv, Ready(n)
    PROVE  /\ Clear(n, Begin(n), disk[n].hard, host[n], ballots)
           /\ Begin(n).fx = << >> /\ Frame(core[n], Begin(n), {"seq"})
           /\ Registered(n, disk[n].hard, ballots)
<1>1. ~core[n].stopped /\ host[n] = << >>
  BY DEF Ready
<1>2. AtRest(n, core[n], disk[n].hard, host[n], ballots)
  BY DEF VoteInv, Cores
<1>3. Registered(n, disk[n].hard, ballots)
  BY DEF VoteInv, Books
<1> QED BY <1>1, <1>2, <1>3, BeginClear, Zenon

\* Cleanness does not depend on the ids in use.
LEMMA CleanBegin ==
    ASSUME NEW n, NEW s, NEW t, Clean(s), Frame(s, t, {"seq"})
    PROVE  Clean(t)
BY DEF Clean, Frame, CoreFields
-----------------------------------------------------------------------------
(* The disk after a crash *)

\* DiskAfter is the last of the disks that the writes pass through.
LEMMA DiskAfterSteps ==
    ASSUME NEW n, NEW k \in Nat, Setting
    PROVE  \E w : /\ DiskAfter(n, k) = w[k] /\ w[0] = disk[n]
                  /\ \A j \in 1..k : w[j] = Written(w[j - 1], host[n][j])
<1> DEFINE Run(w, i) == /\ w = [j \in 0..i |-> w[j]] /\ w[0] = disk[n]
                        /\ \A j \in 1..i : w[j] = Written(w[j - 1], host[n][j])
           S == {i \in 0..k : \E w : Run(w, i)}
<1>1. 0 \in S
  <2> DEFINE w == [j \in 0..0 |-> disk[n]]
  <2>1. Run(w, 0)
    OBVIOUS
  <2> HIDE DEF w, Run
  <2> QED BY <2>1
<1>2. ASSUME NEW i \in 0..k, i \in S, i < k PROVE i + 1 \in S
  <2>1. PICK w : Run(w, i)
    BY <1>2
  <2> DEFINE v == [j \in 0..(i + 1) |-> IF j <= i THEN w[j]
                                        ELSE Written(w[i], host[n][i + 1])]
  <2>2. v = [j \in 0..(i + 1) |-> v[j]] /\ v[0] = disk[n]
    BY <2>1
  <2>3. ASSUME NEW j \in 1..(i + 1) PROVE v[j] = Written(v[j - 1], host[n][j])
    <3>1. j \in 0..(i + 1) /\ j - 1 \in 0..(i + 1) /\ j - 1 <= i
      OBVIOUS
    <3>2. v[j - 1] = w[j - 1]
      BY <3>1
    <3>3. CASE j <= i
      <4>1. v[j] = w[j] /\ j \in 1..i
        BY <3>1, <3>3
      <4> QED BY <4>1, <3>2, <2>1, Zenon
    <3>4. CASE ~(j <= i)
      <4>1. j = i + 1 /\ j - 1 = i
        BY <3>4
      <4>2. v[j] = Written(w[i], host[n][i + 1])
        BY <3>1, <3>4, Zenon
      <4> QED BY <4>1, <4>2, <3>2, Zenon
    <3> QED BY <3>3, <3>4
  <2>4. Run(v, i + 1)
    BY <2>2, <2>3, Zenon
  <2>5. i + 1 \in 0..k
    BY <1>2
  <2> QED BY <2>4, <2>5, Zenon
<1>3. \A i \in 0..k : i \in S
  <2> HIDE DEF S
  <2> QED BY <1>1, <1>2, UpTo, Zenon
<1>4. PICK w : Run(w, k)
  BY <1>3
<1> DEFINE g(f) == [j \in 0..k |-> IF j = 0 THEN disk[n]
                                   ELSE Written(f[j - 1], host[n][j])]
<1> HIDE DEF Run
<1>5. w = g(w)
  <2>1. /\ w = [j \in 0..k |-> w[j]] /\ w[0] = disk[n]
        /\ \A j \in 1..k : w[j] = Written(w[j - 1], host[n][j])
    BY <1>4 DEF Run
  <2>2. ASSUME NEW j \in 0..k
        PROVE  w[j] = IF j = 0 THEN disk[n] ELSE Written(w[j - 1], host[n][j])
    <3>1. j = 0 \/ j \in 1..k
      OBVIOUS
    <3> QED BY <2>1, <3>1, Zenon
  <2> QED BY <2>1, <2>2, Zenon
<1> DEFINE c == CHOOSE f : f = g(f)
<1>6. c = g(c)
  BY <1>5, Zenon
<1>7. DiskAfter(n, k) = c[k]
  BY DEF DiskAfter
<1> HIDE DEF c
<1>8. c[0] = disk[n] /\ \A j \in 1..k : c[j] = Written(c[j - 1], host[n][j])
  BY <1>6
<1> QED BY <1>7, <1>8, Zenon

\* What an effect leaves on the disk.
LEMMA WrittenFacts ==
    ASSUME NEW d, NEW e, IsDisk(d), WritesHard(e) => Hard(e.hard)
    PROVE  IsDisk(Written(d, e)) /\ Written(d, e).hard = HardAfter(d.hard, e)
<1>1. CASE e.kind = "Persist"
  BY <1>1, Zenon DEF Written, HardAfter, IsDisk, WritesHard
<1>2. CASE e.kind = "CompactLog"
  BY <1>2 DEF Written, HardAfter, IsDisk
<1>3. CASE e.kind \notin {"Persist", "CompactLog"}
  BY <1>3 DEF Written, HardAfter, IsDisk
<1> QED BY <1>1, <1>2, <1>3, Zenon

\* A write of the hard state takes back nothing that the disk dh promised, and
\* at most one is outstanding.
LEMMA WriteFollows ==
    ASSUME NEW n, NEW s, NEW dh, NEW e, Typed(n, s), Hard(dh), Agree(s, e),
           Pending(s, dh, e), Clean(s), WritesHard(e)
    PROVE  Hard(e.hard) /\ Follows(e.hard, dh) /\ Heavy(e)
<1>1. CASE Protocol(e)
  <2>1. Same(e.hard, s.hard) /\ Follows(s.hard, dh) /\ Hard(s.hard)
    BY <1>1, Zenon DEF Pending, WritesHard, Typed
  <2> QED BY <1>1, <2>1, Zenon DEF Same, Hard, Follows, Heavy
<1>2. CASE ~Protocol(e)
  <2>1. Incoming(e) /\ Heavy(e)
    BY <1>2, Zenon DEF WritesHard, Protocol, Incoming, Heavy
  <2>2. /\ Same(dh, s.hard) /\ e.hard.vote = Nil /\ e.hard.term = s.installing.term
        /\ s.hard.term <= e.hard.term /\ s.installing # Nil
    BY <2>1 DEF Pending, Agree, IsFor
  <2>3. s.installing.term \in Nat /\ (s.hard.vote = Nil \/ s.hard.term < s.installing.term)
        /\ Hard(s.hard)
    BY <2>2, Zenon DEF Typed, Clean
  <2> QED BY <2>1, <2>2, <2>3 DEF Same, Hard, Follows
<1> QED BY <1>1, <1>2, Zenon

\* A crash leaves the old hard state or that of the one write outstanding.
LEMMA CrashDisk ==
    ASSUME NEW n, NEW k \in 0..Len(host[n]), Setting, IsSeq(host[n]), OneHeavy(host[n]),
           IsDisk(disk[n]),
           \A e \in Range(host[n]) : WritesHard(e) => Heavy(e) /\ Hard(e.hard)
    PROVE  LET d == DiskAfter(n, k)
               writes == {j \in 1..k : WritesHard(host[n][j])}
           IN /\ IsDisk(d)
              /\ \/ writes = {} /\ d.hard = disk[n].hard
                 \/ \E i \in 1..k : writes = {i} /\ d.hard = host[n][i].hard
<1>1. PICK q : q = host[n]
  OBVIOUS
<1> USE <1>1
<1>2. PICK S : q \in Seq(S)
  BY DEF IsSeq
<1>3. k \in Nat /\ Len(q) \in Nat /\ DOMAIN q = 1..Len(q) /\ k <= Len(q)
  BY <1>2
<1>4. \A j \in 1..k : j \in DOMAIN q /\ q[j] \in Range(q)
  BY <1>3 DEF Range
<1>5. PICK w : /\ DiskAfter(n, k) = w[k] /\ w[0] = disk[n]
               /\ \A j \in 1..k : w[j] = Written(w[j - 1], host[n][j])
  BY <1>3, DiskAfterSteps
<1> DEFINE Old(i) == w[i].hard = disk[n].hard /\ \A j \in 1..i : ~WritesHard(q[j])
           New(i) == \E j \in 1..i : WritesHard(q[j]) /\ w[i].hard = q[j].hard
           T == {i \in 0..k : IsDisk(w[i]) /\ (Old(i) \/ New(i))}
<1>6. 0 \in T
  BY <1>3, <1>5
<1>7. ASSUME NEW i \in 0..k, i \in T, i < k PROVE i + 1 \in T
  <2>1. IsDisk(w[i]) /\ (Old(i) \/ New(i))
    BY <1>7
  <2>2. i + 1 \in 1..k /\ i + 1 \in 0..k /\ (i + 1) - 1 = i
    BY <1>3, <1>7
  <2>3. w[i + 1] = Written(w[i], q[i + 1])
    BY <1>5, <2>2, Zenon
  <2>4. WritesHard(q[i + 1]) => Hard(q[i + 1].hard)
    BY <1>4, <2>2, Zenon
  <2>5. IsDisk(w[i + 1]) /\ w[i + 1].hard = HardAfter(w[i].hard, q[i + 1])
    BY <2>1, <2>3, <2>4, WrittenFacts, Zenon
  <2>6. \A j \in 1..(i + 1) : j \in 1..i \/ j = i + 1
    BY <1>7
  <2>7. 1..i \subseteq 1..(i + 1) /\ i + 1 \in 1..(i + 1)
    BY <1>7
  <2>8. CASE WritesHard(q[i + 1])
    <3>1. New(i + 1)
      BY <2>5, <2>7, <2>8, Zenon DEF HardAfter, WritesHard
    <3> QED BY <2>2, <2>5, <3>1, Zenon
  <2>9. CASE ~WritesHard(q[i + 1])
    <3>1. w[i + 1].hard = w[i].hard
      BY <2>5, <2>9, Zenon DEF HardAfter, WritesHard
    <3>2. Old(i) => Old(i + 1)
      BY <2>6, <2>9, <3>1, Zenon
    <3>3. New(i) => New(i + 1)
      BY <2>7, <3>1
    <3> QED BY <2>1, <2>2, <2>5, <3>2, <3>3, Zenon
  <2> QED BY <2>8, <2>9, Zenon
<1>8. \A i \in 0..k : i \in T
  <2> HIDE DEF T
  <2> QED BY <1>3, <1>6, <1>7, UpTo, Zenon
<1>9. IsDisk(w[k]) /\ (Old(k) \/ New(k))
  BY <1>3, <1>8
<1>10. ASSUME NEW i \in 1..k, NEW j \in 1..k, WritesHard(q[i]), WritesHard(q[j])
       PROVE  i = j
  <2>1. Heavy(q[i]) /\ Heavy(q[j])
    BY <1>4, <1>10, Zenon
  <2> QED BY <2>1, <1>4 DEF OneHeavy
<1>11. CASE Old(k)
  BY <1>5, <1>9, <1>11
<1>12. CASE New(k)
  <2>1. PICK i \in 1..k : WritesHard(q[i]) /\ w[k].hard = q[i].hard
    BY <1>12
  <2>2. {j \in 1..k : WritesHard(q[j])} = {i}
    BY <1>10, <2>1, Zenon
  <2> QED BY <1>5, <1>9, <2>1, <2>2, Zenon
<1> QED BY <1>9, <1>11, <1>12, Zenon
-----------------------------------------------------------------------------
(* The inductive invariant *)

\* A hard state that follows the one on the disk keeps the books in order.
LEMMA BooksKept ==
    ASSUME NEW n \in Node, Setting, Disks, Books, Disks',
           Moves(n, disk[n].hard, disk'[n].hard, ballots, ballots'),
           \A p \in Node : p # n => disk'[p].hard = disk[p].hard
    PROVE  Books' /\ ballots \subseteq ballots'
<1>1. PICK dh : dh = disk[n].hard
  OBVIOUS
<1>2. PICK h : h = disk'[n].hard
  OBVIOUS
<1>3. /\ Hard(h) /\ Hard(dh) /\ Follows(h, dh)
      /\ ballots' = ballots \cup (IF h.vote = Nil THEN {} ELSE {<<n, h.term, h.vote>>})
  BY <1>1, <1>2 DEF Moves, Disks, IsDisk
<1>4. ballots \subseteq ballots'
  BY <1>3, Zenon
<1>5. ballots' \subseteq Node \X Nat \X Node
  BY <1>3 DEF Books, Hard
<1>6. ASSUME NEW p \in Node, NEW c \in Node, NEW t \in Nat, <<p, t, c>> \in ballots'
      PROVE  \/ t < disk'[p].hard.term
             \/ t = disk'[p].hard.term /\ c = disk'[p].hard.vote
  <2>1. CASE p # n
    <3>1. <<p, t, c>> \in ballots
      BY <1>3, <1>6, <2>1, Zenon
    <3> QED BY <2>1, <3>1, Zenon DEF Books
  <2>2. CASE p = n /\ <<p, t, c>> \in ballots
    <3>1. t < dh.term \/ (t = dh.term /\ c = dh.vote)
      BY <1>1, <2>2, Zenon DEF Books
    <3>2. c # Nil
      BY DEF Setting
    <3> QED BY <1>2, <1>3, <2>2, <3>1, <3>2 DEF Follows, Hard
  <2>3. CASE p = n /\ <<p, t, c>> \notin ballots
    <3>1. t = h.term /\ c = h.vote
      BY <1>3, <1>6, <2>3, Zenon
    <3> QED BY <1>2, <2>3, <3>1, Zenon
  <2> QED BY <2>1, <2>2, <2>3
<1>7. ASSUME NEW p \in Node PROVE Registered(p, disk'[p].hard, ballots')
  <2>1. CASE p # n
    <3>1. Registered(p, disk[p].hard, ballots)
      BY DEF Books
    <3> QED BY <1>4, <2>1, <3>1, Zenon DEF Registered
  <2>2. CASE p = n
    BY <1>2, <1>3, <2>2, Zenon DEF Registered
  <2> QED BY <2>1, <2>2, Zenon
<1>8. ASSUME NEW p \in Node, NEW a \in Node, NEW b \in Node, NEW t \in Nat,
             <<p, t, a>> \in ballots', <<p, t, b>> \in ballots'
      PROVE  a = b
  <2>1. ASSUME NEW x \in Node, <<p, t, x>> \in ballots' \ ballots
        PROVE  p = n /\ t = h.term /\ x = h.vote
    BY <1>3, <2>1, Zenon
  <2>2. ASSUME NEW x \in Node, <<n, h.term, x>> \in ballots, h.vote # Nil PROVE x = h.vote
    <3>1. h.term < dh.term \/ (h.term = dh.term /\ x = dh.vote)
      BY <1>1, <1>3, <2>2, Zenon DEF Books, Hard
    <3>2. x # Nil
      BY DEF Setting
    <3> QED BY <1>3, <3>1, <3>2 DEF Follows, Hard
  <2>3. h.vote = Nil => ballots' = ballots
    BY <1>3
  <2> QED BY <1>8, <2>1, <2>2, <2>3, Zenon DEF Books
<1> QED BY <1>4, <1>5, <1>6, <1>7, <1>8, Zenon DEF Books

\* A core at rest stays so while others vote.
LEMMA RestGrows ==
    ASSUME NEW n, NEW s, NEW dh, NEW q, NEW B, NEW C, Setting, B \subseteq C,
           AtRest(n, s, dh, q, B)
    PROVE  AtRest(n, s, dh, q, C)
<1>1. Tallied(n, s, C)
  BY MoreVotes DEF AtRest
<1>2. ASSUME Sane(n, s, dh, q, B) PROVE Sane(n, s, dh, q, C)
  <2>1. Base(n, s, dh, q, B)
    BY <1>2 DEF Sane
  <2>2. \A m \in s.out : Sound(n, m, C)
    BY <2>1, MoreVotes, Zenon DEF Base
  <2>3. Base(n, s, dh, q, C)
    BY <1>1, <2>1, <2>2, Zenon DEF Base
  <2> QED BY <1>2, <2>3, Zenon DEF Sane
<1> QED BY <1>1, <1>2, Zenon DEF AtRest

\* The outputs of a step of n are handed over.
LEMMA CommitKeeps ==
    ASSUME NEW n \in Node, NEW t, NEW q, NEW net, Setting, VoteInv,
           Commit(n, t, q, net), net \subseteq msgs, ballots \subseteq ballots',
           \A p \in Node : p # n => disk'[p].hard = disk[p].hard,
           Ended(n, t, disk'[n].hard, q, ballots')
    PROVE  Cores' /\ Mail' /\ Offices'
<1>1. /\ core' = [core EXCEPT ![n] = Drained(t)]
      /\ host' = [host EXCEPT ![n] = q \o t.fx]
      /\ msgs' = net \cup {m \in t.out : Carried(m)}
      /\ elected' = IF t.role = "Leader" THEN elected \cup {<<t.hard.term, n>>} ELSE elected
  BY Zenon DEF Commit
<1> USE <1>1
<1>2. /\ AtRest(n, Drained(t), disk'[n].hard, q \o t.fx, ballots')
      /\ Tallied(n, t, ballots') /\ \A m \in t.out : Sound(n, m, ballots')
  BY DEF Ended
<1> USE <1>2
<1>3. Drained(t).role = t.role /\ Drained(t).hard = t.hard
  <2>1. IsCore(Drained(t))
    BY DEF AtRest
  <2>2. DOMAIN t = CoreFields
    BY <2>1, Zenon DEF IsCore, Drained
  <2> QED BY <2>2, Zenon DEF Drained, CoreFields
<1>4. t.hard.term \in Nat
  BY <1>3, Zenon DEF AtRest, Hard
<1>5. Cores'
  <2>1. /\ core' = [p \in Node |-> core'[p]] /\ host' = [p \in Node |-> host'[p]]
        /\ core'[n] = Drained(t) /\ host'[n] = q \o t.fx
        /\ \A p \in Node : p # n => core'[p] = core[p] /\ host'[p] = host[p]
    BY Zenon DEF VoteInv, Cores
  <2> USE <2>1
  <2>2. ASSUME NEW p \in Node
        PROVE  AtRest(p, core'[p], disk'[p].hard, host'[p], ballots')
    <3>1. CASE p = n
      BY <3>1, Zenon
    <3>2. CASE p # n
      <4>1. AtRest(p, core[p], disk[p].hard, host[p], ballots)
        BY DEF VoteInv, Cores
      <4>2. AtRest(p, core[p], disk[p].hard, host[p], ballots')
        BY <4>1, RestGrows, Zenon
      <4> QED BY <3>2, <4>2, Zenon
    <3> QED BY <3>1, <3>2
  <2> QED BY <2>2, Zenon DEF Cores
<1>6. Mail'
  <2> SUFFICES ASSUME NEW m \in msgs' PROVE m.from \in Node /\ Sound(m.from, m, ballots')
    BY DEF Mail
  <2>1. CASE m \in msgs
    <3>1. m.from \in Node /\ Sound(m.from, m, ballots)
      BY <2>1 DEF VoteInv, Mail
    <3> QED BY <3>1, MoreVotes, Zenon
  <2>2. CASE m \in t.out
    BY <2>2, Zenon DEF Sound
  <2> QED BY <2>1, <2>2, Zenon
<1>7. Offices'
  <2>1. elected \subseteq Nat \X Node /\ \A p \in Node : core[p].role = "Leader" =>
                                            <<core[p].hard.term, p>> \in elected
    BY Zenon DEF VoteInv, Offices
  <2>2. elected' \subseteq Nat \X Node
    BY <1>4, <2>1
  <2>3. ASSUME NEW u \in Nat, NEW p \in Node, <<u, p>> \in elected'
        PROVE  Backed(ballots', u, p)
    <3>1. CASE <<u, p>> \in elected
      <4>1. Backed(ballots, u, p)
        BY <3>1, Zenon DEF VoteInv, Offices
      <4> QED BY <4>1, MoreVotes, Zenon
    <3>2. CASE <<u, p>> \notin elected
      <4>1. t.role = "Leader" /\ u = t.hard.term /\ p = n
        BY <2>3, <3>2, Zenon
      <4> QED BY <4>1 DEF Tallied
    <3> QED BY <3>1, <3>2, Zenon
  <2>4. ASSUME NEW p \in Node, core'[p].role = "Leader"
        PROVE  <<core'[p].hard.term, p>> \in elected'
    <3>1. CASE p = n
      <4>1. core'[n] = Drained(t)
        BY Zenon DEF VoteInv, Cores
      <4> QED BY <1>3, <2>4, <3>1, <4>1
    <3>2. CASE p # n
      <4>1. core'[p] = core[p]
        BY <3>2 DEF VoteInv, Cores
      <4> QED BY <2>1, <2>4, <4>1
    <3> QED BY <3>1, <3>2, Zenon
  <2> QED BY <2>2, <2>3, <2>4, Zenon DEF Offices
<1> QED BY <1>5, <1>6, <1>7, Zenon

\* A step of n that changes no disk.
LEMMA StepKeeps ==
    ASSUME NEW n \in Node, NEW t, NEW q, NEW net, Setting, VoteInv,
           Commit(n, t, q, net), net \subseteq msgs, UNCHANGED <<disk, ballots>>,
           Ended(n, t, disk[n].hard, q, ballots)
    PROVE  VoteInv'
<1>1. disk' = disk /\ ballots' = ballots
  BY Zenon
<1>2. Disks' /\ Books'
  BY <1>1 DEF VoteInv, Disks, Books
<1>3. Cores' /\ Mail' /\ Offices'
  <2>1. Ended(n, t, disk'[n].hard, q, ballots') /\ ballots \subseteq ballots'
        /\ \A p \in Node : p # n => disk'[p].hard = disk[p].hard
    BY <1>1, Zenon
  <2> QED BY <2>1, CommitKeeps
<1> QED BY <1>2, <1>3, Zenon DEF VoteInv

\* Fewer messages do no harm.
LEMMA StutterKeeps ==
    ASSUME VoteInv, UNCHANGED <<core, disk, host, ballots, elected>>, msgs' \subseteq msgs
    PROVE  VoteInv'
BY DEF VoteInv, Disks, Books, Cores, Mail, Offices
-----------------------------------------------------------------------------
(* Completions *)

\* The oldest effect of a queue is taken out.
LEMMA WithoutFirst ==
    ASSUME NEW q, IsSeq(q), q # << >>
    PROVE  Without(q, 1) = Tail(q) /\ q[1] = Head(q)
<1>1. PICK S : q \in Seq(S)
  BY DEF IsSeq
<1> USE <1>1
<1>2. Len(q) \in Nat \ {0}
  OBVIOUS
<1>3. SubSeq(q, 1, 0) = << >> /\ SubSeq(q, 2, Len(q)) = Tail(q)
  BY <1>2
<1>4. Tail(q) \in Seq(S)
  OBVIOUS
<1>5. << >> \o Tail(q) = Tail(q)
  BY <1>4
<1> QED BY <1>3, <1>5 DEF Without

\* A serial host reports on the oldest outstanding effect.
LEMMA Oldest ==
    ASSUME NEW n \in Node, NEW kind, NEW k \in Completable(n, kind), Setting, SerialHost,
           VoteInv, ~core[n].stopped
    PROVE  /\ k = 1 /\ host[n] # << >> /\ Head(host[n]).kind = kind
           /\ host[n][k] = Head(host[n]) /\ Without(host[n], k) = Tail(host[n])
           /\ Good(n, Begin(n), disk[n].hard, host[n], ballots)
           /\ Begin(n).fx = << >> /\ Begin(n).err = "Ok" /\ Frame(core[n], Begin(n), {"seq"})
           /\ IsSeq(host[n])
<1>1. AtRest(n, core[n], disk[n].hard, host[n], ballots)
  BY DEF VoteInv, Cores
<1>2. /\ Good(n, Begin(n), disk[n].hard, host[n], ballots)
      /\ Begin(n).fx = << >> /\ Begin(n).err = "Ok" /\ Frame(core[n], Begin(n), {"seq"})
  BY <1>1, BeginGood, Zenon
<1>3. IsSeq(host[n])
  BY <1>1, Zenon DEF AtRest, Sane, Base, Queue
<1>4. k \in 1..Len(host[n]) /\ host[n][k].kind = kind /\ \A j \in 1..(k - 1) : FALSE
  BY DEF Completable
<1>5. PICK S : host[n] \in Seq(S)
  BY <1>3 DEF IsSeq
<1>6. Len(host[n]) \in Nat /\ (host[n] = << >> => Len(host[n]) = 0)
  BY <1>5
<1>7. k = 1 /\ host[n] # << >>
  BY <1>4, <1>6
<1> QED BY <1>2, <1>3, <1>4, <1>7, WithoutFirst, Zenon

\* The durable hard state of n after its oldest effect.
LEMMA EffectMoves ==
    ASSUME NEW n \in Node, NEW s, NEW q, NEW e, Setting, Disks, Books,
           Good(n, s, disk[n].hard, q, ballots), s.fx = << >>, q # << >>, e = Head(q),
           Clean(s)
    PROVE  /\ WritesHard(e) => Hard(e.hard)
           /\ Moves(n, disk[n].hard, HardAfter(disk[n].hard, e), ballots,
                    ballots \cup Cast(n, e))
<1>1. PICK dh : dh = disk[n].hard
  OBVIOUS
<1>2. Hard(dh) /\ Registered(n, dh, ballots)
  BY <1>1, Zenon DEF Disks, Books, IsDisk
<1>3. Agree(s, e) /\ Pending(s, dh, e) /\ Typed(n, s)
  <2>1. Good(n, s, dh, q, ballots)
    BY <1>1, Zenon
  <2>2. e \in Range(q) /\ IsSeq(q) /\ Matched(s, dh, Range(Queue(s, q))) /\ Typed(n, s)
    BY <2>1, HeadFacts, Zenon DEF Good, Sane, Base
  <2>3. Queue(s, q) = q
    BY <2>2 DEF Queue, IsSeq
  <2> QED BY <2>2, <2>3 DEF Matched
<1>4. CASE WritesHard(e)
  <2>1. Hard(e.hard) /\ Follows(e.hard, dh)
    BY <1>2, <1>3, <1>4, WriteFollows, Zenon
  <2>2. HardAfter(dh, e) = e.hard
    BY <1>4 DEF HardAfter, WritesHard
  <2>3. Cast(n, e) = IF e.hard.vote = Nil THEN {} ELSE {<<n, e.hard.term, e.hard.vote>>}
    BY <1>4, Zenon DEF Cast, WritesHard
  <2> QED BY <1>1, <2>1, <2>2, <2>3, Zenon DEF Moves
<1>5. CASE ~WritesHard(e)
  <2>1. HardAfter(dh, e) = dh /\ Cast(n, e) = {}
    BY <1>5 DEF HardAfter, WritesHard, Cast
  <2>2. Follows(dh, dh)
    BY <1>2 DEF Follows, Hard
  <2>3. ballots = ballots \cup (IF dh.vote = Nil THEN {} ELSE {<<n, dh.term, dh.vote>>})
    BY <1>2 DEF Registered
  <2> QED BY <1>1, <1>2, <1>5, <2>1, <2>2, <2>3, Zenon DEF Moves
<1> QED BY <1>4, <1>5, Zenon

\* An event is handled without a write.
LEMMA EventElects ==
    ASSUME NEW n, NEW s, NEW q, NEW net, Commit(n, s, q, net), UNCHANGED <<disk, ballots>>
    PROVE  Elects(n)
BY Zenon DEF Commit, Elects

\* A core that takes office when its hard state became durable has led before.
LEMMA NoNewLeader ==
    ASSUME NEW n \in Node, NEW s, NEW t, NEW q, NEW net, VoteInv,
           Frame(core[n], s, {"seq"}), t.role = "Leader" => Steady(s, t),
           Commit(n, t, q, net)
    PROVE  elected' = elected
<1>1. elected' = IF t.role = "Leader" THEN elected \cup {<<t.hard.term, n>>} ELSE elected
  BY DEF Commit
<1>2. CASE t.role = "Leader"
  <2>1. core[n].role = "Leader" /\ core[n].hard.term = t.hard.term
    BY <1>2 DEF Steady, Frame, CoreFields
  <2>2. <<t.hard.term, n>> \in elected
    BY <2>1 DEF VoteInv, Offices
  <2> QED BY <1>1, <1>2, <2>2, Zenon
<1> QED BY <1>1, <1>2, Zenon
-----------------------------------------------------------------------------
(* Crashes, recovery and loss *)

\* `from_parts` takes hard state and snapshot from the disk as they are.
LEMMA LoadedFacts ==
    ASSUME NEW d, IsDisk(d)
    PROVE  Loaded(d).hard = d.hard /\ Loaded(d).snap = d.snap
BY DEF Loaded, IsDisk

\* The new core of n starts from a disk d that its old one may have left.
LEMMA RestartKeeps ==
    ASSUME NEW n \in Node, NEW k, Setting, VoteInv, Restart(n, k),
           IsDisk(DiskAfter(n, k)),
           Moves(n, disk[n].hard, DiskAfter(n, k).hard, ballots, ballots')
    PROVE  VoteInv'
<1>1. PICK d : d = DiskAfter(n, k)
  OBVIOUS
<1>2. /\ disk' = [disk EXCEPT ![n] = d]
      /\ core' = [core EXCEPT ![n] = Recovered(Loaded(d))]
      /\ host' = [host EXCEPT ![n] = << >>]
      /\ msgs' = msgs /\ elected' = elected
  BY <1>1 DEF Restart
<1>3. /\ disk' = [p \in Node |-> disk'[p]] /\ core' = [p \in Node |-> core'[p]]
      /\ host' = [p \in Node |-> host'[p]]
      /\ disk'[n] = d /\ core'[n] = Recovered(Loaded(d)) /\ host'[n] = << >>
      /\ \A p \in Node : p # n =>
            disk'[p] = disk[p] /\ core'[p] = core[p] /\ host'[p] = host[p]
  BY <1>2, Zenon DEF VoteInv, Disks, Cores
<1>4. IsDisk(d)
  BY <1>1
<1>5. Disks'
  BY <1>3, <1>4 DEF VoteInv, Disks
<1>6. Books' /\ ballots \subseteq ballots'
  <2>1. Moves(n, disk[n].hard, disk'[n].hard, ballots, ballots')
    BY <1>1, <1>3
  <2>2. Disks /\ Books
    BY DEF VoteInv
  <2> QED BY <1>3, <1>5, <2>1, <2>2, BooksKept, Zenon
<1>7. AtRest(n, core'[n], disk'[n].hard, host'[n], ballots') /\ core'[n].role = "Follower"
  <2>1. Loaded(d).hard = d.hard /\ Loaded(d).snap # Nil /\ Hard(d.hard)
    BY <1>4, LoadedFacts DEF IsDisk
  <2>2. PICK l : l = Loaded(d)
    OBVIOUS
  <2>3. AtRest(n, Recovered(l), l.hard, << >>, ballots')
    BY <2>1, <2>2, RecoveredAtRest, Zenon
  <2>4. Recovered(l).role = "Follower"
    BY DEF Recovered
  <2> QED BY <1>3, <2>1, <2>2, <2>3, <2>4, Zenon
<1>8. Cores'
  <2>1. ASSUME NEW p \in Node
        PROVE  AtRest(p, core'[p], disk'[p].hard, host'[p], ballots')
    <3>1. CASE p = n
      BY <1>7, <3>1
    <3>2. CASE p # n
      <4>1. AtRest(p, core[p], disk[p].hard, host[p], ballots)
        BY DEF VoteInv, Cores
      <4>2. AtRest(p, core[p], disk[p].hard, host[p], ballots')
        BY <1>6, <4>1, RestGrows, Zenon
      <4> QED BY <1>3, <3>2, <4>2, Zenon
    <3> QED BY <3>1, <3>2, Zenon
  <2> QED BY <1>3, <2>1, Zenon DEF Cores
<1>9. Mail'
  <2> SUFFICES ASSUME NEW m \in msgs' PROVE m.from \in Node /\ Sound(m.from, m, ballots')
    BY Zenon DEF Mail
  <2>1. m.from \in Node /\ Sound(m.from, m, ballots)
    BY <1>2, Zenon DEF VoteInv, Mail
  <2> QED BY <1>6, <2>1, MoreVotes, Zenon
<1>10. Offices'
  <2>1. ASSUME NEW u \in Nat, NEW p \in Node, <<u, p>> \in elected'
        PROVE  Backed(ballots', u, p)
    <3>1. Backed(ballots, u, p)
      BY <1>2, <2>1 DEF VoteInv, Offices
    <3> QED BY <1>6, <3>1, MoreVotes, Zenon
  <2>2. ASSUME NEW p \in Node, core'[p].role = "Leader"
        PROVE  <<core'[p].hard.term, p>> \in elected'
    <3>1. p # n
      BY <1>7, <2>2, Zenon
    <3> QED BY <1>2, <1>3, <2>2, <3>1, Zenon DEF VoteInv, Offices
  <2> QED BY <1>2, <2>1, <2>2, Zenon DEF VoteInv, Offices
<1> QED BY <1>5, <1>6, <1>8, <1>9, <1>10, Zenon DEF VoteInv

\* Whatever prefix of the outstanding effects a crash lets through, at most one of them
\* writes a hard state, and that one follows.
LEMMA CrashMoves ==
    ASSUME NEW n \in Node, NEW k \in 0..Len(host[n]), Setting, VoteInv, ~core[n].stopped,
           Clean(core[n]),
           ballots' = ballots \cup UNION {Cast(n, host[n][j]) : j \in 1..k}
    PROVE  /\ IsDisk(DiskAfter(n, k))
           /\ Moves(n, disk[n].hard, DiskAfter(n, k).hard, ballots, ballots')
<1> DEFINE q == host[n]
           s == core[n]
           dh == disk[n].hard
           d == DiskAfter(n, k)
           writes == {j \in 1..k : WritesHard(q[j])}
<1>1. AtRest(n, s, dh, q, ballots)
  BY Zenon DEF VoteInv, Cores
<1>2. Typed(n, s) /\ IsSeq(q) /\ Matched(s, dh, Range(Queue(s, q))) /\ OneHeavy(Queue(s, q))
  BY <1>1, Zenon DEF AtRest, Sane, Base
<1> USE <1>2
<1>3. Queue(s, q) = q
  <2>1. s.fx = << >>
    BY <1>1 DEF AtRest
  <2> QED BY <2>1 DEF Queue, IsSeq
<1>4. IsDisk(disk[n]) /\ Hard(dh) /\ Registered(n, dh, ballots)
  BY Zenon DEF VoteInv, Disks, IsDisk, Books
<1> USE <1>4
<1>5. ASSUME NEW e \in Range(q), WritesHard(e)
      PROVE  Heavy(e) /\ Hard(e.hard) /\ Follows(e.hard, dh)
  <2>1. Agree(s, e) /\ Pending(s, dh, e)
    BY <1>3, Zenon DEF Matched
  <2> QED BY <1>5, <2>1, WriteFollows, Zenon
<1>6. /\ IsDisk(d)
      /\ \/ writes = {} /\ d.hard = dh
         \/ \E i \in 1..k : writes = {i} /\ d.hard = q[i].hard
  BY <1>3, <1>5, CrashDisk, Zenon
<1>7. \A j \in 1..k : j \notin writes => Cast(n, q[j]) = {}
  BY DEF Cast, WritesHard
<1>8. CASE writes = {} /\ d.hard = dh
  <2>1. UNION {Cast(n, q[j]) : j \in 1..k} = {}
    BY <1>7, <1>8, Zenon
  <2>2. ballots' = ballots
    BY <2>1, Zenon
  <2>3. Follows(dh, dh)
    BY DEF Follows, Hard
  <2> QED BY <1>6, <1>8, <2>2, <2>3, Zenon DEF Moves, Registered
<1>9. ASSUME NEW i \in 1..k, writes = {i}, d.hard = q[i].hard
      PROVE  Moves(n, dh, d.hard, ballots, ballots')
  <2>1. q[i] \in Range(q)
    <3>1. PICK S : q \in Seq(S)
      BY Zenon DEF IsSeq
    <3>2. DOMAIN q = 1..Len(q) /\ Len(q) \in Nat
      BY <3>1
    <3> QED BY <3>2 DEF Range
  <2>2. WritesHard(q[i])
    BY <1>9, Zenon
  <2>3. Hard(q[i].hard) /\ Follows(q[i].hard, dh)
    BY <1>5, <2>1, <2>2, Zenon
  <2>4. UNION {Cast(n, q[j]) : j \in 1..k} = Cast(n, q[i])
    <3>1. \A j \in 1..k : j # i => Cast(n, q[j]) = {}
      BY <1>7, <1>9, Zenon
    <3> HIDE DEF q
    <3> QED BY <3>1, Zenon
  <2>5. Cast(n, q[i]) = IF q[i].hard.vote = Nil THEN {}
                        ELSE {<<n, q[i].hard.term, q[i].hard.vote>>}
    BY <2>2, Zenon DEF Cast, WritesHard
  <2>6. ballots' = ballots \cup Cast(n, q[i])
    BY <2>4, Zenon
  <2> QED BY <1>9, <2>3, <2>5, <2>6, Zenon DEF Moves
<1> QED BY <1>6, <1>8, <1>9, Zenon

\* A crash keeps the invariant.
LEMMA CrashKeeps ==
    ASSUME NEW n \in Node, Setting, VoteInv, Clean(core[n]), Crash(n)
    PROVE  VoteInv'
<1>1. ~core[n].stopped
  BY DEF Crash
<1>2. PICK k \in 0..Len(host[n]) : Restart(n, k)
  BY DEF Crash
<1>3. ballots' = ballots \cup UNION {Cast(n, host[n][j]) : j \in 1..k}
  BY <1>2 DEF Restart
<1>4. /\ IsDisk(DiskAfter(n, k))
      /\ Moves(n, disk[n].hard, DiskAfter(n, k).hard, ballots, ballots')
  BY <1>1, <1>3, CrashMoves, Zenon
<1> QED BY <1>2, <1>4, RestartKeeps, Zenon

\* A recovery after a stop reads the disk as it is.
LEMMA RecoverMoves ==
    ASSUME NEW n \in Node, Setting, VoteInv, Recover(n)
    PROVE  /\ DiskAfter(n, 0) = disk[n] /\ ballots' = ballots /\ IsDisk(disk[n])
           /\ Moves(n, disk[n].hard, disk[n].hard, ballots, ballots)
<1>1. DiskAfter(n, 0) = disk[n]
  BY DiskAfterSteps
<1>2. ballots' = ballots \cup UNION {Cast(n, host[n][j]) : j \in 1..0}
  BY DEF Recover, Restart
<1>3. 1..0 = {}
  OBVIOUS
<1>4. ballots' = ballots
  BY <1>2, <1>3, Zenon
<1>5. IsDisk(disk[n]) /\ Hard(disk[n].hard) /\ Registered(n, disk[n].hard, ballots)
  BY DEF VoteInv, Disks, IsDisk, Books
<1>6. Follows(disk[n].hard, disk[n].hard)
  BY <1>5 DEF Follows, Hard
<1> QED BY <1>1, <1>4, <1>5, <1>6, Zenon DEF Moves, Registered

\* A recovery after a stop keeps the invariant.
LEMMA RecoverKeeps ==
    ASSUME NEW n \in Node, Setting, VoteInv, Recover(n)
    PROVE  VoteInv'
<1>1. Restart(n, 0)
  BY DEF Recover
<1>2. /\ IsDisk(DiskAfter(n, 0))
      /\ Moves(n, disk[n].hard, DiskAfter(n, 0).hard, ballots, ballots')
  BY RecoverMoves
<1> QED BY <1>1, <1>2, RestartKeeps, Zenon

\* The invariant holds of every scenario.
LEMMA InitHolds ==
    ASSUME Setting, Init PROVE VoteInv
<1>1. PICK sc \in Scenario : disk = sc.disk
  BY DEF Init
<1>2. /\ sc.disk = [n \in Node |-> sc.disk[n]]
      /\ \A n \in Node : /\ DOMAIN sc.disk[n] = {"hard", "snap", "entries"}
                         /\ sc.disk[n].hard \in HardState /\ sc.disk[n].snap # Nil
  BY HostAssumption, Zenon
<1>3. \A n \in Node : Hard(sc.disk[n].hard)
  BY <1>2 DEF HardState, Hard
<1>4. \A n \in Node : IsDisk(disk[n])
  BY <1>1, <1>2, <1>3, Zenon DEF IsDisk
<1>5. disk = [n \in Node |-> disk[n]]
  BY <1>1, <1>2
<1>6. Books
  <2>1. ballots = {<<n, disk[n].hard.term, disk[n].hard.vote>> :
                      n \in {x \in Node : disk[x].hard.vote # Nil}}
    BY DEF Init
  <2>2. \A n \in Node : disk[n].hard.term \in Nat
                      /\ (disk[n].hard.vote # Nil => disk[n].hard.vote \in Node)
    BY <1>4 DEF IsDisk, Hard
  <2>3. ballots \subseteq Node \X Nat \X Node
    BY <2>1, <2>2
  <2>4. ASSUME NEW n \in Node, NEW c \in Node, NEW t \in Nat, <<n, t, c>> \in ballots
        PROVE  t = disk[n].hard.term /\ c = disk[n].hard.vote
    BY <2>1, <2>4, Zenon
  <2>5. \A n \in Node : Registered(n, disk[n].hard, ballots)
    BY <2>1 DEF Registered
  <2>6. \A n, a, b \in Node, t \in Nat :
           <<n, t, a>> \in ballots /\ <<n, t, b>> \in ballots => a = b
    BY <2>4
  <2> QED BY <2>3, <2>4, <2>5, <2>6, Zenon DEF Books
<1>7. Cores
  <2>1. ASSUME NEW n \in Node
        PROVE  AtRest(n, core[n], disk[n].hard, host[n], ballots)
    <3>1. PICK l : l = Loaded(disk[n])
      OBVIOUS
    <3>2. l.hard = disk[n].hard /\ Hard(l.hard) /\ l.snap # Nil
      BY <1>4, <3>1, LoadedFacts, Zenon DEF IsDisk
    <3>3. core[n] = Recovered(l) /\ host[n] = << >>
      BY <3>1 DEF Init
    <3>4. AtRest(n, Recovered(l), l.hard, << >>, ballots)
      BY <3>2, RecoveredAtRest, Zenon
    <3> QED BY <3>2, <3>3, <3>4, Zenon
  <2>2. core = [n \in Node |-> core[n]] /\ host = [n \in Node |-> host[n]]
    BY Zenon DEF Init
  <2> QED BY <2>1, <2>2, Zenon DEF Cores
<1>8. Mail
  BY Zenon DEF Init, Mail
<1>9. Offices
  <2>1. \A n \in Node : core[n].role = "Follower"
    BY Zenon DEF Init, Recovered
  <2> QED BY <2>1, Zenon DEF Init, Offices
<1> QED BY <1>4, <1>5, <1>6, <1>7, <1>8, <1>9, Zenon DEF VoteInv, Disks

\* A restart writes what the crash let through and elects nobody.
LEMMA RestartRecords ==
    ASSUME NEW n \in Node, NEW k, VoteInv, Restart(n, k),
           Moves(n, disk[n].hard, DiskAfter(n, k).hard, ballots, ballots')
    PROVE  Records(n)
<1>1. PICK d : d = DiskAfter(n, k)
  BY Zenon
<1>2. disk' = [disk EXCEPT ![n] = d] /\ elected' = elected
  BY <1>1 DEF Restart
<1>3. disk'[n] = d /\ \A p \in Node : p # n => disk'[p] = disk[p]
  BY <1>2, Zenon DEF VoteInv, Disks
<1> QED BY <1>1, <1>2, <1>3 DEF Records

\* A crash writes at most one hard state.
LEMMA CrashRecords ==
    ASSUME NEW n \in Node, Setting, VoteInv, Clean(core[n]), Crash(n)
    PROVE  Records(n)
<1>1. ~core[n].stopped
  BY DEF Crash
<1>2. PICK k \in 0..Len(host[n]) : Restart(n, k)
  BY DEF Crash
<1>3. ballots' = ballots \cup UNION {Cast(n, host[n][j]) : j \in 1..k}
  BY <1>2 DEF Restart
<1>4. Moves(n, disk[n].hard, DiskAfter(n, k).hard, ballots, ballots')
  BY <1>1, <1>3, CrashMoves, Zenon
<1> QED BY <1>2, <1>4, RestartRecords, Zenon

\* A recovery writes nothing.
LEMMA RecoverRecords ==
    ASSUME NEW n \in Node, Setting, VoteInv, Recover(n)
    PROVE  Records(n)
<1>1. Restart(n, 0)
  BY DEF Recover
<1>2. Moves(n, disk[n].hard, DiskAfter(n, 0).hard, ballots, ballots')
  BY RecoverMoves
<1> QED BY <1>1, <1>2, RestartRecords, Zenon
-----------------------------------------------------------------------------
(* The setting, and what the invariant implies *)

\* A nonempty set of naturals has a least element.
LEMMA LeastElement ==
    ASSUME NEW S \in SUBSET Nat, S # {}
    PROVE  \E x \in S : \A y \in S : x <= y
<1> DEFINE R == {ss \in Nat \X Nat : ss[1] < ss[2]}
<1>1. IsWellFoundedOn(R, Nat)
  BY NatLessThanWellFounded DEF OpToRel
<1> HIDE DEF R
<1>2. PICK x \in S : \A y \in S : ~(<<y, x>> \in R)
  BY <1>1, WFMin, Zenon
<1>3. \A y \in S : x <= y
  <2> TAKE y \in S
  <2>1. x \in Nat /\ y \in Nat /\ <<y, x>> \in Nat \X Nat
    OBVIOUS
  <2>2. ~(y < x)
    BY <1>2, <2>1 DEF R
  <2> QED BY <2>1, <2>2
<1> QED BY <1>3

\* What the lemmas use of the constants follows from the assumption of Host.
LEMMA SettingHolds ==
    ASSUME NilIsNoRecord PROVE Setting
<1>1. IsFiniteSet(Node) /\ Nil \notin Node
  BY HostAssumption
<1>2. Countable
  <2> SUFFICES ASSUME NEW S \in SUBSET Node
               PROVE  /\ Cardinality(S) \in Nat /\ Bijection(1..Cardinality(S), S) # {}
                      /\ \A T \in SUBSET S : Cardinality(T) <= Cardinality(S)
    BY DEF Countable
  <2>1. IsFiniteSet(S)
    BY <1>1, FS_Subset
  <2>2. Cardinality(S) \in Nat
    BY <2>1, FS_CardinalityType
  <2>3. \E f : f \in Bijection(1..Cardinality(S), S)
    BY <2>1, FS_CardinalityType DEF ExistsBijection
  <2>4. \A T \in SUBSET S : Cardinality(T) <= Cardinality(S)
    BY <2>1, FS_Subset
  <2> QED BY <2>2, <2>3, <2>4, Zenon
<1>3. Ordered
  BY LeastElement DEF Ordered
<1> QED BY <1>1, <1>2, <1>3, Zenon DEF NilIsNoRecord, Setting

\* Two quorums share a node.
LEMMA QuorumsMeet ==
    ASSUME NEW P \in SUBSET Node, NEW Q \in SUBSET Node, IsFiniteSet(Node),
           Cardinality(P) >= Quorum, Cardinality(Q) >= Quorum
    PROVE  P \cap Q # {}
<1>1. /\ IsFiniteSet(P) /\ IsFiniteSet(Q)
      /\ Cardinality(Node) \in Nat /\ Cardinality(P) \in Nat /\ Cardinality(Q) \in Nat
  BY FS_Subset, FS_CardinalityType, Zenon
<1>2. Cardinality(P) + Cardinality(Q) > Cardinality(Node)
  BY <1>1 DEF Quorum
<1> QED BY <1>1, <1>2, FS_MajoritiesIntersect, Zenon

\* Two leaders of one term share a voter, who voted once.
LEMMA VoteInvElectionSafety ==
    ASSUME Setting, VoteInv PROVE ElectionSafety
<1> SUFFICES ASSUME NEW x \in elected, NEW y \in elected, x[1] = y[1] PROVE x[2] = y[2]
  BY DEF ElectionSafety
<1>1. elected \subseteq Nat \X Node
  BY DEF VoteInv, Offices
<1>2. PICK t \in Nat, a \in Node, b \in Node : x = <<t, a>> /\ y = <<t, b>>
  BY <1>1
<1>3. Backed(ballots, t, a) /\ Backed(ballots, t, b)
  BY <1>2 DEF VoteInv, Offices
<1>4. PICK v \in Node : v \in Voters(ballots, t, a) /\ v \in Voters(ballots, t, b)
  <2>1. /\ Voters(ballots, t, a) \in SUBSET Node /\ Voters(ballots, t, b) \in SUBSET Node
        /\ IsFiniteSet(Node)
    BY HostAssumption, Zenon DEF Voters
  <2> QED BY <1>3, <2>1, QuorumsMeet, Zenon DEF Backed
<1>5. a = b
  BY <1>4, Zenon DEF Voters, VoteInv, Books
<1> QED BY <1>2, <1>5

\* Tallies and grants in flight are of durable votes.
LEMMA VoteInvGrants ==
    ASSUME Setting, VoteInv PROVE GrantsAreDurable
<1>1. ASSUME NEW c \in Node, core[c].role = "Candidate", NEW v \in core[c].votes.granted \ {c}
      PROVE  <<v, core[c].hard.term, c>> \in ballots
  <2>1. Tallied(c, core[c], ballots)
    BY DEF VoteInv, Cores, AtRest
  <2> QED BY <1>1, <2>1, Zenon DEF Tallied
<1>2. ASSUME NEW m \in msgs, m.kind = "VoteResponse", m.granted
      PROVE  <<m.from, m.term, m.to>> \in ballots
  BY <1>2, Zenon DEF VoteInv, Mail, Sound
<1> QED BY <1>1, <1>2, Zenon DEF GrantsAreDurable

\* The persist that is outstanding is the one the barrier waits for.
LEMMA VoteInvOnePersist ==
    ASSUME VoteInv PROVE OnePersist
<1> SUFFICES ASSUME NEW n \in Node, NEW k \in 1..Len(host[n]), host[n][k].kind = "Persist",
                    host[n][k].snap = Nil, ~core[n].stopped
             PROVE  /\ core[n].pendingPersist # Nil
                    /\ host[n][k].id = core[n].pendingPersist.id
  BY DEF OnePersist
<1>1. PICK q : q = host[n]
  BY Zenon
<1> USE <1>1
<1>2. Base(n, core[n], disk[n].hard, q, ballots) /\ core[n].fx = << >>
  BY Zenon DEF VoteInv, Cores, AtRest, Sane
<1> USE <1>2
<1>3. PICK S : q \in Seq(S)
  BY Zenon DEF Base, IsSeq
<1>4. Queue(core[n], q) = q
  BY <1>3 DEF Queue
<1>5. q[k] \in Range(q)
  <2>1. DOMAIN q = 1..Len(q)
    BY <1>3
  <2> QED BY <2>1 DEF Range
<1>6. Agree(core[n], q[k])
  BY <1>4, <1>5, Zenon DEF Base, Matched
<1> QED BY <1>6, Zenon DEF Agree, IsFor, Protocol, Incoming

\* No persist of the protocol is the oldest effect while an apply is awaited.
LEMMA VoteInvAppliesFirst ==
    ASSUME VoteInv PROVE AppliesFirst
<1> SUFFICES ASSUME NEW n \in Node, ~core[n].stopped, host[n] # << >>,
                    Head(host[n]).kind = "Persist", Head(host[n]).snap = Nil
             PROVE  core[n].pendingApply = Nil
  BY Zenon DEF AppliesFirst
<1>1. PICK q : q = host[n]
  BY Zenon
<1> USE <1>1
<1>2. Base(n, core[n], disk[n].hard, q, ballots) /\ core[n].fx = << >>
  BY Zenon DEF VoteInv, Cores, AtRest, Sane
<1>3. IsSeq(q) /\ Waits(core[n], Queue(core[n], q))
  BY <1>2, Zenon DEF Base
<1>4. Queue(core[n], q) = q
  <2>1. PICK S : q \in Seq(S)
    BY <1>3, Zenon DEF IsSeq
  <2> QED BY <1>2, <2>1 DEF Queue
<1>5. Waits(core[n], q) /\ q # << >> /\ Protocol(Head(q))
  BY <1>3, <1>4, Zenon DEF Protocol
<1> QED BY <1>3, <1>5, WaitsTail, Zenon
-----------------------------------------------------------------------------
(* The vote ledger *)

\* Terms up to one within the bound are terms of the ledger.
LEMMA TermRange ==
    /\ \A t \in Nat : t <= MaxTerm => t \in 0..MaxTerm
    /\ \A t, u \in Nat : t <= u /\ u <= MaxTerm => t \in 0..MaxTerm
<1>1. MaxTerm \in Nat
  BY HostAssumption, Zenon
<1> QED BY <1>1

\* A hard state that follows another is of no lower term.
LEMMA FollowsFacts ==
    ASSUME NEW h, NEW dh, Hard(h), Hard(dh), Follows(h, dh)
    PROVE  /\ dh.term \in Nat /\ h.term \in Nat /\ dh.term <= h.term
           /\ h.vote # Nil => h.vote \in Node
BY DEF Hard, Follows

\* Every scenario is a start of the ledger.
LEMMA LedgerStart ==
    ASSUME Setting, Init, TermsBounded
    PROVE  Ledger!Init
<1>1. VoteInv /\ elected = {}
  BY InitHolds, Zenon DEF Init
<1> USE <1>1
<1>2. \A n \in Node : disk[n].hard.term \in Nat /\ disk[n].hard.term \in 0..MaxTerm
  BY TermRange, Zenon DEF VoteInv, Disks, IsDisk, Hard, TermsBounded
<1>3. \A n, c \in Node, t \in Nat : <<n, t, c>> \in ballots => t <= disk[n].hard.term
  <2> SUFFICES ASSUME NEW n \in Node, NEW c \in Node, NEW t \in Nat, <<n, t, c>> \in ballots
               PROVE  t <= disk[n].hard.term
    BY Zenon
  <2>1. disk[n].hard.term \in Nat /\ (t < disk[n].hard.term \/ t = disk[n].hard.term)
    BY <1>2, Zenon DEF VoteInv, Books
  <2> QED BY <2>1
<1>4. ballots \subseteq Node \X (0..MaxTerm) \X Node
  <2> SUFFICES ASSUME NEW v \in ballots PROVE v \in Node \X (0..MaxTerm) \X Node
    OBVIOUS
  <2>1. PICK n \in Node, t \in Nat, c \in Node : v = <<n, t, c>>
    BY DEF VoteInv, Books
  <2>2. t <= disk[n].hard.term /\ disk[n].hard.term \in Nat
    BY <1>2, <1>3, <2>1, Zenon
  <2>3. t \in 0..MaxTerm
    BY <2>2, TermRange, Zenon DEF TermsBounded
  <2> QED BY <2>1, <2>3
<1>5. \A n, c, d \in Node, t \in 0..MaxTerm :
         <<n, t, c>> \in ballots => t <= disk[n].hard.term /\ (<<n, t, d>> \in ballots => c = d)
  <2>1. \A t \in 0..MaxTerm : t \in Nat
    BY SMT
  <2> QED BY <1>3, <2>1, Zenon DEF VoteInv, Books
<1> QED BY <1>2, <1>4, <1>5, Zenon DEF Ledger!Init

\* A node takes office in the ledger.
LEMMA ElectsStep ==
    ASSUME NEW n \in Node, Setting, VoteInv, VoteInv', TermsBounded, Elects(n)
    PROVE  [Ledger!Next]_(Ledger!vars)
<1>1. UNCHANGED <<[p \in Node |-> disk[p].hard.term], ballots>>
  BY DEF Elects
<1>2. CASE elected' = elected
  BY <1>1, <1>2 DEF Ledger!vars
<1>3. CASE elected' # elected
  <2>1. PICK t : elected' = elected \cup {<<t, n>>}
    BY <1>3, Zenon DEF Elects
  <2>2. t \in Nat /\ Backed(ballots, t, n)
    BY <1>1, <2>1, Zenon DEF VoteInv, Offices
  <2> DEFINE V == Voters(ballots, t, n)
  <2>3. Cardinality(V) >= Cardinality(Node) \div 2 + 1
    BY <2>2 DEF Backed, Quorum
  <2>4. PICK v \in Node : <<v, t, n>> \in ballots
    <3>1. V # {}
      <4>1. Cardinality({}) = 0
        BY FS_EmptySet
      <4>2. Cardinality(Node) \in Nat
        BY HostAssumption, FS_CardinalityType, Zenon
      <4> QED BY <2>3, <4>1, <4>2
    <3> QED BY <3>1, Zenon DEF Voters
  <2>5. t \in 0..MaxTerm
    <3>1. t <= disk[v].hard.term /\ disk[v].hard.term <= MaxTerm /\ disk[v].hard.term \in Nat
      <4>1. /\ t < disk[v].hard.term \/ t = disk[v].hard.term
            /\ disk[v].hard.term <= MaxTerm /\ disk[v].hard.term \in Nat
        BY <2>2, <2>4, Zenon DEF VoteInv, Books, Disks, IsDisk, Hard, TermsBounded
      <4> QED BY <2>2, <4>1
    <3> QED BY <2>2, <3>1, TermRange, Zenon
  <2>6. Ledger!IsQuorum({w \in Node : <<w, t, n>> \in ballots})
    <3>1. \A S : Ledger!Cardinality(S) = Cardinality(S)
      BY Zenon DEF Ledger!Cardinality, Cardinality
    <3> QED BY <2>3, <3>1 DEF Ledger!IsQuorum, Voters
  <2>7. Ledger!Elect(t, n)
    BY <1>1, <2>1, <2>6, Zenon DEF Ledger!Elect
  <2> QED BY <2>5, <2>7 DEF Ledger!Next
<1> QED BY <1>2, <1>3

\* A hard state that became durable is a vote or a higher term in the ledger.
LEMMA RecordsStep ==
    ASSUME NEW n \in Node, Setting, VoteInv, VoteInv', TermsBounded', Records(n)
    PROVE  [Ledger!Next]_(Ledger!vars)
<1>1. PICK dh, h : dh = disk[n].hard /\ h = disk'[n].hard
  BY Zenon
<1> USE <1>1
<1>2. /\ Hard(dh) /\ Hard(h) /\ Follows(h, dh) /\ h.term \in 0..MaxTerm
      /\ ballots' = ballots \cup (IF h.vote = Nil THEN {} ELSE {<<n, h.term, h.vote>>})
  BY TermRange, Zenon DEF VoteInv, Disks, IsDisk, Hard, Records, Moves, TermsBounded
<1> USE <1>2
<1>3. [p \in Node |-> disk[p].hard.term]' = [[p \in Node |-> disk[p].hard.term] EXCEPT ![n] = h.term]
  BY Zenon DEF Records
<1>4. \A c \in Node, t \in Nat : <<n, t, c>> \in ballots => t < dh.term \/ (t = dh.term /\ c = dh.vote)
  BY Zenon DEF VoteInv, Books
<1>5. elected' = elected /\ Nil \notin Node
  BY Zenon DEF Records, Setting
<1>6. CASE h.vote = Nil /\ dh.term < h.term
  <2>1. Ledger!Adopt(n, h.term)
    BY <1>3, <1>5, <1>6, Zenon DEF Ledger!Adopt
  <2> QED BY <2>1, Zenon DEF Ledger!Next
<1>7. CASE h.vote # Nil /\ (dh.term < h.term \/ dh.vote = Nil)
  <2>1. h.vote \in Node /\ dh.term <= h.term
    BY <1>7, FollowsFacts, Zenon
  <2>2. ~Ledger!VotedIn(n, h.term)
    <3> SUFFICES ASSUME NEW c \in Node, <<n, h.term, c>> \in ballots PROVE FALSE
      BY Zenon DEF Ledger!VotedIn
    <3>1. dh.term \in Nat /\ h.term \in Nat
      BY Zenon DEF Hard
    <3>2. h.term < dh.term \/ (h.term = dh.term /\ c = dh.vote)
      BY <1>4, <3>1, Zenon
    <3>3. ~(h.term < dh.term) /\ (h.term = dh.term => ~(dh.term < h.term))
      BY <2>1, <3>1
    <3> QED BY <1>5, <1>7, <3>2, <3>3, Zenon
  <2>3. Ledger!Vote(n, h.term, h.vote)
    BY <1>3, <1>5, <1>7, <2>1, <2>2, Zenon DEF Ledger!Vote
  <2> QED BY <2>1, <2>3, Zenon DEF Ledger!Next
<1>8. CASE dh.term = h.term /\ (h.vote = Nil \/ dh.vote # Nil)
  <2>1. ballots' = ballots
    BY <1>8 DEF Follows, VoteInv, Books, Registered
  <2>2. UNCHANGED [p \in Node |-> disk[p].hard.term]
    BY <1>3, <1>8, Zenon
  <2> QED BY <1>5, <2>1, <2>2, Zenon DEF Ledger!vars
<1> QED BY <1>6, <1>7, <1>8, Zenon DEF Follows

\* A step that touches neither votes, terms nor leaders is no step of the ledger.
LEMMA RestsStep ==
    ASSUME Rests PROVE UNCHANGED Ledger!vars
BY DEF Rests, Ledger!vars
=============================================================================
