---------------------------- MODULE LogStore_proofs ----------------------------
(***************************************************************************)
(* What LogStore promises, for every bound on indexes and terms.  The      *)
(* lemmas on the operators of RaftLog hold for any well formed log and any *)
(* entries; what a leader's messages and snapshots satisfy is used only    *)
(* where a step relies on it.                                              *)
(***************************************************************************)
EXTENDS LogStore, SequenceTheorems, WellFoundedInduction, TLAPS

Position == [index : Nat, term : Nat]

Window == [from : Nat, through : Nat]
LogRecord ==
    [snap : Position, entries : Seq(Position), committed : Nat, unstable : Window]

WellFormed(l) ==
    /\ l \in LogRecord
    /\ Continuous(l.entries, l.snap.index + 1, l.snap.term)
    /\ l.snap.index <= l.committed
    /\ l.committed <= l.snap.index + Len(l.entries)

\* Every committed index the log still describes has the decided term.
Kept(l, d) ==
    \A i \in l.snap.index..l.committed : i > 0 => HasTerm(l, i) /\ TermAt(l, i) = d[i]

\* The inductive invariant: TypeOK with the types of the fields, and
\* CommittedKept, which an install needs to keep the committed suffix.
Inv(l, d) ==
    /\ WellFormed(l)
    /\ d \in Seq(Nat) /\ Len(d) = l.committed
    /\ LastIndex(l) <= MaxIndex
    /\ Kept(l, d)

Within(i, u) == u.from <= i /\ i <= u.through

\* The entries w of l that await confirmation lie in its window.
Tracked(l, w) ==
    /\ w \subseteq FirstIndex(l)..LastIndex(l)
    /\ \A i \in w : Within(i, l.unstable)

IInv == Inv(log, decided) /\ Tracked(log, unconfirmed)

\* What window u holds of the indexes in first..last, window v holds as well.
Holds(u, v, first, last) ==
    \A i \in Nat : first <= i /\ i <= last /\ Within(i, u) => Within(i, v)

\* Every entry of m that l does not have, or that lies in l's window, lies in
\* m's window.
Covers(l, m) ==
    \A i \in FirstIndex(m)..LastIndex(m) :
        (Within(i, l.unstable) \/ ~HasEntry(l, i) \/ EntryAt(l, i) # EntryAt(m, i)) =>
            Within(i, m.unstable)

\* l with the entries after its first `keep` replaced by `tail`.
Spliced(l, keep, tail, u) ==
    [snap |-> l.snap, committed |-> l.committed, unstable |-> u,
     entries |-> SubSeq(l.entries, 1, keep) \o tail]

\* l with another commit point and window.
Marked(l, c, u) ==
    [snap |-> l.snap, entries |-> l.entries, committed |-> c, unstable |-> u]

\* l without the entries a snapshot covers.
Shorter(l, snap, c, u) ==
    [snap |-> snap, committed |-> c, unstable |-> u,
     entries |-> DropFirst(l.entries, snap.index - l.snap.index)]

\* What `append` and `replace_conflict` make of l where they accept `tail`.
PlacedLog(l, tail) ==
    [l EXCEPT !.entries = SubSeq(@, 1, tail[1].index - FirstIndex(l)) \o tail,
              !.unstable = MarkRange(TruncateFrom(@, tail[1].index), tail[1].index,
                                     tail[Len(tail)].index)]

\* m is a well formed log that has the entries of l up to the first `keep`,
\* the committed ones among them, and then `tail`, which its window covers.
Extends(m, l, keep, tail) ==
    /\ keep \in Nat /\ keep <= Len(l.entries) /\ tail \in Seq(Position)
    /\ l.committed <= l.snap.index + keep
    /\ WellFormed(m) /\ m.snap = l.snap /\ m.committed = l.committed
    /\ Len(m.entries) = keep + Len(tail)
    /\ \A k \in 1..keep : m.entries[k] = l.entries[k]
    /\ \A k \in 1..Len(tail) : m.entries[keep + k] = tail[k]
    /\ m.unstable.from <= l.snap.index + keep + 1
    /\ l.snap.index + keep + Len(tail) <= m.unstable.through
    /\ Holds(l.unstable, m.unstable, 1, l.snap.index + keep + Len(tail))
-----------------------------------------------------------------------------
(* The operators of RaftLog *)

\* A nonempty set of naturals has a least element, and Least picks it.
LEMMA LeastProperty ==
    ASSUME NEW S \in SUBSET Nat, S # {}
    PROVE  Least(S) \in S /\ \A y \in S : Least(S) <= y
<1> DEFINE R == {ss \in Nat \X Nat : ss[1] < ss[2]}
<1>1. IsWellFoundedOn(R, Nat)
  BY NatLessThanWellFounded DEF OpToRel
<1> HIDE DEF R
<1>2. PICK x \in S : \A y \in S : ~(<<y, x>> \in R)
  BY <1>1, WFMin, Zenon
<1>3. \A y \in S : x <= y
  <2> TAKE y \in S
  <2>1. x \in Nat /\ y \in Nat /\ <<y, x>> \in Nat \X Nat
    OBVIOUS
  <2>2. ~(y < x)
    BY <1>2, <2>1 DEF R
  <2> QED
    BY <2>1, <2>2
<1> QED
  BY <1>3, Zenon DEF Least

\* What the queries answer on a well formed log: it ends Len(entries) after the
\* boundary, has a term exactly between the two, and terms never fall.
LEMMA Queries ==
    ASSUME NEW l, WellFormed(l)
    PROVE  /\ l.snap.index \in Nat /\ l.snap.term \in Nat /\ l.committed \in Nat
           /\ l.entries \in Seq(Position) /\ Len(l.entries) \in Nat
           /\ LastIndex(l) = l.snap.index + Len(l.entries)
           /\ \A i \in Nat : HasTerm(l, i) <=> i \in l.snap.index..LastIndex(l)
           /\ \A k \in 1..Len(l.entries) :
                 /\ l.entries[k] \in Position
                 /\ l.entries[k].index = l.snap.index + k
                 /\ TermAt(l, l.snap.index + k) = l.entries[k].term
           /\ TermAt(l, l.snap.index) = l.snap.term
           /\ \A i \in l.snap.index..LastIndex(l) : TermAt(l, i) \in Nat
           /\ \A i \in l.snap.index..(LastIndex(l) - 1) : TermAt(l, i) <= TermAt(l, i + 1)
<1> DEFINE b == l.snap.index
           es == l.entries
<1>1. /\ b \in Nat /\ l.snap.term \in Nat /\ l.committed \in Nat
      /\ es \in Seq(Position) /\ Len(es) \in Nat
  BY DEF WellFormed, LogRecord, Position
<1>2. \A k \in 1..Len(es) : es[k] \in Position
  BY <1>1, ElementOfSeq
<1>3. \A k \in 1..Len(es) :
         es[k].index = b + k /\ es[k].term >= (IF k = 1 THEN l.snap.term ELSE es[k - 1].term)
  <2>1. Continuous(es, b + 1, l.snap.term)
    BY DEF WellFormed
  <2> TAKE k \in 1..Len(es)
  <2>2. /\ es[k].index = b + 1 + k - 1
        /\ es[k].term >= (IF k = 1 THEN l.snap.term ELSE es[k - 1].term)
    BY <2>1 DEF Continuous
  <2>3. b + 1 + k - 1 = b + k
    BY <1>1
  <2> QED
    BY <2>2, <2>3
<1>4. LastIndex(l) = b + Len(es)
  <2>1. CASE es = << >>
    BY <2>1, <1>1 DEF LastIndex
  <2>2. CASE es # << >>
    <3>1. Len(es) \in 1..Len(es)
      BY <2>2, <1>1
    <3> QED
      BY <2>2, <3>1, <1>3 DEF LastIndex
  <2> QED
    BY <2>1, <2>2
<1>5. \A i \in Nat : HasTerm(l, i) <=> i \in b..LastIndex(l)
  BY <1>1, <1>4 DEF HasTerm, HasEntry, FirstIndex
<1>6. \A k \in 1..Len(es) : TermAt(l, b + k) = es[k].term
  BY <1>1 DEF TermAt, EntryAt
<1>7. TermAt(l, b) = l.snap.term
  BY DEF TermAt
<1>8. \A i \in b..LastIndex(l) : TermAt(l, i) \in Nat
  <2> TAKE i \in b..LastIndex(l)
  <2>1. CASE i = b
    BY <2>1, <1>1, <1>7
  <2>2. CASE i # b
    <3>1. i - b \in 1..Len(es) /\ b + (i - b) = i
      BY <2>2, <1>1, <1>4
    <3>2. TermAt(l, i) = es[i - b].term /\ es[i - b] \in Position
      BY <3>1, <1>6, <1>2
    <3> QED
      BY <3>2 DEF Position
  <2> QED
    BY <2>1, <2>2
<1>9. \A i \in b..(LastIndex(l) - 1) : TermAt(l, i) <= TermAt(l, i + 1)
  <2> TAKE i \in b..(LastIndex(l) - 1)
  <2>1. i + 1 - b \in 1..Len(es) /\ b + (i + 1 - b) = i + 1
    BY <1>1, <1>4
  <2>2. TermAt(l, i + 1) = es[i + 1 - b].term /\ es[i + 1 - b] \in Position
    BY <2>1, <1>6, <1>2
  <2>3. CASE i = b
    <3>1. i + 1 - b = 1
      BY <2>3, <1>1
    <3> QED
      BY <2>3, <3>1, <2>1, <2>2, <1>1, <1>3, <1>7, Zenon DEF Position
  <2>4. CASE i # b
    <3>1. i - b \in 1..Len(es) /\ b + (i - b) = i /\ (i + 1 - b) - 1 = i - b /\ i + 1 - b # 1
      <4>1. i \in Nat /\ b \in Nat /\ Len(es) \in Nat /\ b + 1 <= i /\ i <= b + Len(es) - 1
        BY <2>4, <1>1, <1>4
      <4> HIDE DEF b, es
      <4> QED
        BY <4>1
    <3>2. TermAt(l, i) = es[i - b].term /\ es[i - b] \in Position
      BY <3>1, <1>6, <1>2
    <3>3. es[i + 1 - b].term >= es[i - b].term
      BY <2>1, <3>1, <1>3
    <3> QED
      BY <2>2, <3>2, <3>3 DEF Position
  <2> QED
    BY <2>3, <2>4
<1> QED
  BY <1>1, <1>2, <1>3, <1>4, <1>5, <1>6, <1>7, <1>8, <1>9

\* The window operations stay windows, and marking a range covers it.
LEMMA Windows ==
    ASSUME NEW u \in Window, NEW f \in Nat, NEW t \in Nat
    PROVE  /\ MarkRange(u, f, t) \in Window
           /\ MarkRange(u, f, t).from <= f /\ t <= MarkRange(u, f, t).through
           /\ TruncateFrom(u, f) \in Window
           /\ MarkStableThrough(u, f) \in Window
<1>1. /\ MarkRange(u, f, t) \in Window
      /\ MarkRange(u, f, t).from <= f /\ t <= MarkRange(u, f, t).through
  BY DEF Window, MarkRange, NoWindow, Smaller, Larger
<1>2. TruncateFrom(u, f) \in Window
  BY DEF Window, TruncateFrom, NoWindow
<1>3. MarkStableThrough(u, f) \in Window
  BY DEF Window, MarkStableThrough, NoWindow
<1> QED
  BY <1>1, <1>2, <1>3

\* An append keeps the whole window (mark_range), and a replaced suffix keeps
\* it up to the new end of the log (truncate_from, then mark_range).
LEMMA WindowsHold ==
    ASSUME NEW u \in Window, NEW f \in Nat, NEW t \in Nat, f <= t
    PROVE  /\ Holds(u, MarkRange(u, f, t), 1, t)
           /\ Holds(u, MarkRange(TruncateFrom(u, f), f, t), 1, t)
<1>1. Holds(u, MarkRange(u, f, t), 1, t)
  BY DEF Holds, Within, Window, MarkRange, NoWindow, Smaller, Larger
<1>2. ASSUME NEW i \in Nat, 1 <= i, i <= t, Within(i, u)
      PROVE  Within(i, MarkRange(TruncateFrom(u, f), f, t))
  <2>1. u # NoWindow
    BY <1>2 DEF Within, NoWindow
  <2>2. CASE f <= u.from
    BY <1>2, <2>1, <2>2 DEF Within, Window, MarkRange, TruncateFrom, NoWindow
  <2>3. CASE u.from < f
    BY <1>2, <2>1, <2>3 DEF Within, Window, MarkRange, TruncateFrom, NoWindow, Smaller, Larger
  <2> QED
    BY <2>2, <2>3 DEF Window
<1> QED
  BY <1>1, <1>2 DEF Holds

\* A confirmation keeps the window beyond the confirmed index
\* (mark_stable_through, discard_through).
LEMMA StableHolds ==
    ASSUME NEW u \in Window, NEW f \in Nat, NEW t \in Nat
    PROVE  Holds(u, MarkStableThrough(u, f), f + 1, t)
BY DEF Holds, Within, Window, MarkStableThrough, NoWindow

\* The entries of a log up to the first `keep`, followed by a suffix that
\* continues them, continue the boundary.
LEMMA JoinedEntries ==
    ASSUME NEW l, WellFormed(l), NEW keep \in 0..Len(l.entries), NEW tail \in Seq(Position),
           Continuous(tail, l.snap.index + keep + 1, TermAt(l, l.snap.index + keep))
    PROVE  LET ms == SubSeq(l.entries, 1, keep) \o tail
           IN /\ ms \in Seq(Position) /\ Len(ms) = keep + Len(tail) /\ Len(tail) \in Nat
              /\ \A k \in 1..keep : ms[k] = l.entries[k]
              /\ \A k \in 1..Len(tail) : ms[keep + k] = tail[k]
              /\ Continuous(ms, l.snap.index + 1, l.snap.term)
<1> DEFINE b == l.snap.index
           es == l.entries
           head == SubSeq(es, 1, keep)
           ms == head \o tail
<1>1. /\ b \in Nat /\ l.snap.term \in Nat /\ l.committed \in Nat
      /\ es \in Seq(Position) /\ Len(es) \in Nat
  BY Queries
<1>2. /\ head \in Seq(Position) /\ Len(head) = keep
      /\ \A k \in 1..keep : head[k] = es[k]
  <2>1. \A k \in 1..keep : es[k] \in Position
    BY <1>1, ElementOfSeq
  <2>2. keep \in Int /\ 1 \in Int /\ keep \in Nat
    BY <1>1
  <2> HIDE DEF es
  <2>3. /\ head \in Seq(Position)
        /\ Len(head) = IF 1 <= keep THEN keep - 1 + 1 ELSE 0
        /\ \A i \in 1..(keep - 1 + 1) : head[i] = es[1 + i - 1]
    BY <2>1, <2>2, SubSeqProperties
  <2> QED
    BY <2>2, <2>3
<1>3. /\ ms \in Seq(Position) /\ Len(ms) = keep + Len(tail) /\ Len(tail) \in Nat
      /\ \A i \in 1..(keep + Len(tail)) : ms[i] = IF i <= keep THEN head[i] ELSE tail[i - keep]
  BY <1>2, ConcatProperties
<1> HIDE DEF ms, head
<1>4. \A k \in 1..keep : ms[k] = es[k]
  BY <1>1, <1>2, <1>3
<1>5. \A k \in 1..Len(tail) : ms[keep + k] = tail[k]
  BY <1>1, <1>2, <1>3
<1>6. ASSUME NEW k \in 1..Len(ms)
      PROVE  /\ ms[k].index = b + 1 + k - 1
             /\ ms[k].term >= (IF k = 1 THEN l.snap.term ELSE ms[k - 1].term)
  <2>0. k \in Nat /\ keep \in Nat /\ b \in Nat /\ keep <= Len(es) /\ Len(es) \in Nat
    BY <1>1, <1>3
  <2>1. CASE k <= keep
    <3>1. k \in 1..keep /\ k \in 1..Len(es) /\ (k # 1 => k - 1 \in 1..keep)
      BY <2>1, <1>1
    <3>2. /\ es[k].index = b + 1 + k - 1
          /\ es[k].term >= (IF k = 1 THEN l.snap.term ELSE es[k - 1].term)
      BY <3>1 DEF WellFormed, Continuous
    <3> QED
      BY <3>1, <3>2, <1>4
  <2>2. CASE k > keep
    <3>0. k - keep \in 1..Len(tail) /\ keep + (k - keep) = k
      BY <2>2, <1>1, <1>3
    <3>1. PICK j \in 1..Len(tail) : keep + j = k
      BY <3>0
    <3>6. j \in Nat /\ 1 <= j /\ j <= Len(tail) /\ Len(tail) \in Nat
      BY <3>1, <1>3
    <3>2. ms[k] = tail[j]
      BY <3>1, <1>5
    <3>3. /\ tail[j].index = b + keep + 1 + j - 1
          /\ tail[j].term >= (IF j = 1 THEN TermAt(l, b + keep) ELSE tail[j - 1].term)
      BY <3>1 DEF Continuous
    <3>4. CASE j # 1
      <4>1. j - 1 \in 1..Len(tail) /\ keep + (j - 1) = k - 1 /\ k # 1
        BY <3>4, <3>1, <3>6, <2>0
      <4>2. ms[k - 1] = tail[j - 1]
        BY <4>1, <1>5, Zenon
      <4>3. b + keep + 1 + j - 1 = b + 1 + (keep + j) - 1
        BY <2>0, <3>6
      <4> QED
        BY <3>1, <3>2, <3>3, <3>4, <4>1, <4>2, <4>3
    <3>5. CASE j = 1
      <4>1. k = keep + 1 /\ b + keep + 1 + j - 1 = b + 1 + k - 1
        BY <3>5, <2>0, <3>1
      <4>2. CASE keep = 0
        <5>1. TermAt(l, b + keep) = l.snap.term /\ k = 1
          BY <4>1, <4>2, <1>1, Queries
        <5> QED
          BY <3>2, <3>3, <3>5, <4>1, <5>1
      <4>3. CASE keep # 0
        <5>0. keep >= 1
          BY <4>3, <2>0
        <5>3. k - 1 = keep /\ k # 1
          BY <4>1, <5>0, <2>0
        <5>1. keep \in 1..Len(es) /\ keep \in 1..keep
          BY <5>0, <2>0
        <5>2. TermAt(l, b + keep) = es[keep].term /\ ms[k - 1] = es[keep]
          BY <5>3, <5>1, <1>4, Queries
        <5> QED
          BY <3>2, <3>3, <3>5, <4>1, <5>3, <5>2
      <4> QED
        BY <4>2, <4>3
    <3> QED
      BY <3>4, <3>5
  <2> QED
    BY <2>1, <2>2, <1>1
<1>7. Continuous(ms, b + 1, l.snap.term)
  BY <1>6 DEF Continuous
<1> QED
  BY <1>3, <1>4, <1>5, <1>7 DEF ms, head

\* A log whose entries after the first `keep` are replaced by a suffix that
\* continues them: everything up to there is as before, then comes the suffix.
LEMMA Joined ==
    ASSUME NEW l, WellFormed(l), NEW keep \in 0..Len(l.entries),
           NEW tail \in Seq(Position), NEW u \in Window,
           Continuous(tail, l.snap.index + keep + 1, TermAt(l, l.snap.index + keep)),
           l.committed <= l.snap.index + keep
    PROVE  LET m == Spliced(l, keep, tail, u)
           IN /\ WellFormed(m)
              /\ m.snap = l.snap /\ m.committed = l.committed /\ m.unstable = u
              /\ Len(m.entries) = keep + Len(tail)
              /\ \A k \in 1..keep : m.entries[k] = l.entries[k]
              /\ \A k \in 1..Len(tail) : m.entries[keep + k] = tail[k]
<1> DEFINE m == Spliced(l, keep, tail, u)
<1> DEFINE ms == SubSeq(l.entries, 1, keep) \o tail
<1>1. /\ ms \in Seq(Position) /\ Len(ms) = keep + Len(tail) /\ Len(tail) \in Nat
      /\ \A k \in 1..keep : ms[k] = l.entries[k]
      /\ \A k \in 1..Len(tail) : ms[keep + k] = tail[k]
      /\ Continuous(ms, l.snap.index + 1, l.snap.term)
  BY JoinedEntries
<1>2. /\ l.snap \in Position /\ l.snap.index \in Nat /\ l.committed \in Nat
      /\ l.snap.index <= l.committed
  BY DEF WellFormed, LogRecord, Position
<1> HIDE DEF ms, m
<1>3. /\ m \in LogRecord /\ m.snap = l.snap /\ m.committed = l.committed
      /\ m.unstable = u /\ m.entries = ms
  BY <1>1, <1>2 DEF LogRecord, ms, m, Spliced
<1>4. l.committed <= l.snap.index + Len(ms)
  <2>1. keep \in Nat /\ Len(ms) = keep + Len(tail) /\ Len(tail) \in Nat
    BY <1>1
  <2>2. l.committed <= l.snap.index + keep
    OBVIOUS
  <2> QED
    BY <2>1, <2>2, <1>2
<1>5. WellFormed(m)
  BY <1>1, <1>2, <1>3, <1>4 DEF WellFormed
<1>6. /\ Len(m.entries) = keep + Len(tail)
      /\ \A k \in 1..keep : m.entries[k] = l.entries[k]
      /\ \A k \in 1..Len(tail) : m.entries[keep + k] = tail[k]
  BY <1>1, <1>3
<1> QED
  BY <1>3, <1>5, <1>6 DEF m

\* A log cut off behind a snapshot whose boundary it confirms: what lies beyond
\* the boundary stays in place.
LEMMA Shortened ==
    ASSUME NEW l, WellFormed(l), NEW snap \in Position,
           snap.index > l.snap.index, snap.index <= LastIndex(l),
           snap.term = TermAt(l, snap.index),
           NEW c \in Nat, snap.index <= c, c <= LastIndex(l), NEW u \in Window,
           NEW m, m = Shorter(l, snap, c, u)
    PROVE  /\ WellFormed(m)
           /\ LastIndex(m) = LastIndex(l)
           /\ \A i \in snap.index..LastIndex(l) : TermAt(m, i) = TermAt(l, i)
           /\ \A i \in (snap.index + 1)..LastIndex(l) : EntryAt(m, i) = EntryAt(l, i)
<1> DEFINE b == l.snap.index
           d == snap.index - b
           es == l.entries
           ms == DropFirst(es, d)
<1>1. /\ b \in Nat /\ snap.index \in Nat /\ snap.term \in Nat
      /\ es \in Seq(Position) /\ Len(es) \in Nat
      /\ LastIndex(l) = b + Len(es)
  BY Queries DEF Position
<1>2. d \in 1..Len(es) /\ b + d = snap.index
  BY <1>1
<1> HIDE DEF d
<1>3. ms = SubSeq(es, d + 1, Len(es))
  <2>1. Smaller(d, Len(es)) = d
    BY <1>2 DEF Smaller
  <2> QED
    BY <2>1 DEF DropFirst
<1>4. /\ ms \in Seq(Position) /\ Len(ms) = Len(es) - d
      /\ \A k \in 1..(Len(es) - d) : ms[k] = es[k + d]
  <2>1. d + 1 \in Int /\ Len(es) \in Int /\ d \in Nat /\ d <= Len(es)
    BY <1>1, <1>2
  <2>2. \A i \in (d + 1)..Len(es) : es[i] \in Position
    <3> TAKE i \in (d + 1)..Len(es)
    <3>1. i \in 1..Len(es)
      BY <2>1
    <3> QED
      BY <3>1, <1>1, ElementOfSeq
  <2> HIDE DEF es
  <2>3. /\ SubSeq(es, d + 1, Len(es)) \in Seq(Position)
        /\ Len(SubSeq(es, d + 1, Len(es)))
              = IF d + 1 <= Len(es) THEN Len(es) - (d + 1) + 1 ELSE 0
        /\ \A i \in 1..(Len(es) - (d + 1) + 1) :
              SubSeq(es, d + 1, Len(es))[i] = es[(d + 1) + i - 1]
    BY <2>1, <2>2, SubSeqProperties
  <2>4. \A k \in 1..(Len(es) - d) : ms[k] = es[k + d]
    <3> TAKE k \in 1..(Len(es) - d)
    <3>1. k \in 1..(Len(es) - (d + 1) + 1) /\ (d + 1) + k - 1 = k + d
      BY <2>1
    <3> QED
      BY <3>1, <2>3, <1>3
  <2>5. Len(ms) = Len(es) - d
    BY <2>1, <2>3, <1>3
  <2> QED
    BY <2>3, <2>4, <2>5, <1>3
<1>5. m \in LogRecord /\ m.snap = snap /\ m.entries = ms /\ m.committed = c
  BY <1>4 DEF LogRecord, Position, d, Shorter
<1> HIDE DEF ms
<1>6. ASSUME NEW k \in 1..Len(ms)
      PROVE  /\ ms[k].index = snap.index + 1 + k - 1
             /\ ms[k].term >= (IF k = 1 THEN snap.term ELSE ms[k - 1].term)
  <2>1. /\ k \in Nat /\ 1 <= k /\ k <= Len(es) - d /\ d \in Nat /\ 1 <= d /\ d <= Len(es)
        /\ b \in Nat /\ Len(es) \in Nat
    BY <1>1, <1>2, <1>4
  <2>2. /\ k + d \in 1..Len(es) /\ d \in 1..Len(es) /\ k + d # 1
        /\ k \in 1..(Len(es) - d) /\ (k # 1 => k - 1 \in 1..(Len(es) - d))
    BY <2>1
  <2>3. ms[k] = es[k + d]
    BY <2>2, <1>4
  <2>4. es[k + d].index = b + (k + d)
    BY <2>2, Queries
  <2>5. es[k + d].term >= es[k + d - 1].term
    <3>1. Continuous(es, b + 1, l.snap.term)
      BY DEF WellFormed
    <3> HIDE DEF es, b
    <3>2. es[k + d].term >= (IF k + d = 1 THEN l.snap.term ELSE es[(k + d) - 1].term)
      BY <3>1, <2>2, Zenon DEF Continuous
    <3> QED
      BY <3>2, <2>2
  <2>6. ms[k].index = snap.index + 1 + k - 1
    <3>1. b + (k + d) = snap.index + 1 + k - 1
      BY <2>1, <1>2
    <3> QED
      BY <3>1, <2>3, <2>4
  <2>7. CASE k = 1
    <3>1. k + d - 1 = d
      BY <2>7, <2>1
    <3>2. TermAt(l, b + d) = es[d].term
      BY <2>2, Queries
    <3>3. snap.term = es[d].term
      BY <3>2, <1>2
    <3> QED
      BY <2>7, <3>1, <3>3, <2>3, <2>5, <2>6
  <2>8. CASE k # 1
    <3>1. (k - 1) + d = k + d - 1
      BY <2>1
    <3>2. ms[k - 1] = es[(k - 1) + d]
      BY <2>8, <2>2, <1>4
    <3> QED
      BY <2>8, <3>1, <3>2, <2>3, <2>5, <2>6
  <2> QED
    BY <2>7, <2>8
<1>7. WellFormed(m)
  <2>1. Continuous(ms, snap.index + 1, snap.term)
    BY <1>6 DEF Continuous
  <2>2. c <= snap.index + Len(ms)
    BY <1>1, <1>2, <1>4
  <2> QED
    BY <2>1, <2>2, <1>5 DEF WellFormed
<1>8. LastIndex(m) = LastIndex(l)
  <2>1. LastIndex(m) = snap.index + Len(ms)
    BY <1>7, <1>5, Queries
  <2> QED
    BY <2>1, <1>1, <1>2, <1>4
<1>9. ASSUME NEW i \in (snap.index + 1)..LastIndex(l)
      PROVE  EntryAt(m, i) = EntryAt(l, i) /\ TermAt(m, i) = TermAt(l, i)
  <2>1. /\ i \in Nat /\ d \in Nat /\ b \in Nat /\ snap.index = b + d
        /\ snap.index < i /\ i <= b + Len(es) /\ 1 <= d /\ Len(es) \in Nat
    BY <1>1, <1>2
  <2>2. (i - (b + d)) + d = i - b /\ i # b /\ i # b + d /\ i - (b + d) \in 1..(Len(es) - d)
    <3> HIDE DEF b, es
    <3>1. (i - (b + d)) + d = i - b
      BY <2>1
    <3>2. i # b /\ i # b + d
      BY <2>1
    <3>3. i - (b + d) \in 1..(Len(es) - d)
      BY <2>1
    <3> QED
      BY <3>1, <3>2, <3>3
  <2>3. ms[i - (b + d)] = es[i - b]
    BY <2>2, <1>4
  <2> QED
    BY <2>1, <2>2, <2>3, <1>5, Zenon DEF EntryAt, TermAt
<1>10. TermAt(m, snap.index) = TermAt(l, snap.index)
  BY <1>5 DEF TermAt
<1> QED
  BY <1>1, <1>7, <1>8, <1>9, <1>10

\* What merge_from_leader does with any entries at all that the log does not
\* hold: it refuses them, or puts those from the first change on in place.
LEMMA MergeCases ==
    ASSUME NEW l, WellFormed(l), NEW es \in Seq(Position), Changes(l, es) # {},
           NEW at, at = Least(Changes(l, es)), NEW tail, tail = NewEntries(l, es)
    PROVE  /\ at \in 1..Len(es) /\ at \in Changes(l, es)
           /\ \A j \in Changes(l, es) : at <= j
           /\ tail \in Seq(Position) /\ Len(tail) = Len(es) - at + 1
           /\ \A k \in 1..Len(tail) : tail[k] = es[at + k - 1]
           /\ MergeFromLeader(l, es) =
                 IF \/ tail[1].index > LastIndex(l) + 1
                    \/ ~ValidateContinuity(l, tail, tail[1].index)
                    \/ tail[1].index <= l.committed THEN Err(l)
                 ELSE Ok(PlacedLog(l, tail))
<1>1. Len(es) \in Nat /\ Changes(l, es) \in SUBSET Nat
  BY LenProperties DEF Changes
<1>2. at \in Changes(l, es) /\ \A j \in Changes(l, es) : at <= j
  BY <1>1, LeastProperty
<1>3. at \in 1..Len(es)
  BY <1>2 DEF Changes
<1>4. tail = SubSeq(es, at, Len(es))
  BY Zenon DEF NewEntries
<1>5. /\ tail \in Seq(Position) /\ Len(tail) = Len(es) - at + 1
      /\ \A k \in 1..Len(tail) : tail[k] = es[at + k - 1]
  <2>1. \A i \in at..Len(es) : es[i] \in Position
    <3> TAKE i \in at..Len(es)
    <3>1. i \in 1..Len(es)
      BY <1>1, <1>3
    <3> QED
      BY <3>1, ElementOfSeq
  <2>2. at \in Int /\ Len(es) \in Int /\ at <= Len(es)
    BY <1>1, <1>3
  <2>3. /\ SubSeq(es, at, Len(es)) \in Seq(Position)
        /\ Len(SubSeq(es, at, Len(es))) = IF at <= Len(es) THEN Len(es) - at + 1 ELSE 0
        /\ \A i \in 1..(Len(es) - at + 1) : SubSeq(es, at, Len(es))[i] = es[at + i - 1]
    BY <2>1, <2>2, SubSeqProperties
  <2> QED
    BY <2>2, <2>3, <1>4
<1>6. Len(tail) \in Nat /\ 1 \in 1..Len(tail) /\ tail[1] = es[at] /\ tail # << >>
  <2>1. Len(tail) \in Nat /\ 1 \in 1..Len(tail) /\ at + 1 - 1 = at
    BY <1>1, <1>3, <1>5
  <2>2. tail[1] = es[at]
    BY <2>1, <1>5
  <2>3. tail # << >>
    BY <2>1, <1>5, EmptySeq
  <2> QED
    BY <2>1, <2>2, <2>3
<1>7. 1 \in Changes(l, tail)
  BY <1>2, <1>6 DEF Changes
<1>8. Least(Changes(l, tail)) = 1
  <2>1. Changes(l, tail) \in SUBSET Nat /\ \A j \in Changes(l, tail) : j >= 1
    BY <1>6 DEF Changes
  <2>2. /\ Least(Changes(l, tail)) \in Changes(l, tail)
        /\ \A j \in Changes(l, tail) : Least(Changes(l, tail)) <= j
    BY <2>1, <1>7, LeastProperty
  <2>3. Least(Changes(l, tail)) \in Nat /\ Least(Changes(l, tail)) >= 1
          /\ Least(Changes(l, tail)) <= 1
    BY <2>1, <2>2, <1>7
  <2> QED
    BY <2>3
<1>9. SubSeq(tail, 1, Len(tail)) = tail
  BY <1>5, SubSeqFull
<1>10. MergeFromLeader(l, es) = ReplaceConflict(l, tail)
  BY DEF MergeFromLeader
<1>11. Changes(l, tail) # {}
  BY <1>7
<1> QED
  BY <1>2, <1>3, <1>5, <1>6, <1>8, <1>9, <1>10, <1>11, Zenon DEF ReplaceConflict, PlacedLog

\* The arithmetic of the place of an entry in the log's vector: the index less the first.
LEMMA Offset ==
    \A b, n, f \in Nat : b + 1 <= f /\ f <= b + n + 1 =>
        /\ f - (b + 1) \in Nat /\ f - (b + 1) <= n
        /\ b + (f - (b + 1)) + 1 = f /\ b + (f - (b + 1)) = f - 1
OBVIOUS

\* Where the guards of the log let entries in, they follow on a kept prefix
\* that holds the commit point, and the new window covers them.
LEMMA PlacedAt ==
    ASSUME NEW l, WellFormed(l), NEW tail \in Seq(Position), tail # << >>,
           tail[1].index <= LastIndex(l) + 1, l.committed < tail[1].index,
           ValidateContinuity(l, tail, tail[1].index)
    PROVE  LET keep == tail[1].index - FirstIndex(l)
               u == MarkRange(TruncateFrom(l.unstable, tail[1].index), tail[1].index,
                              tail[Len(tail)].index)
           IN /\ keep \in Nat /\ keep <= Len(l.entries) /\ Len(l.entries) \in Nat
              /\ l.snap.index + keep + 1 = tail[1].index
              /\ l.committed <= l.snap.index + keep
              /\ Continuous(tail, l.snap.index + keep + 1, TermAt(l, l.snap.index + keep))
              /\ u \in Window /\ u.from <= l.snap.index + keep + 1
              /\ l.snap.index + keep + Len(tail) <= u.through
              /\ Holds(l.unstable, u, 1, l.snap.index + keep + Len(tail))
<1> DEFINE b == l.snap.index
           f == tail[1].index
           t == tail[Len(tail)].index
           u == MarkRange(TruncateFrom(l.unstable, f), f, t)
           keep == f - FirstIndex(l)
<1>1. /\ b \in Nat /\ l.committed \in Nat /\ Len(l.entries) \in Nat
      /\ LastIndex(l) = b + Len(l.entries) /\ b <= l.committed
      /\ l.unstable \in Window
  BY Queries DEF WellFormed, LogRecord
<1>2. Len(tail) \in Nat /\ Len(tail) >= 1 /\ Len(tail) \in 1..Len(tail) /\ 1 \in 1..Len(tail)
  <2>1. Len(tail) \in Nat /\ Len(tail) # 0
    BY LenProperties, EmptySeq
  <2> QED
    BY <2>1
<1>3. f \in Nat /\ t \in Nat /\ t = f + Len(tail) - 1
  <2>1. tail[1] \in Position /\ tail[Len(tail)] \in Position
    BY <1>2, ElementOfSeq
  <2>2. tail[Len(tail)].index = tail[1].index + Len(tail) - 1
    BY <1>2 DEF ValidateContinuity, Continuous
  <2> QED
    BY <2>1, <2>2 DEF Position
<1>4. b + 1 <= f /\ f <= b + Len(l.entries) + 1 /\ l.committed <= f - 1
  <2>1. f <= LastIndex(l) + 1 /\ l.committed < f
    OBVIOUS
  <2> HIDE DEF b, f, t
  <2>2. b + 1 <= f /\ l.committed <= f - 1
    BY <2>1, <1>1, <1>3
  <2>3. f <= b + Len(l.entries) + 1
    BY <2>1, <1>1
  <2> QED
    BY <2>2, <2>3
<1>5. Continuous(tail, f, TermAt(l, f - 1))
  BY DEF ValidateContinuity
<1>6. u \in Window /\ u.from <= f /\ t <= u.through /\ Holds(l.unstable, u, 1, t)
  <2>1. u \in Window /\ u.from <= f /\ t <= u.through
    BY <1>1, <1>3, Windows, Zenon
  <2>2. f <= t
    BY <1>2, <1>3
  <2> QED
    BY <2>1, <2>2, <1>1, <1>3, WindowsHold, Zenon
<1> HIDE DEF f, t, u
<1>7. keep = f - (b + 1)
  BY DEF FirstIndex
<1> HIDE DEF b, keep
<1>8. keep \in Nat /\ keep <= Len(l.entries) /\ b + keep + 1 = f /\ b + keep = f - 1
  <2>1. /\ f - (b + 1) \in Nat /\ f - (b + 1) <= Len(l.entries)
        /\ b + (f - (b + 1)) + 1 = f /\ b + (f - (b + 1)) = f - 1
    BY <1>1, <1>3, <1>4, Offset, Zenon
  <2> QED BY <2>1, <1>7, Zenon
<1>9. b + keep + Len(tail) = t
  BY <1>1, <1>2, <1>3, <1>8
<1> QED
  BY <1>1, <1>4, <1>5, <1>6, <1>8, <1>9 DEF f, t, u, b, keep

\* Entries put into the log where its guards allow: the log stays well formed,
\* keeps what precedes them, and its unstable window covers them.
LEMMA Placed ==
    ASSUME NEW l, WellFormed(l), NEW tail \in Seq(Position), tail # << >>,
           tail[1].index <= LastIndex(l) + 1, l.committed < tail[1].index,
           ValidateContinuity(l, tail, tail[1].index)
    PROVE  \E keep \in Nat : /\ l.snap.index + keep + 1 = tail[1].index
                             /\ Extends(PlacedLog(l, tail), l, keep, tail)
<1> DEFINE keep == tail[1].index - FirstIndex(l)
           m == PlacedLog(l, tail)
           u == MarkRange(TruncateFrom(l.unstable, tail[1].index), tail[1].index,
                          tail[Len(tail)].index)
<1>1. /\ keep \in Nat /\ keep <= Len(l.entries) /\ Len(l.entries) \in Nat
      /\ l.snap.index + keep + 1 = tail[1].index
      /\ l.committed <= l.snap.index + keep
      /\ Continuous(tail, l.snap.index + keep + 1, TermAt(l, l.snap.index + keep))
      /\ u \in Window /\ u.from <= l.snap.index + keep + 1
      /\ l.snap.index + keep + Len(tail) <= u.through
      /\ Holds(l.unstable, u, 1, l.snap.index + keep + Len(tail))
  BY PlacedAt
<1>2. keep \in 0..Len(l.entries)
  BY <1>1
<1>3. m = [l EXCEPT !.entries = SubSeq(l.entries, 1, keep) \o tail, !.unstable = u]
  BY DEF PlacedLog
<1> HIDE DEF u, keep, m
<1>4. m = Spliced(l, keep, tail, u)
  <2> DEFINE ms == SubSeq(l.entries, 1, keep) \o tail
  <2>1. m = [l EXCEPT !.entries = ms, !.unstable = u]
    BY <1>3
  <2>2. l \in LogRecord
    BY DEF WellFormed
  <2> HIDE DEF ms
  <2>3. m = [snap |-> l.snap, committed |-> l.committed, unstable |-> u, entries |-> ms]
    BY <2>1, <2>2, Zenon DEF LogRecord
  <2> QED
    BY <2>3 DEF ms, Spliced
<1>5. /\ WellFormed(m)
      /\ m.snap = l.snap /\ m.committed = l.committed /\ m.unstable = u
      /\ Len(m.entries) = keep + Len(tail)
      /\ \A k \in 1..keep : m.entries[k] = l.entries[k]
      /\ \A k \in 1..Len(tail) : m.entries[keep + k] = tail[k]
  BY <1>1, <1>2, <1>4, Joined, SMTT(30)
<1>6. Extends(m, l, keep, tail)
  BY <1>1, <1>5 DEF Extends
<1> QED
  BY <1>1, <1>6 DEF m

\* Such a log through the queries.
LEMMA ExtendedTerms ==
    ASSUME NEW l, WellFormed(l), NEW m, NEW keep, NEW tail, Extends(m, l, keep, tail)
    PROVE  /\ LastIndex(m) = l.snap.index + keep + Len(tail)
           /\ \A i \in l.snap.index..(l.snap.index + keep) : TermAt(m, i) = TermAt(l, i)
           /\ \A k \in 1..Len(tail) : TermAt(m, l.snap.index + keep + k) = tail[k].term
<1> DEFINE b == l.snap.index
<1>0. /\ WellFormed(m) /\ m.snap = l.snap /\ Len(m.entries) = keep + Len(tail)
      /\ keep \in Nat /\ keep <= Len(l.entries) /\ tail \in Seq(Position)
      /\ \A k \in 1..keep : m.entries[k] = l.entries[k]
      /\ \A k \in 1..Len(tail) : m.entries[keep + k] = tail[k]
  BY DEF Extends
<1>1. b \in Nat /\ Len(l.entries) \in Nat /\ Len(tail) \in Nat
  BY <1>0, Queries, LenProperties
<1>2. /\ LastIndex(m) = m.snap.index + Len(m.entries)
      /\ TermAt(m, m.snap.index) = m.snap.term /\ TermAt(l, b) = l.snap.term
      /\ \A k \in 1..Len(m.entries) : TermAt(m, m.snap.index + k) = m.entries[k].term
      /\ \A k \in 1..Len(l.entries) : TermAt(l, b + k) = l.entries[k].term
  BY <1>0, Queries, Zenon
<1>3. LastIndex(m) = b + keep + Len(tail)
  BY <1>0, <1>1, <1>2
<1>4. ASSUME NEW i \in b..(b + keep) PROVE TermAt(m, i) = TermAt(l, i)
  <2>1. CASE i = b
    BY <2>1, <1>0, <1>2
  <2>2. CASE i # b
    <3>1. i - b \in 1..keep /\ i - b \in 1..Len(l.entries) /\ i - b \in 1..Len(m.entries)
      <4>1. /\ b \in Nat /\ keep \in Nat /\ keep <= Len(l.entries) /\ Len(l.entries) \in Nat
            /\ Len(m.entries) = keep + Len(tail) /\ Len(tail) \in Nat
        BY <1>0, <1>1
      <4> HIDE DEF b
      <4>2. i \in Nat /\ b + 1 <= i /\ i <= b + keep
        BY <4>1, <2>2
      <4> QED
        BY <4>1, <4>2
    <3>2. b + (i - b) = i
      BY <1>0, <1>1
    <3>3. TermAt(l, b + (i - b)) = l.entries[i - b].term
      BY <3>1, <1>2
    <3>4. TermAt(m, m.snap.index + (i - b)) = m.entries[i - b].term
      BY <3>1, <1>2
    <3>5. m.entries[i - b] = l.entries[i - b]
      BY <3>1, <1>0
    <3> QED
      BY <3>2, <3>3, <3>4, <3>5, <1>0
  <2> QED
    BY <2>1, <2>2
<1>5. ASSUME NEW k \in 1..Len(tail) PROVE TermAt(m, b + keep + k) = tail[k].term
  <2>1. keep + k \in 1..Len(m.entries) /\ b + (keep + k) = b + keep + k
    BY <1>0, <1>1
  <2>2. TermAt(m, m.snap.index + (keep + k)) = m.entries[keep + k].term
    BY <2>1, <1>0, <1>2
  <2> QED
    BY <2>1, <2>2, <1>0
<1> QED
  BY <1>3, <1>4, <1>5

\* Entries placed after the first `keep`: an index whose entry is new or
\* different lies in the window.
LEMMA ExtendedCovered ==
    ASSUME NEW l, WellFormed(l), NEW m, NEW keep, NEW tail, Extends(m, l, keep, tail)
    PROVE  Covers(l, m)
<1> DEFINE b == l.snap.index
<1>0. /\ WellFormed(m) /\ m.snap = l.snap /\ Len(m.entries) = keep + Len(tail)
      /\ keep \in Nat /\ keep <= Len(l.entries) /\ tail \in Seq(Position)
      /\ \A k \in 1..keep : m.entries[k] = l.entries[k]
      /\ m.unstable.from <= b + keep + 1 /\ b + keep + Len(tail) <= m.unstable.through
      /\ Holds(l.unstable, m.unstable, 1, b + keep + Len(tail))
  BY DEF Extends
<1>1. /\ b \in Nat /\ Len(l.entries) \in Nat /\ Len(tail) \in Nat
      /\ LastIndex(m) = m.snap.index + Len(m.entries)
      /\ m.unstable.from \in Nat /\ m.unstable.through \in Nat
  BY <1>0, Queries, LenProperties, Zenon DEF WellFormed, LogRecord, Window
<1> SUFFICES ASSUME NEW i \in FirstIndex(m)..LastIndex(m),
                    \/ Within(i, l.unstable)
                    \/ ~HasEntry(l, i) \/ EntryAt(l, i) # EntryAt(m, i)
             PROVE  Within(i, m.unstable)
  BY DEF Covers
<1>2. i \in Nat /\ b + 1 <= i /\ i <= b + keep + Len(tail)
  BY <1>0, <1>1 DEF FirstIndex
<1>a. CASE Within(i, l.unstable)
  <2>1. 1 <= i
    BY <1>1, <1>2
  <2> QED
    BY <2>1, <1>a, <1>0, <1>2 DEF Holds
<1> SUFFICES ASSUME ~HasEntry(l, i) \/ EntryAt(l, i) # EntryAt(m, i)
             PROVE  Within(i, m.unstable)
  BY <1>a
<1>3. ASSUME i <= b + keep PROVE FALSE
  <2>0. /\ keep \in Nat /\ keep <= Len(l.entries) /\ Len(l.entries) \in Nat
        /\ b \in Nat /\ i \in Nat /\ b + 1 <= i /\ i <= b + keep
    BY <1>0, <1>1, <1>2, <1>3
  <2>1. i - b \in 1..keep /\ i - b <= Len(l.entries)
    <3>1. \A x, y, k, n \in Nat : y + 1 <= x /\ x <= y + k /\ k <= n => x - y \in 1..k /\ x - y <= n
      BY SMT
    <3> QED
      BY <2>0, <3>1, Zenon
  <2>2. HasEntry(l, i)
    BY <2>1, <1>2 DEF HasEntry, FirstIndex
  <2>3. EntryAt(l, i) = EntryAt(m, i)
    BY <2>1, <1>0 DEF EntryAt
  <2> QED
    BY <2>2, <2>3
<1>4. b + keep + 1 <= i
  BY <1>0, <1>1, <1>2, <1>3
<1>5. m.unstable.from <= b + keep + 1 /\ b + keep + Len(tail) <= m.unstable.through
  BY <1>0
<1> HIDE DEF b
<1>6. m.unstable.from <= i
  BY <1>0, <1>1, <1>2, <1>4, <1>5
<1>7. i <= m.unstable.through
  BY <1>0, <1>1, <1>2, <1>5
<1> QED
  BY <1>6, <1>7 DEF Within

\* merge_from_leader on any entries whatever, well formed or not, from a leader
\* or not: the log stays well formed, its snapshot boundary and commit point
\* stay, and no term up to the commit point changes.
THEOREM MergeKeepsCommitted ==
    ASSUME NEW l, WellFormed(l), NEW es \in Seq(Position)
    PROVE  LET m == MergeFromLeader(l, es).log
           IN /\ WellFormed(m) /\ m.snap = l.snap /\ m.committed = l.committed
              /\ \A i \in l.snap.index..l.committed : TermAt(m, i) = TermAt(l, i)
<1> DEFINE m == MergeFromLeader(l, es).log
           tail == NewEntries(l, es)
<1>1. CASE Changes(l, es) = {}
  <2>1. m = l
    BY <1>1 DEF MergeFromLeader, NewEntries, ReplaceConflict, Ok
  <2> QED
    BY <2>1
<1>2. CASE Changes(l, es) # {}
  <2> DEFINE at == Least(Changes(l, es))
             guard == \/ tail[1].index > LastIndex(l) + 1
                      \/ ~ValidateContinuity(l, tail, tail[1].index)
                      \/ tail[1].index <= l.committed
  <2>1. /\ at \in 1..Len(es) /\ Len(tail) = Len(es) - at + 1
        /\ tail \in Seq(Position)
        /\ MergeFromLeader(l, es) = IF guard THEN Err(l) ELSE Ok(PlacedLog(l, tail))
    BY <1>2, MergeCases
  <2> HIDE DEF tail, at, guard
  <2>2. CASE guard
    <3>1. m = l
      BY <2>1, <2>2 DEF Err
    <3> QED
      BY <3>1
  <2>3. CASE ~guard
    <3>1. m = PlacedLog(l, tail)
      BY <2>1, <2>3 DEF Ok
    <3> HIDE DEF m
    <3>2. Len(es) \in Nat /\ Len(tail) >= 1
      BY <2>1, LenProperties
    <3>3. tail # << >>
      BY <3>2, <2>1, EmptySeq
    <3>4. tail[1] \in Position /\ tail[1].index \in Nat
      <4>1. Len(tail) \in Nat
        BY <2>1, LenProperties
      <4>2. 1 \in 1..Len(tail)
        BY <4>1, <3>2
      <4>3. tail[1] \in Position
        BY <4>2, <2>1, ElementOfSeq
      <4> QED
        BY <4>3 DEF Position
    <3>5. l.committed \in Nat /\ LastIndex(l) \in Nat /\ l.snap.index \in Nat
      BY Queries
    <3>6. /\ tail[1].index <= LastIndex(l) + 1 /\ l.committed < tail[1].index
          /\ ValidateContinuity(l, tail, tail[1].index)
      BY <2>3, <3>4, <3>5 DEF guard
    <3>7. PICK keep \in Nat : Extends(m, l, keep, tail)
      BY <2>1, <3>1, <3>3, <3>6, Placed
    <3>8. /\ WellFormed(m) /\ m.snap = l.snap /\ m.committed = l.committed
          /\ l.committed <= l.snap.index + keep
      BY <3>7 DEF Extends
    <3>9. \A i \in l.snap.index..(l.snap.index + keep) : TermAt(m, i) = TermAt(l, i)
      BY <3>7, ExtendedTerms
    <3>10. \A i \in l.snap.index..l.committed : TermAt(m, i) = TermAt(l, i)
      BY <3>5, <3>8, <3>9
    <3> QED
      BY <3>8, <3>10 DEF m
  <2> QED
    BY <2>2, <2>3
<1> QED
  BY <1>1, <1>2
-----------------------------------------------------------------------------
(* The steps *)

\* A log extended beyond its commit point keeps the invariant.
LEMMA ExtendedInv ==
    ASSUME NEW l, NEW d, Inv(l, d), NEW m, NEW keep, NEW tail,
           Extends(m, l, keep, tail), l.snap.index + keep + Len(tail) <= MaxIndex
    PROVE  Inv(m, d) /\ Covers(l, m)
<1>1. WellFormed(l) /\ d \in Seq(Nat) /\ Len(d) = l.committed /\ Kept(l, d)
  BY DEF Inv
<1>2. /\ WellFormed(m) /\ m.snap = l.snap /\ m.committed = l.committed
      /\ l.committed <= l.snap.index + keep /\ keep \in Nat
  BY DEF Extends
<1>3. /\ LastIndex(m) = l.snap.index + keep + Len(tail)
      /\ \A i \in l.snap.index..(l.snap.index + keep) : TermAt(m, i) = TermAt(l, i)
  BY <1>1, ExtendedTerms
<1>4. /\ l.snap.index \in Nat /\ l.committed \in Nat /\ m.committed <= LastIndex(m)
      /\ LastIndex(m) \in Nat
      /\ \A i \in Nat : HasTerm(m, i) <=> i \in m.snap.index..LastIndex(m)
  <2>1. /\ m.snap.index \in Nat /\ Len(m.entries) \in Nat
        /\ LastIndex(m) = m.snap.index + Len(m.entries)
        /\ m.committed <= m.snap.index + Len(m.entries)
        /\ \A i \in Nat : HasTerm(m, i) <=> i \in m.snap.index..LastIndex(m)
    BY <1>2, Queries DEF WellFormed
  <2> QED
    BY <2>1, <1>1, Queries
<1>5. Kept(m, d)
  <2> SUFFICES ASSUME NEW i \in l.snap.index..l.committed, i > 0
               PROVE  HasTerm(m, i) /\ TermAt(m, i) = d[i]
    BY <1>2 DEF Kept
  <2>1. i \in Nat /\ i \in l.snap.index..(l.snap.index + keep) /\ i \in m.snap.index..LastIndex(m)
    BY <1>2, <1>4
  <2>2. TermAt(l, i) = d[i]
    BY <1>1 DEF Kept
  <2> QED
    BY <2>1, <2>2, <1>3, <1>4
<1>6. Covers(l, m)
  BY <1>1, ExtendedCovered
<1> QED
  BY <1>1, <1>2, <1>3, <1>5, <1>6 DEF Inv

\* What an AppendEntries of a leader that holds every committed entry brings:
\* a continuation of an index the log has, equal to the log where committed.
LEMMA Incoming ==
    ASSUME IInv, NEW prev \in Matched, NEW ts \in Suffixes(prev),
           NEW es, es = EntriesAfter(prev, ts)
    PROVE  /\ prev \in Nat /\ prev \in log.snap.index..LastIndex(log)
           /\ Len(ts) \in Nat /\ Len(ts) >= 1 /\ prev + Len(ts) <= MaxIndex
           /\ es \in Seq(Position) /\ Len(es) = Len(ts)
           /\ \A k \in 1..Len(ts) :
                 ts[k] \in Nat /\ es[k].index = prev + k /\ es[k].term = ts[k]
           /\ \A k \in 1..Len(ts) :
                 ts[k] >= (IF k = 1 THEN TermAt(log, prev) ELSE ts[k - 1])
           /\ \A k \in 1..Len(ts) : prev + k <= log.committed => ts[k] = decided[prev + k]
<1>1. WellFormed(log) /\ Len(decided) = log.committed /\ LastIndex(log) <= MaxIndex
  BY DEF IInv, Inv
<1>2. prev \in Nat /\ prev \in log.snap.index..LastIndex(log)
  BY <1>1, Queries DEF Matched
<1>3. PICK n \in 1..(MaxIndex - prev) : ts \in [1..n -> Term]
  BY DEF Suffixes
<1>4. n \in Nat /\ n >= 1 /\ prev + n <= MaxIndex
  BY <1>2, <1>3, LogStoreAssumption
<1>5. Len(ts) = n /\ \A k \in 1..n : ts[k] \in Nat
  <2>1. ts \in Seq(Term) /\ DOMAIN ts = 1..n
    BY <1>3, <1>4, SeqDef
  <2>2. Len(ts) = n
    BY <2>1, <1>4, LenProperties
  <2> QED
    BY <2>2, <1>3 DEF Term
<1>6. es = [k \in 1..n |-> [index |-> prev + k, term |-> ts[k]]]
  BY <1>5 DEF EntriesAfter
<1>7. es \in [1..n -> Position]
  BY <1>2, <1>4, <1>5, <1>6 DEF Position
<1>8. es \in Seq(Position) /\ Len(es) = n
  <2>1. es \in Seq(Position) /\ DOMAIN es = 1..n
    BY <1>4, <1>7, SeqDef
  <2> QED
    BY <2>1, <1>4, LenProperties
<1>9. \A k \in 1..n : es[k].index = prev + k /\ es[k].term = ts[k]
  BY <1>6
<1>10. /\ Rising(ts, TermAt(log, prev))
       /\ \A k \in 1..Len(ts) : prev + k <= Len(decided) => ts[k] = decided[prev + k]
  BY DEF Suffixes
<1> QED
  BY <1>1, <1>2, <1>4, <1>5, <1>8, <1>9, <1>10, Zenon DEF Rising

\* Such entries, where they change the log, pass every guard and replace the
\* log from the first change on.
LEMMA MergeAccepted ==
    ASSUME IInv, NEW prev \in Matched, NEW ts \in Suffixes(prev),
           NEW es, es = EntriesAfter(prev, ts), Changes(log, es) # {}
    PROVE  \E at \in 1..Len(ts), keep \in Nat, tail \in Seq(Position) :
              /\ at \in Changes(log, es) /\ \A j \in Changes(log, es) : at <= j
              /\ Len(tail) = Len(ts) - at + 1
              /\ \A k \in 1..Len(tail) : tail[k].term = ts[at + k - 1]
              /\ log.snap.index + keep + 1 = prev + at
              /\ MergeFromLeader(log, es) = Ok(PlacedLog(log, tail))
              /\ Extends(PlacedLog(log, tail), log, keep, tail)
<1> DEFINE at == Least(Changes(log, es))
           tail == NewEntries(log, es)
           guard == \/ tail[1].index > LastIndex(log) + 1
                    \/ ~ValidateContinuity(log, tail, tail[1].index)
                    \/ tail[1].index <= log.committed
<1>1. /\ WellFormed(log) /\ Kept(log, decided)
  BY DEF IInv, Inv
<1>2. /\ log.snap.index \in Nat /\ log.committed \in Nat /\ LastIndex(log) \in Nat
      /\ \A i \in Nat : HasTerm(log, i) <=> i \in log.snap.index..LastIndex(log)
      /\ \A i \in log.snap.index..LastIndex(log) : TermAt(log, i) \in Nat
  <2>1. /\ log.snap.index \in Nat /\ log.committed \in Nat /\ Len(log.entries) \in Nat
        /\ LastIndex(log) = log.snap.index + Len(log.entries)
    BY <1>1, Queries
  <2>2. LastIndex(log) \in Nat
    BY <2>1
  <2> QED
    BY <2>1, <2>2, <1>1, Queries, Zenon
<1>3. /\ prev \in Nat /\ prev \in log.snap.index..LastIndex(log)
      /\ Len(ts) \in Nat /\ es \in Seq(Position) /\ Len(es) = Len(ts)
  BY Incoming
<1>4. \A k \in 1..Len(ts) :
         ts[k] \in Nat /\ es[k].index = prev + k /\ es[k].term = ts[k]
  BY Incoming
<1>5. \A k \in 1..Len(ts) :
         ts[k] >= (IF k = 1 THEN TermAt(log, prev) ELSE ts[k - 1])
  BY Incoming
<1>6. /\ at \in 1..Len(es) /\ at \in Changes(log, es)
      /\ \A j \in Changes(log, es) : at <= j
      /\ tail \in Seq(Position) /\ Len(tail) = Len(es) - at + 1
      /\ \A k \in 1..Len(tail) : tail[k] = es[at + k - 1]
      /\ MergeFromLeader(log, es) = IF guard THEN Err(log) ELSE Ok(PlacedLog(log, tail))
  BY <1>1, <1>3, MergeCases
<1> HIDE DEF at, tail, guard
<1>7. /\ at \in Nat /\ 1 <= at /\ at <= Len(ts) /\ at \in 1..Len(ts)
      /\ Len(tail) \in Nat /\ Len(tail) >= 1
  <2>1. at \in 1..Len(ts) /\ Len(tail) = Len(ts) - at + 1
    BY <1>3, <1>6
  <2> QED
    BY <2>1, <1>3
<1>8. \A k \in 1..Len(tail) :
         /\ at + k - 1 \in 1..Len(ts)
         /\ tail[k].index = prev + (at + k - 1) /\ tail[k].term = ts[at + k - 1]
  <2> TAKE k \in 1..Len(tail)
  <2>1. Len(tail) = Len(ts) - at + 1
    BY <1>3, <1>6
  <2>2. at + k - 1 \in 1..Len(ts)
    BY <2>1, <1>3, <1>7
  <2>3. tail[k] = es[at + k - 1]
    BY <1>6
  <2> QED
    BY <2>2, <2>3, <1>4
<1>9. tail # << >> /\ tail[1].index = prev + at
  <2>1. 1 \in 1..Len(tail) /\ at + 1 - 1 = at
    BY <1>7
  <2>2. tail # << >>
    BY <1>6, <1>7, EmptySeq
  <2>3. tail[1].index = prev + (at + 1 - 1)
    BY <2>1, <1>8
  <2> QED
    BY <2>1, <2>2, <2>3
<1>10. /\ prev + at - 1 \in log.snap.index..LastIndex(log)
       /\ ts[at] >= TermAt(log, prev + at - 1)
  <2>1. CASE at = 1
    <3>1. prev + at - 1 = prev
      BY <2>1, <1>3
    <3> QED
      BY <2>1, <3>1, <1>3, <1>5, <1>7
  <2>2. CASE at # 1
    <3>1. /\ at - 1 \in 1..Len(ts) /\ ~(at <= at - 1)
          /\ prev + (at - 1) = prev + at - 1 /\ prev + at - 1 \in Nat
      BY <2>2, <1>3, <1>7
    <3>2. at - 1 \notin Changes(log, es)
      BY <3>1, <1>6
    <3>3. HasTerm(log, prev + (at - 1)) /\ TermAt(log, prev + (at - 1)) = ts[at - 1]
      BY <3>1, <3>2, <1>3, <1>4 DEF Changes
    <3>4. ts[at] >= ts[at - 1]
      BY <2>2, <1>5, <1>7
    <3> QED
      BY <3>1, <3>3, <3>4, <1>2
  <2> QED
    BY <2>1, <2>2
<1>11. prev + at <= LastIndex(log) + 1
  BY <1>2, <1>3, <1>7, <1>10
<1>12. ValidateContinuity(log, tail, prev + at)
  <2>1. HasTerm(log, prev + at - 1)
    BY <1>2, <1>3, <1>10
  <2>2. ASSUME NEW k \in 1..Len(tail)
        PROVE  /\ tail[k].index = prev + at + k - 1
               /\ tail[k].term >= (IF k = 1 THEN TermAt(log, prev + at - 1)
                                            ELSE tail[k - 1].term)
    <3>1. k \in Nat /\ 1 <= k /\ prev + (at + k - 1) = prev + at + k - 1
      BY <1>3, <1>7
    <3>2. tail[k].index = prev + at + k - 1
      BY <3>1, <1>8
    <3>3. CASE k = 1
      <4>1. at + k - 1 = at
        BY <3>3, <1>7
      <4>2. tail[k].term = ts[at]
        BY <4>1, <1>8
      <4> QED
        BY <3>2, <3>3, <4>2, <1>10
    <3>4. CASE k # 1
      <4>1. k - 1 \in 1..Len(tail) /\ at + (k - 1) - 1 = (at + k - 1) - 1 /\ at + k - 1 # 1
        BY <3>1, <3>4, <1>7
      <4>2. tail[k - 1].term = ts[(at + k - 1) - 1]
        BY <4>1, <1>8
      <4>3. ts[at + k - 1] >= ts[(at + k - 1) - 1]
        BY <4>1, <1>5, <1>8
      <4>4. tail[k].term = ts[at + k - 1]
        BY <1>8
      <4> QED
        BY <3>2, <3>4, <4>2, <4>3, <4>4
    <3> QED
      BY <3>3, <3>4
  <2> QED
    <3>1. Continuous(tail, prev + at, TermAt(log, prev + at - 1))
      BY <2>2 DEF Continuous
    <3> QED
      BY <2>1, <3>1, <1>3, <1>7 DEF ValidateContinuity
<1>13. ~(prev + at <= log.committed)
  <2> SUFFICES ASSUME prev + at <= log.committed PROVE FALSE
    OBVIOUS
  <2>1. prev + at \in log.snap.index..log.committed /\ prev + at > 0
    BY <1>2, <1>3, <1>7
  <2>2. HasTerm(log, prev + at) /\ TermAt(log, prev + at) = decided[prev + at]
    BY <2>1, <1>1 DEF Kept
  <2>3. ts[at] = decided[prev + at]
    BY <1>7, Incoming
  <2>4. at \notin Changes(log, es)
    BY <2>2, <2>3, <1>4, <1>7 DEF Changes
  <2> QED
    BY <2>4, <1>6
<1>14. ~guard
  <2>1. ~(prev + at > LastIndex(log) + 1)
    BY <1>2, <1>3, <1>7, <1>11
  <2> QED
    BY <2>1, <1>9, <1>12, <1>13 DEF guard
<1>15. MergeFromLeader(log, es) = Ok(PlacedLog(log, tail))
  BY <1>6, <1>14
<1>16. log.committed < prev + at
  BY <1>2, <1>3, <1>7, <1>13
<1>17. PICK keep \in Nat : /\ log.snap.index + keep + 1 = prev + at
                           /\ Extends(PlacedLog(log, tail), log, keep, tail)
  BY <1>1, <1>6, <1>9, <1>11, <1>12, <1>16, Placed
<1>18. /\ Len(tail) = Len(ts) - at + 1
       /\ \A k \in 1..Len(tail) : tail[k].term = ts[at + k - 1]
  BY <1>3, <1>6, <1>8, Zenon
<1> QED
  BY <1>6, <1>7, <1>15, <1>17, <1>18, Zenon

\* A step that leaves the entries and the window alone adds nothing to cover.
LEMMA SameEntries ==
    ASSUME NEW l, WellFormed(l), NEW m, m.snap = l.snap, m.entries = l.entries,
           m.unstable = l.unstable
    PROVE  Covers(l, m)
<1>1. LastIndex(m) = LastIndex(l) /\ FirstIndex(m) = FirstIndex(l)
  BY DEF LastIndex, FirstIndex
<1>2. /\ l.snap.index \in Nat /\ Len(l.entries) \in Nat
      /\ LastIndex(l) = l.snap.index + Len(l.entries)
  BY Queries
<1>3. ASSUME NEW i \in FirstIndex(m)..LastIndex(m)
      PROVE  HasEntry(l, i) /\ EntryAt(l, i) = EntryAt(m, i)
  <2>1. i \in Nat /\ l.snap.index + 1 <= i /\ i <= l.snap.index + Len(l.entries)
    BY <1>1, <1>2 DEF FirstIndex
  <2>2. i - l.snap.index <= Len(l.entries)
    BY <2>1, <1>2
  <2> QED
    BY <2>1, <2>2 DEF HasEntry, FirstIndex, EntryAt
<1> QED
  BY <1>3 DEF Covers

\* on_append_entries
LEMMA MergeStep ==
    ASSUME IInv, NEW prev \in Matched, NEW ts \in Suffixes(prev), Merge(prev, ts)
    PROVE  Inv(log', decided') /\ Covers(log, log')
<1> DEFINE es == EntriesAfter(prev, ts)
<1>1. log' = MergeFromLeader(log, es).log /\ decided' = decided
  BY DEF Merge
<1>2. WellFormed(log) /\ Inv(log, decided)
  BY DEF IInv, Inv
<1>3. CASE Changes(log, es) = {}
  <2>1. log' = log
    BY <1>1, <1>3 DEF MergeFromLeader, NewEntries, ReplaceConflict, Ok
  <2> QED
    BY <2>1, <1>1, <1>2, SameEntries
<1>4. CASE Changes(log, es) # {}
  <2>1. PICK at \in 1..Len(ts), keep \in Nat, tail \in Seq(Position) :
           /\ Len(tail) = Len(ts) - at + 1
           /\ log.snap.index + keep + 1 = prev + at
           /\ MergeFromLeader(log, es) = Ok(PlacedLog(log, tail))
           /\ Extends(PlacedLog(log, tail), log, keep, tail)
    BY <1>4, MergeAccepted
  <2>2. /\ prev \in Nat /\ Len(ts) \in Nat /\ prev + Len(ts) <= MaxIndex
        /\ log.snap.index \in Nat
    BY <1>2, Incoming, Queries
  <2>3. log.snap.index + keep + Len(tail) = prev + Len(ts)
    <3>1. at \in Nat
      BY <2>2
    <3>2. log.snap.index + keep = prev + at - 1
      <4> DEFINE kept == log.snap.index + keep
      <4>1. kept \in Nat
        BY <2>2
      <4>2. kept + 1 = prev + at
        BY <2>1
      <4> HIDE DEF kept
      <4>3. kept = prev + at - 1
        BY <4>1, <4>2, <2>2, <3>1
      <4> QED
        BY <4>3 DEF kept
    <3>3. (prev + at - 1) + (Len(ts) - at + 1) = prev + Len(ts)
      BY <2>2, <3>1
    <3> QED
      BY <2>1, <3>2, <3>3
  <2>4. log' = PlacedLog(log, tail)
    <3>1. MergeFromLeader(log, es) = Ok(PlacedLog(log, tail))
      BY <2>1
    <3> QED
      BY <3>1, <1>1 DEF Ok
  <2>5. Inv(PlacedLog(log, tail), decided) /\ Covers(log, PlacedLog(log, tail))
    BY <2>1, <2>2, <2>3, <1>2, ExtendedInv, Zenon
  <2> QED
    BY <2>4, <2>5, <1>1
<1> QED
  BY <1>3, <1>4

\* `append` of one entry after the last.
LEMMA Appended ==
    ASSUME NEW l, WellFormed(l), NEW e \in Position,
           e.index = LastIndex(l) + 1, e.term >= TermAt(l, LastIndex(l))
    PROVE  Extends(Extend(l, <<e>>).log, l, Len(l.entries), <<e>>)
<1> DEFINE m == Extend(l, <<e>>).log
           keep == Len(l.entries)
           u == MarkRange(l.unstable, e.index, e.index)
<1>1. l \in LogRecord
  BY DEF WellFormed
<1>2. /\ l.snap.index \in Nat /\ keep \in Nat /\ l.entries \in Seq(Position)
      /\ LastIndex(l) = l.snap.index + keep /\ LastIndex(l) \in Nat
      /\ l.committed <= l.snap.index + keep
      /\ HasTerm(l, LastIndex(l))
  <2>1. /\ l.snap.index \in Nat /\ keep \in Nat /\ l.entries \in Seq(Position)
        /\ LastIndex(l) = l.snap.index + keep
        /\ l.committed <= l.snap.index + keep
        /\ \A i \in Nat : HasTerm(l, i) <=> i \in l.snap.index..LastIndex(l)
    BY Queries DEF WellFormed
  <2>2. LastIndex(l) \in Nat /\ LastIndex(l) \in l.snap.index..LastIndex(l)
    BY <2>1
  <2> QED
    BY <2>1, <2>2
<1>3. e.index \in Nat /\ e.term \in Nat
  BY DEF Position
<1>4. <<e>> \in Seq(Position) /\ Len(<<e>>) = 1 /\ <<e>>[1] = e /\ <<e>> # << >>
  BY <1>3
<1>5. Continuous(<<e>>, LastIndex(l) + 1, TermAt(l, LastIndex(l)))
  BY <1>2, <1>3, <1>4 DEF Continuous
<1>6. ValidateContinuity(l, <<e>>, LastIndex(l) + 1)
  <2>1. (LastIndex(l) + 1) - 1 = LastIndex(l)
    BY <1>2
  <2> QED
    BY <2>1, <1>2, <1>5 DEF ValidateContinuity
<1>7. m = [l EXCEPT !.entries = l.entries \o <<e>>, !.unstable = u]
  BY <1>4, <1>6, Zenon DEF Extend, Ok
<1> HIDE DEF m
<1>8. m = Spliced(l, keep, <<e>>, u)
  <2>1. SubSeq(l.entries, 1, keep) = l.entries
    BY <1>2, SubSeqFull
  <2> DEFINE ms == l.entries \o <<e>>
  <2>2. m = [l EXCEPT !.entries = ms, !.unstable = u]
    BY <1>7
  <2> HIDE DEF ms, u
  <2>3. m = [snap |-> l.snap, committed |-> l.committed, unstable |-> u, entries |-> ms]
    BY <2>2, <1>1, Zenon DEF LogRecord
  <2> QED
    BY <2>1, <2>3, Zenon DEF Spliced, ms
<1>9. /\ u \in Window /\ u.from <= e.index /\ e.index <= u.through
      /\ Holds(l.unstable, u, 1, e.index)
  <2>1. l.unstable \in Window /\ e.index \in Nat /\ e.index <= e.index
    BY <1>1, <1>2, <1>3 DEF LogRecord
  <2> QED
    BY <2>1, Windows, WindowsHold, Zenon
<1> HIDE DEF u
<1> DEFINE tail == <<e>>
<1>10. /\ tail \in Seq(Position) /\ Len(tail) = 1
       /\ Continuous(tail, LastIndex(l) + 1, TermAt(l, LastIndex(l)))
       /\ m = Spliced(l, keep, tail, u)
  BY <1>4, <1>5, <1>8
<1> HIDE DEF tail, keep
<1>11. Extends(m, l, keep, tail)
  <2>1. /\ keep \in Nat /\ keep <= Len(l.entries) /\ Len(l.entries) \in Nat
        /\ keep \in 0..Len(l.entries)
    BY <1>2 DEF keep
  <2>2. m = Spliced(l, keep, tail, u)
    BY <1>10
  <2>3. /\ Continuous(tail, l.snap.index + keep + 1, TermAt(l, l.snap.index + keep))
        /\ l.committed <= l.snap.index + keep
        /\ tail \in Seq(Position) /\ u \in Window /\ WellFormed(l)
    BY <1>1, <1>2, <1>9, <1>10
  <2>4. /\ WellFormed(m)
        /\ m.snap = l.snap /\ m.committed = l.committed /\ m.unstable = u
        /\ Len(m.entries) = keep + Len(tail)
        /\ \A k \in 1..keep : m.entries[k] = l.entries[k]
        /\ \A k \in 1..Len(tail) : m.entries[keep + k] = tail[k]
    BY <2>1, <2>3, <2>2, Joined
  <2>5. u.from <= l.snap.index + keep + 1 /\ l.snap.index + keep + Len(tail) <= u.through
    BY <1>2, <1>3, <1>9, <1>10
  <2>6. Holds(l.unstable, m.unstable, 1, l.snap.index + keep + Len(tail))
    BY <2>4, <1>2, <1>9, <1>10
  <2> QED
    BY <2>1, <2>4, <2>5, <2>6, <1>2, <1>10 DEF Extends
<1> QED
  BY <1>11 DEF m, tail, keep

\* The leader's own append after its last entry.
LEMMA AppendStep ==
    ASSUME IInv, NEW term \in Term, AppendOwn(term)
    PROVE  Inv(log', decided') /\ Covers(log, log')
<1> DEFINE e == [index |-> LastIndex(log) + 1, term |-> term]
<1>1. /\ LastIndex(log) + 1 <= MaxIndex /\ term >= TermAt(log, LastIndex(log))
      /\ log' = Extend(log, <<e>>).log /\ decided' = decided
  BY DEF AppendOwn
<1>2. WellFormed(log) /\ Inv(log, decided)
  BY DEF IInv, Inv
<1>3. /\ log.snap.index \in Nat /\ Len(log.entries) \in Nat
      /\ LastIndex(log) = log.snap.index + Len(log.entries)
  BY <1>2, Queries
<1>4. e \in Position /\ e.index = LastIndex(log) + 1 /\ e.term = term
  BY <1>3 DEF Position, Term
<1> HIDE DEF e
<1>5. Extends(log', log, Len(log.entries), <<e>>)
  BY <1>1, <1>2, <1>4, Appended
<1>6. Len(<<e>>) = 1
  OBVIOUS
<1>7. log.snap.index + Len(log.entries) + Len(<<e>>) <= MaxIndex
  BY <1>1, <1>3, <1>6
<1>8. Inv(log', decided) /\ Covers(log, log')
  BY <1>2, <1>5, <1>7, ExtendedInv, Zenon
<1> QED
  BY <1>1, <1>8

\* Moving the commit point forward or the window leaves the log well formed,
\* and the queries answer as before.
LEMMA MarkedLog ==
    ASSUME NEW l, WellFormed(l), NEW u \in Window, NEW c \in Nat,
           l.committed <= c, c <= LastIndex(l), NEW m, m = Marked(l, c, u)
    PROVE  /\ WellFormed(m) /\ m.snap = l.snap /\ m.entries = l.entries
           /\ m.committed = c /\ m.unstable = u /\ LastIndex(m) = LastIndex(l)
           /\ \A i : /\ HasTerm(m, i) <=> HasTerm(l, i)
                     /\ TermAt(m, i) = TermAt(l, i)
<1>1. /\ l.snap \in Position /\ l.entries \in Seq(Position)
      /\ l.snap.index \in Nat /\ l.committed \in Nat /\ l.snap.index <= l.committed
      /\ Continuous(l.entries, l.snap.index + 1, l.snap.term)
  BY DEF WellFormed, LogRecord, Position
<1>2. LastIndex(l) = l.snap.index + Len(l.entries)
  BY Queries
<1>3. /\ m.snap = l.snap /\ m.entries = l.entries /\ m.committed = c
      /\ m.unstable = u /\ m \in LogRecord
  BY <1>1 DEF Marked, LogRecord
<1>4. l.snap.index <= c
  BY <1>1
<1>5. WellFormed(m)
  BY <1>1, <1>2, <1>3, <1>4 DEF WellFormed
<1>6. /\ LastIndex(m) = LastIndex(l)
      /\ \A i : (HasTerm(m, i) <=> HasTerm(l, i)) /\ TermAt(m, i) = TermAt(l, i)
  BY <1>3 DEF LastIndex, HasTerm, HasEntry, FirstIndex, TermAt, EntryAt
<1> QED
  BY <1>3, <1>5, <1>6

\* `commit_to`
LEMMA CommitStep ==
    ASSUME IInv, NEW index \in 1..LastIndex(log), Commit(index)
    PROVE  Inv(log', decided') /\ Tracked(log', unconfirmed')
<1> DEFINE c == Larger(log.committed, index)
<1>1. /\ WellFormed(log) /\ decided \in Seq(Nat) /\ Len(decided) = log.committed
      /\ LastIndex(log) <= MaxIndex /\ Kept(log, decided)
  BY DEF IInv, Inv
<1>2. /\ log.snap.index \in Nat /\ log.committed \in Nat /\ Len(log.entries) \in Nat
      /\ LastIndex(log) = log.snap.index + Len(log.entries)
      /\ log.snap.index <= log.committed /\ log.committed <= LastIndex(log)
      /\ log.unstable \in Window /\ log \in LogRecord
  BY <1>1, Queries, Zenon DEF WellFormed, LogRecord
<1>3. LastIndex(log) \in Nat /\ index \in Nat /\ index <= LastIndex(log)
  BY <1>2
<1>4. c \in Nat /\ log.committed <= c /\ c <= LastIndex(log)
  BY <1>2, <1>3 DEF Larger
<1>5. log' = [log EXCEPT !.committed = c]
  BY <1>3 DEF Commit, CommitTo, Ok
<1> HIDE DEF c
<1>6. log' = Marked(log, c, log.unstable)
  BY <1>2, <1>5 DEF Marked, LogRecord
<1>7. /\ WellFormed(log') /\ log'.snap = log.snap /\ log'.entries = log.entries
      /\ log'.committed = c /\ LastIndex(log') = LastIndex(log)
      /\ log'.unstable = log.unstable
      /\ \A i : (HasTerm(log', i) <=> HasTerm(log, i)) /\ TermAt(log', i) = TermAt(log, i)
  BY <1>1, <1>2, <1>4, <1>6, MarkedLog
<1>8. decided' = [i \in 1..c |-> IF i <= log.committed THEN decided[i] ELSE TermAt(log, i)]
  BY <1>1, <1>7 DEF Commit
<1>9. \A i \in 1..c : (i <= log.committed => decided[i] \in Nat)
                       /\ (i > log.committed => TermAt(log, i) \in Nat)
  <2> TAKE i \in 1..c
  <2>1. ASSUME i <= log.committed PROVE decided[i] \in Nat
    <3>1. i \in 1..Len(decided)
      BY <2>1, <1>1, <1>2, <1>4
    <3> QED
      BY <3>1, <1>1, ElementOfSeq
  <2>2. ASSUME i > log.committed PROVE TermAt(log, i) \in Nat
    <3>1. i \in log.snap.index..LastIndex(log)
      BY <2>2, <1>2, <1>3, <1>4
    <3> QED
      BY <3>1, <1>1, Queries
  <2> QED
    BY <2>1, <2>2
<1>10. decided' \in Seq(Nat) /\ Len(decided') = c
  <2>1. decided' \in [1..c -> Nat]
    BY <1>2, <1>4, <1>8, <1>9
  <2>2. decided' \in Seq(Nat) /\ DOMAIN decided' = 1..c
    BY <2>1, <1>4, SeqDef
  <2> QED
    BY <2>2, <1>4, LenProperties
<1>11. Kept(log', decided')
  <2> SUFFICES ASSUME NEW i \in log.snap.index..c, i > 0
               PROVE  HasTerm(log, i) /\ TermAt(log, i) = decided'[i]
    BY <1>7 DEF Kept
  <2>1. i \in Nat /\ i \in 1..c /\ i \in log.snap.index..LastIndex(log)
    BY <1>2, <1>3, <1>4
  <2>2. HasTerm(log, i)
    BY <2>1, <1>1, Queries
  <2>3. decided'[i] = IF i <= log.committed THEN decided[i] ELSE TermAt(log, i)
    BY <2>1, <1>8
  <2>4. ASSUME i <= log.committed PROVE TermAt(log, i) = decided[i]
    <3>1. i \in log.snap.index..log.committed
      BY <2>1, <2>4, <1>2
    <3> QED
      BY <3>1, <1>1 DEF Kept
  <2> QED
    BY <2>2, <2>3, <2>4
<1>12. Tracked(log', unconfirmed')
  <2>1. unconfirmed' = unconfirmed /\ FirstIndex(log') = FirstIndex(log)
    BY <1>7 DEF Commit, FirstIndex
  <2> QED
    BY <2>1, <1>7 DEF IInv, Tracked
<1> QED
  BY <1>1, <1>7, <1>10, <1>11, <1>12 DEF Inv

\* `mark_stable`
LEMMA PersistedStep ==
    ASSUME IInv, NEW index \in 1..LastIndex(log), Persisted(index)
    PROVE  Inv(log', decided') /\ Tracked(log', unconfirmed')
<1> DEFINE u == MarkStableThrough(log.unstable, index)
<1>1. /\ WellFormed(log) /\ decided \in Seq(Nat) /\ Len(decided) = log.committed
      /\ LastIndex(log) <= MaxIndex /\ Kept(log, decided)
  BY DEF IInv, Inv
<1>2. /\ log.committed \in Nat /\ log.committed <= LastIndex(log)
      /\ log.unstable \in Window /\ log \in LogRecord /\ log.committed <= log.committed
  BY <1>1, Queries DEF WellFormed, LogRecord
<1>3. LastIndex(log) \in Nat /\ index \in Nat /\ ~(index > LastIndex(log))
  <2>1. /\ log.snap.index \in Nat /\ Len(log.entries) \in Nat
        /\ LastIndex(log) = log.snap.index + Len(log.entries)
    BY <1>1, Queries
  <2> QED
    BY <2>1
<1>4. u \in Window /\ Holds(log.unstable, u, index + 1, LastIndex(log))
  BY <1>2, <1>3, Windows, StableHolds, Zenon
<1>5. log' = [log EXCEPT !.unstable = u] /\ decided' = decided
  BY <1>3 DEF Persisted, MarkStable, Ok
<1> HIDE DEF u
<1>6. log' = Marked(log, log.committed, u)
  BY <1>2, <1>5 DEF Marked, LogRecord
<1>7. /\ WellFormed(log') /\ log'.snap = log.snap /\ log'.entries = log.entries
      /\ log'.committed = log.committed /\ LastIndex(log') = LastIndex(log)
      /\ log'.unstable = u
      /\ \A i : (HasTerm(log', i) <=> HasTerm(log, i)) /\ TermAt(log', i) = TermAt(log, i)
  BY <1>1, <1>2, <1>4, <1>6, MarkedLog
<1>8. Kept(log', decided')
  BY <1>1, <1>5, <1>7, Zenon DEF Kept
<1>9. Tracked(log', unconfirmed')
  <2>1. unconfirmed' = {i \in unconfirmed : i > index}
    BY DEF Persisted
  <2>2. FirstIndex(log') = FirstIndex(log)
    BY <1>7 DEF FirstIndex
  <2>3. /\ unconfirmed \subseteq FirstIndex(log)..LastIndex(log)
        /\ \A i \in unconfirmed : Within(i, log.unstable)
    BY DEF IInv, Tracked
  <2>4. ASSUME NEW i \in unconfirmed' PROVE Within(i, log'.unstable)
    <3>1. i \in FirstIndex(log)..LastIndex(log) /\ i > index /\ Within(i, log.unstable)
      BY <2>1, <2>3, <2>4
    <3>2. FirstIndex(log) \in Nat
      BY <1>1, Queries DEF FirstIndex
    <3>3. i \in Nat /\ index + 1 <= i /\ i <= LastIndex(log)
      BY <3>1, <3>2, <1>3
    <3> QED
      BY <3>1, <3>3, <1>4, <1>7 DEF Holds
  <2> QED
    BY <2>1, <2>2, <2>3, <2>4, <1>7, Zenon DEF Tracked
<1> QED
  BY <1>1, <1>5, <1>7, <1>8, <1>9, Zenon DEF Inv

\* A log shortened behind a decided boundary keeps the invariant.
LEMMA ShortenedInv ==
    ASSUME NEW l, NEW d, Inv(l, d), NEW snap \in Position,
           snap.index > l.snap.index, snap.index <= LastIndex(l),
           snap.term = TermAt(l, snap.index),
           NEW c \in Nat, snap.index <= c, c <= LastIndex(l), NEW u \in Window,
           NEW h \in Seq(Nat), Len(h) = c,
           \A i \in snap.index..c : TermAt(l, i) = h[i],
           Holds(l.unstable, u, snap.index + 1, LastIndex(l))
    PROVE  Inv(Shorter(l, snap, c, u), h) /\ Covers(l, Shorter(l, snap, c, u))
<1> DEFINE m == Shorter(l, snap, c, u)
<1>1. WellFormed(l) /\ LastIndex(l) <= MaxIndex
  BY DEF Inv
<1>2. /\ WellFormed(m) /\ LastIndex(m) = LastIndex(l)
      /\ \A i \in snap.index..LastIndex(l) : TermAt(m, i) = TermAt(l, i)
      /\ \A i \in (snap.index + 1)..LastIndex(l) : EntryAt(m, i) = EntryAt(l, i)
  BY <1>1, Shortened, SMTT(30)
<1>3. m.snap = snap /\ m.committed = c /\ m.unstable = u
  BY DEF Shorter
<1> HIDE DEF m
<1>4. /\ snap.index \in Nat /\ l.snap.index \in Nat /\ Len(l.entries) \in Nat
      /\ LastIndex(l) = l.snap.index + Len(l.entries)
  BY <1>1, Queries DEF Position
<1>5. \A i \in Nat : HasTerm(m, i) <=> i \in m.snap.index..LastIndex(m)
  BY <1>2, Queries
<1>6. Kept(m, h)
  <2> SUFFICES ASSUME NEW i \in snap.index..c, i > 0
               PROVE  HasTerm(m, i) /\ TermAt(m, i) = h[i]
    BY <1>3 DEF Kept
  <2>1. i \in Nat /\ i \in snap.index..LastIndex(l)
    BY <1>4
  <2>2. HasTerm(m, i)
    BY <2>1, <1>2, <1>3, <1>5
  <2> QED
    BY <2>1, <2>2, <1>2
<1>7. Covers(l, m)
  <2> SUFFICES ASSUME NEW i \in FirstIndex(m)..LastIndex(m)
               PROVE  /\ HasEntry(l, i) /\ EntryAt(l, i) = EntryAt(m, i)
                      /\ Within(i, l.unstable) => Within(i, m.unstable)
    BY DEF Covers
  <2>1. i \in (snap.index + 1)..LastIndex(l)
    BY <1>2, <1>3 DEF FirstIndex
  <2>2. /\ i \in Nat /\ l.snap.index < snap.index /\ snap.index + 1 <= i
        /\ i <= l.snap.index + Len(l.entries)
    BY <2>1, <1>4
  <2>3. l.snap.index + 1 <= i /\ i - l.snap.index <= Len(l.entries)
    <3>1. \A b, j, x, n \in Nat : b < j /\ j + 1 <= x /\ x <= b + n => b + 1 <= x /\ x - b <= n
      BY SMT
    <3> QED
      BY <2>2, <1>4, <3>1, Zenon
  <2>4. Within(i, l.unstable) => Within(i, m.unstable)
    BY <2>1, <2>2, <1>3, <1>4 DEF Holds
  <2> QED
    BY <2>1, <2>3, <2>4, <1>2 DEF HasEntry, FirstIndex
<1> QED
  BY <1>1, <1>2, <1>3, <1>6, <1>7 DEF Inv, m

\* `compact`
LEMMA CompactStep ==
    ASSUME IInv, NEW index \in 1..LastIndex(log), CompactLog(index)
    PROVE  Inv(log', decided') /\ Covers(log, log')
<1> DEFINE snap == [index |-> index, term |-> TermAt(log, index)]
           u == MarkStableThrough(log.unstable, index)
<1>1. /\ WellFormed(log) /\ Inv(log, decided) /\ decided \in Seq(Nat)
      /\ Len(decided) = log.committed /\ Kept(log, decided)
  BY DEF IInv, Inv
<1>2. /\ log.snap.index \in Nat /\ log.committed \in Nat /\ Len(log.entries) \in Nat
      /\ LastIndex(log) = log.snap.index + Len(log.entries)
      /\ log.committed <= LastIndex(log)
      /\ log.unstable \in Window /\ log \in LogRecord
  BY <1>1, Queries, Zenon DEF WellFormed, LogRecord
<1>3. /\ index > log.snap.index /\ index <= log.committed /\ decided' = decided
      /\ log' = Compact(log, snap).log
  BY DEF CompactLog
<1>4. /\ index \in Nat /\ index \in log.snap.index..LastIndex(log)
      /\ index <= LastIndex(log) /\ ~(index > log.committed)
  BY <1>2, <1>3
<1>5. HasTerm(log, index) /\ TermAt(log, index) \in Nat
  BY <1>1, <1>4, Queries
<1>6. snap \in Position /\ snap.index = index /\ snap.term = TermAt(log, index)
  BY <1>4, <1>5 DEF Position
<1> HIDE DEF snap
<1>7. u \in Window /\ Holds(log.unstable, u, snap.index + 1, LastIndex(log))
  <2>1. LastIndex(log) \in Nat
    BY <1>2
  <2> QED
    BY <2>1, <1>2, <1>4, <1>6, Windows, StableHolds, Zenon
<1>8. log' = [log EXCEPT !.entries = DropFirst(log.entries, snap.index - log.snap.index),
                         !.snap = snap, !.unstable = u]
  BY <1>3, <1>4, <1>5, <1>6 DEF Compact, Ok
<1> HIDE DEF u
<1>9. log' = Shorter(log, snap, log.committed, u)
  <2> DEFINE ms == DropFirst(log.entries, snap.index - log.snap.index)
  <2>1. log' = [log EXCEPT !.entries = ms, !.snap = snap, !.unstable = u]
    BY <1>8
  <2> HIDE DEF ms
  <2>2. log' = [snap |-> snap, committed |-> log.committed, unstable |-> u, entries |-> ms]
    BY <2>1, <1>2, Zenon DEF LogRecord
  <2> QED
    BY <2>2 DEF ms, Shorter
<1>10. \A i \in snap.index..log.committed : TermAt(log, i) = decided[i]
  <2> TAKE i \in snap.index..log.committed
  <2>1. i \in log.snap.index..log.committed /\ i > 0
    BY <1>2, <1>3, <1>4, <1>6
  <2> QED
    BY <2>1, <1>1 DEF Kept
<1>11. /\ Inv(Shorter(log, snap, log.committed, u), decided)
       /\ Covers(log, Shorter(log, snap, log.committed, u))
  BY <1>1, <1>2, <1>3, <1>4, <1>6, <1>7, <1>10, ShortenedInv, Zenon
<1> QED
  BY <1>3, <1>9, <1>11

\* `install_snapshot`: at or below the commit point the suffix is kept, since
\* the log has the decided term there; above it the snapshot decides.
LEMMA InstallStep ==
    ASSUME IInv, NEW index \in 1..MaxIndex,
           NEW ts \in UNION {[1..k -> Term] : k \in 0..(MaxIndex - Len(decided))},
           Install(index, ts)
    PROVE  Inv(log', decided') /\ Covers(log, log')
<1> DEFINE h == decided \o ts
           snap == [index |-> index, term |-> h[index]]
           u == MarkStableThrough(log.unstable, index)
           c == Larger(log.committed, index)
<1>1. /\ WellFormed(log) /\ Inv(log, decided) /\ decided \in Seq(Nat)
      /\ Len(decided) = log.committed /\ Kept(log, decided) /\ LastIndex(log) <= MaxIndex
  BY Zenon DEF IInv, Inv
<1>2. /\ log.snap.index \in Nat /\ log.committed \in Nat /\ Len(log.entries) \in Nat
      /\ LastIndex(log) = log.snap.index + Len(log.entries)
      /\ log.snap.index <= log.committed /\ log.committed <= LastIndex(log)
      /\ log.unstable \in Window /\ log \in LogRecord
  BY <1>1, Queries DEF WellFormed, LogRecord
<1>3. /\ index > log.snap.index /\ Len(h) >= index /\ (ts # << >> => Len(h) = index)
      /\ log' = InstallSnapshot(log, snap).log /\ decided' = h
  BY DEF Install
<1>4. index \in Nat /\ index >= 1 /\ index <= MaxIndex
  BY LogStoreAssumption
<1>5. PICK n \in 0..(MaxIndex - Len(decided)) : ts \in [1..n -> Term]
  OBVIOUS
<1>6. ts \in Seq(Nat)
  <2>1. n \in Nat /\ ts \in [1..n -> Nat]
    BY <1>1, <1>2, <1>5, LogStoreAssumption DEF Term
  <2> QED
    BY <2>1, SeqDef
<1>7. h \in Seq(Nat) /\ Len(h) \in Nat
  BY <1>1, <1>6, ConcatProperties, LenProperties
<1>8. h[index] \in Nat
  <2>1. index \in 1..Len(h)
    BY <1>3, <1>4, <1>7
  <2> QED
    BY <2>1, <1>7, ElementOfSeq
<1>9. snap \in Position /\ snap.index = index /\ snap.term = h[index]
  BY <1>4, <1>8, Zenon DEF Position
<1>10. /\ u \in Window /\ Holds(log.unstable, u, snap.index + 1, LastIndex(log))
       /\ c \in Nat /\ index <= c
  <2>0. LastIndex(log) \in Nat
    BY <1>2
  <2>1. u \in Window /\ Holds(log.unstable, u, snap.index + 1, LastIndex(log))
    BY <2>0, <1>2, <1>4, <1>9, Windows, StableHolds, Zenon
  <2>2. c \in Nat /\ index <= c
    BY <1>2, <1>4 DEF Larger
  <2> QED
    BY <2>1, <2>2
<1>11. CASE HasTerm(log, index) /\ TermAt(log, index) = h[index]
  <2>1. index <= LastIndex(log)
    <3>1. index \in log.snap.index..LastIndex(log)
      BY <1>1, <1>4, <1>11, Queries
    <3> QED
      BY <3>1, <1>2, <1>4
  <2>2. log' = Shorter(log, snap, c, u)
    <3> DEFINE ms == DropFirst(log.entries, index - log.snap.index)
    <3>1. log' = [log EXCEPT !.entries = ms, !.unstable = u, !.snap = snap, !.committed = c]
      BY <1>3, <1>11, Zenon DEF InstallSnapshot, Ok
    <3> HIDE DEF ms, u, c, snap
    <3>2. log' = [snap |-> snap, committed |-> c, unstable |-> u, entries |-> ms]
      BY <3>1, <1>2, Zenon DEF LogRecord
    <3> QED
      BY <3>2, <1>9 DEF ms, Shorter
  <2>3. Len(h) = c /\ \A i \in index..c : TermAt(log, i) = h[i]
    <3>1. CASE index <= log.committed
      <4>1. c = log.committed
        BY <3>1, <1>2, <1>4 DEF Larger
      <4>2. ts = << >>
        <5> SUFFICES ASSUME ts # << >> PROVE FALSE
          OBVIOUS
        <5>1. Len(h) = index /\ Len(h) = Len(decided) + Len(ts) /\ Len(ts) \in Nat
          BY <1>1, <1>3, <1>6, ConcatProperties, LenProperties, Zenon
        <5>2. Len(ts) = 0
          BY <5>1, <3>1, <1>1, <1>2, <1>4
        <5> QED
          BY <5>2, <1>6, EmptySeq
      <4>3. h = decided
        BY <4>2, <1>1, ConcatEmptySeq
      <4> HIDE DEF h, c
      <4>4. ASSUME NEW i \in index..c PROVE TermAt(log, i) = h[i]
        <5>1. i \in log.snap.index..log.committed /\ i > 0
          BY <4>1, <1>2, <1>3, <1>4
        <5> QED
          BY <5>1, <4>3, <1>1 DEF Kept
      <4> QED
        BY <4>1, <4>3, <4>4, <1>1
    <3>2. CASE ~(index <= log.committed)
      <4>1. c = index
        BY <3>2, <1>2, <1>4 DEF Larger
      <4>2. Len(h) = index
        <5>1. ts # << >>
          <6> SUFFICES ASSUME ts = << >> PROVE FALSE
            OBVIOUS
          <6>1. h = decided
            BY <1>1, ConcatEmptySeq
          <6> HIDE DEF h
          <6> QED
            BY <6>1, <3>2, <1>1, <1>2, <1>3, <1>4
        <5> QED
          BY <5>1, <1>3
      <4> HIDE DEF h, c
      <4>3. ASSUME NEW i \in index..c PROVE i = index
        BY <4>1, <1>4
      <4> QED
        BY <4>1, <4>2, <4>3, <1>11
    <3> QED
      BY <3>1, <3>2
  <2>4. c <= LastIndex(log)
    BY <2>1, <1>2, <1>4 DEF Larger
  <2> HIDE DEF h, snap, u, c
  <2>5. Inv(Shorter(log, snap, c, u), h) /\ Covers(log, Shorter(log, snap, c, u))
    BY <2>1, <2>3, <2>4, <1>1, <1>3, <1>7, <1>9, <1>10, <1>11, ShortenedInv, Zenon
  <2> QED
    BY <2>2, <2>5, <1>3
<1>12. CASE ~(HasTerm(log, index) /\ TermAt(log, index) = h[index])
  <2>1. ~(index <= log.committed)
    <3> SUFFICES ASSUME index <= log.committed PROVE FALSE
      OBVIOUS
    <3>1. index \in log.snap.index..log.committed /\ index > 0 /\ index \in 1..Len(decided)
      <4>1. /\ index \in Nat /\ log.snap.index \in Nat /\ log.committed \in Nat
            /\ log.snap.index < index /\ Len(decided) = log.committed /\ index >= 1
        BY <1>1, <1>2, <1>3, <1>4
      <4> QED
        BY <4>1
    <3>2. HasTerm(log, index) /\ TermAt(log, index) = decided[index]
      BY <3>1, <1>1 DEF Kept
    <3>3. h[index] = decided[index]
      <4>1. Len(ts) \in Nat /\ index \in 1..(Len(decided) + Len(ts)) /\ index <= Len(decided)
        BY <3>1, <1>1, <1>2, <1>6, LenProperties
      <4> QED
        BY <4>1, <1>1, <1>6, ConcatProperties
    <3> QED
      BY <3>2, <3>3, <1>12
  <2>2. c = index
    BY <2>1, <1>2, <1>4 DEF Larger
  <2>3. Len(h) = index
    <3>1. ts # << >>
      <4> SUFFICES ASSUME ts = << >> PROVE FALSE
        OBVIOUS
      <4>1. h = decided
        BY <1>1, ConcatEmptySeq
      <4> HIDE DEF h
      <4> QED
        BY <4>1, <2>1, <1>1, <1>2, <1>3, <1>4
    <3> QED
      BY <3>1, <1>3
  <2>4. log' = [snap |-> snap, committed |-> c, unstable |-> u, entries |-> << >>]
    <3>1. log' = [log EXCEPT !.entries = << >>, !.unstable = u, !.snap = snap, !.committed = c]
      BY <1>3, <1>12, Zenon DEF InstallSnapshot, Ok
    <3> HIDE DEF u, c, snap
    <3> QED
      BY <3>1, <1>2, Zenon DEF LogRecord
  <2> HIDE DEF h, snap, u, c
  <2>5. /\ log'.snap = snap /\ log'.committed = index /\ log'.entries = << >>
        /\ log' \in LogRecord
    BY <2>2, <2>4, <1>9, <1>10 DEF LogRecord
  <2>6. WellFormed(log')
    <3>1. Len(log'.entries) = 0
      BY <2>5
    <3>2. Continuous(log'.entries, log'.snap.index + 1, log'.snap.term)
      BY <3>1 DEF Continuous
    <3>3. index <= index /\ index <= index + 0
      BY <1>4
    <3> QED
      BY <2>5, <3>1, <3>2, <3>3, <1>9 DEF WellFormed
  <2>7. LastIndex(log') = index /\ FirstIndex(log') = index + 1
    BY <2>5, <1>9 DEF LastIndex, FirstIndex
  <2>8. Kept(log', decided')
    <3> SUFFICES ASSUME NEW i \in index..index
                 PROVE  HasTerm(log', i) /\ TermAt(log', i) = h[i]
      BY <2>5, <1>3, <1>9 DEF Kept
    <3>1. i = index
      BY <1>4
    <3> QED
      BY <3>1, <2>5, <1>9 DEF HasTerm, TermAt
  <2>9. Covers(log, log')
    <3>1. \A i \in (index + 1)..index : FALSE
      <4>1. \A x \in Nat : \A i \in (x + 1)..x : FALSE
        BY SMT
      <4> QED
        BY <4>1, <1>4, Zenon
    <3> QED
      BY <3>1, <2>7 DEF Covers
  <2> QED
    BY <2>3, <2>5, <2>6, <2>7, <2>8, <2>9, <1>3, <1>4, <1>7 DEF Inv
<1> QED
  BY <1>11, <1>12, Zenon
-----------------------------------------------------------------------------
(* The theorems *)

\* merge_from_leader meets its reference in every state of the invariant.
LEMMA MergeIsExact ==
    ASSUME IInv
    PROVE  MergeExact
<1> SUFFICES ASSUME NEW prev \in Matched, NEW ts \in Suffixes(prev)
             PROVE  LET es == EntriesAfter(prev, ts)
                        r == MergeFromLeader(log, es)
                        last == prev + Len(ts)
                        known == \A k \in 1..Len(ts) :
                                    HasTerm(log, prev + k) /\ TermAt(log, prev + k) = ts[k]
                    IN /\ r.ok
                       /\ \A i \in log.snap.index..prev : TermAt(r.log, i) = TermAt(log, i)
                       /\ \A k \in 1..Len(ts) : TermAt(r.log, prev + k) = ts[k]
                       /\ IF known THEN r.log = log ELSE LastIndex(r.log) = last
  BY DEF MergeExact
<1> DEFINE es == EntriesAfter(prev, ts)
           r == MergeFromLeader(log, es)
           known == \A k \in 1..Len(ts) :
                       HasTerm(log, prev + k) /\ TermAt(log, prev + k) = ts[k]
<1>1. WellFormed(log)
  BY DEF IInv, Inv
<1>2. /\ prev \in Nat /\ prev \in log.snap.index..LastIndex(log)
      /\ Len(ts) \in Nat /\ Len(es) = Len(ts) /\ log.snap.index \in Nat
  <2>1. /\ prev \in Nat /\ prev \in log.snap.index..LastIndex(log)
        /\ Len(ts) \in Nat /\ Len(es) = Len(ts)
    BY Incoming, SMTT(30)
  <2>2. log.snap.index \in Nat
    BY <1>1, Queries
  <2> QED
    BY <2>1, <2>2
<1>3. \A k \in 1..Len(ts) : es[k].index = prev + k /\ es[k].term = ts[k]
  BY Incoming, SMTT(30)
<1>4. \A k \in 1..Len(ts) :
         k \notin Changes(log, es) <=>
            HasTerm(log, prev + k) /\ TermAt(log, prev + k) = ts[k]
  BY <1>2, <1>3 DEF Changes
<1>5. CASE Changes(log, es) = {}
  <2>1. r = Ok(log)
    BY <1>5 DEF MergeFromLeader, NewEntries, ReplaceConflict
  <2>2. r.ok /\ r.log = log
    BY <2>1 DEF Ok
  <2>3. known
    BY <1>4, <1>5
  <2> HIDE DEF r
  <2> QED
    BY <2>2, <2>3 DEF r
<1>6. CASE Changes(log, es) # {}
  <2>1. PICK at \in 1..Len(ts), keep \in Nat, tail \in Seq(Position) :
           /\ at \in Changes(log, es) /\ \A j \in Changes(log, es) : at <= j
           /\ Len(tail) = Len(ts) - at + 1
           /\ \A k \in 1..Len(tail) : tail[k].term = ts[at + k - 1]
           /\ log.snap.index + keep + 1 = prev + at
           /\ r = Ok(PlacedLog(log, tail))
           /\ Extends(PlacedLog(log, tail), log, keep, tail)
    BY <1>6, MergeAccepted
  <2>2. r.ok /\ r.log = PlacedLog(log, tail)
    <3>1. r = Ok(PlacedLog(log, tail))
      BY <2>1
    <3> HIDE DEF r
    <3> QED
      BY <3>1 DEF Ok
  <2> HIDE DEF r, es
  <2>3. /\ LastIndex(r.log) = log.snap.index + keep + Len(tail)
        /\ \A i \in log.snap.index..(log.snap.index + keep) : TermAt(r.log, i) = TermAt(log, i)
        /\ \A k \in 1..Len(tail) : TermAt(r.log, log.snap.index + keep + k) = tail[k].term
    <3>1. Extends(r.log, log, keep, tail)
      BY <2>1, <2>2
    <3> QED
      BY <3>1, <1>1, ExtendedTerms
  <2>4. /\ at \in Nat /\ 1 <= at /\ at <= Len(ts) /\ Len(tail) = Len(ts) - at + 1
        /\ log.snap.index + keep = prev + at - 1
    <3>1. at \in Nat /\ 1 <= at /\ at <= Len(ts)
      BY <1>2
    <3>2. log.snap.index + keep + 1 = prev + at /\ Len(tail) = Len(ts) - at + 1
      BY <2>1
    <3>3. prev \in Nat /\ keep \in Nat /\ log.snap.index \in Nat
      BY <1>2
    <3>4. log.snap.index + keep = prev + at - 1
      <4> DEFINE kept == log.snap.index + keep
      <4>1. kept \in Nat
        BY <3>3
      <4>2. kept + 1 = prev + at
        BY <2>1
      <4> HIDE DEF kept
      <4>3. kept = prev + at - 1
        BY <4>1, <4>2, <3>1, <3>3
      <4> QED
        BY <4>3 DEF kept
    <3> QED
      BY <3>1, <3>2, <3>4
  <2>5. LastIndex(r.log) = prev + Len(ts)
    <3>1. prev \in Nat /\ at \in Nat /\ Len(ts) \in Nat
      BY <2>4, <1>2
    <3>2. (prev + at - 1) + (Len(ts) - at + 1) = prev + Len(ts)
      BY <3>1
    <3> QED
      BY <3>2, <2>3, <2>4
  <2>6. ~known
    BY <2>1, <1>4
  <2>7. ASSUME NEW i \in log.snap.index..prev PROVE TermAt(r.log, i) = TermAt(log, i)
    <3>1. i \in log.snap.index..(prev + at - 1)
      BY <2>4, <1>2
    <3> QED
      BY <3>1, <2>3, <2>4
  <2>8. ASSUME NEW k \in 1..Len(ts) PROVE TermAt(r.log, prev + k) = ts[k]
    <3>1. CASE k < at
      <4>1. prev + k \in log.snap.index..(prev + at - 1) /\ ~(at <= k)
        BY <3>1, <2>4, <1>2
      <4>2. TermAt(log, prev + k) = ts[k]
        BY <4>1, <2>1, <1>4
      <4> QED
        BY <4>1, <4>2, <2>3, <2>4
    <3>2. CASE ~(k < at)
      <4>1. k - at + 1 \in 1..Len(tail) /\ at + (k - at + 1) - 1 = k
        BY <3>2, <2>4, <1>2
      <4>2. (prev + at - 1) + (k - at + 1) = prev + k
        BY <2>4, <1>2
      <4>3. TermAt(r.log, log.snap.index + keep + (k - at + 1)) = tail[k - at + 1].term
        BY <4>1, <2>3
      <4>4. tail[k - at + 1].term = ts[k]
        BY <4>1, <2>1
      <4> QED
        BY <4>2, <4>3, <4>4, <2>4
    <3> QED
      BY <3>1, <3>2
  <2> QED
    BY <2>2, <2>5, <2>6, <2>7, <2>8, Zenon DEF r, es
<1> QED
  BY <1>5, <1>6, Zenon

\* The invariant holds initially.
LEMMA InitInv == Init => IInv
<1> SUFFICES ASSUME Init PROVE IInv
  OBVIOUS
<1>1. /\ log = [snap |-> [index |-> 0, term |-> 0], entries |-> << >>, committed |-> 0,
                unstable |-> [from |-> 0, through |-> 0]]
      /\ decided = << >> /\ unconfirmed = {}
  BY DEF Init, FromRecovered, NoSnap, NoWindow
<1>2. log \in LogRecord /\ log.snap.index = 0 /\ log.committed = 0 /\ log.entries = << >>
  BY <1>1 DEF LogRecord, Position, Window
<1>3. Len(log.entries) = 0 /\ decided \in Seq(Nat) /\ Len(decided) = 0
  BY <1>1, <1>2
<1>4. WellFormed(log)
  BY <1>2, <1>3 DEF WellFormed, Continuous
<1>5. LastIndex(log) <= MaxIndex
  BY <1>2, LogStoreAssumption DEF LastIndex
<1>6. Kept(log, decided)
  <2>1. \A i \in 0..0 : ~(i > 0)
    BY SMT
  <2> QED
    BY <1>2, <2>1, Zenon DEF Kept
<1> QED
  BY <1>1, <1>2, <1>3, <1>4, <1>5, <1>6 DEF IInv, Inv, Tracked

\* A step that covers what it adds and what awaited confirmation before keeps
\* track of all of it.
LEMMA StillTracked ==
    ASSUME Tracked(log, unconfirmed), Covers(log, log'),
           unconfirmed' = Awaiting(log')
    PROVE  Tracked(log', unconfirmed')
<1>1. unconfirmed' \subseteq FirstIndex(log')..LastIndex(log')
  BY DEF Awaiting
<1>2. ASSUME NEW i \in unconfirmed' PROVE Within(i, log'.unstable)
  <2>1. /\ i \in FirstIndex(log')..LastIndex(log')
        /\ i \in unconfirmed \/ ~HasEntry(log, i) \/ EntryAt(log, i) # EntryAt(log', i)
    BY <1>2 DEF Awaiting
  <2>2. i \in unconfirmed => Within(i, log.unstable)
    BY Zenon DEF Tracked
  <2> QED
    BY <2>1, <2>2 DEF Covers
<1> QED
  BY <1>1, <1>2 DEF Tracked

\* Every step keeps it.
LEMMA StepInv == IInv /\ [Next]_vars => IInv'
<1> SUFFICES ASSUME IInv, [Next]_vars
             PROVE  Inv(log', decided') /\ Tracked(log', unconfirmed')
  BY DEF IInv
<1>0. Tracked(log, unconfirmed)
  BY DEF IInv
<1>1. CASE UNCHANGED vars
  BY <1>1 DEF vars, IInv
<1>2. ASSUME NEW term \in Term, AppendOwn(term)
      PROVE  Inv(log', decided') /\ Tracked(log', unconfirmed')
  <2>1. unconfirmed' = Awaiting(log')
    BY <1>2 DEF AppendOwn
  <2> QED
    BY <2>1, <1>0, <1>2, AppendStep, StillTracked
<1>3. ASSUME NEW prev \in Matched, NEW ts \in Suffixes(prev), Merge(prev, ts)
      PROVE  Inv(log', decided') /\ Tracked(log', unconfirmed')
  <2>1. unconfirmed' = Awaiting(log')
    BY <1>3 DEF Merge
  <2> QED
    BY <2>1, <1>0, <1>3, MergeStep, StillTracked
<1>4. ASSUME NEW index \in 1..LastIndex(log), Commit(index)
      PROVE  Inv(log', decided') /\ Tracked(log', unconfirmed')
  BY <1>4, CommitStep
<1>5. ASSUME NEW index \in 1..LastIndex(log), Persisted(index)
      PROVE  Inv(log', decided') /\ Tracked(log', unconfirmed')
  BY <1>5, PersistedStep
<1>6. ASSUME NEW index \in 1..LastIndex(log), CompactLog(index)
      PROVE  Inv(log', decided') /\ Tracked(log', unconfirmed')
  <2>1. unconfirmed' = Awaiting(log')
    BY <1>6 DEF CompactLog
  <2> QED
    BY <2>1, <1>0, <1>6, CompactStep, StillTracked
<1>7. ASSUME NEW index \in 1..MaxIndex,
             NEW ts \in UNION {[1..k -> Term] : k \in 0..(MaxIndex - Len(decided))},
             Install(index, ts)
      PROVE  Inv(log', decided') /\ Tracked(log', unconfirmed')
  <2>1. unconfirmed' = Awaiting(log')
    BY <1>7 DEF Install
  <2> QED
    BY <2>1, <1>0, <1>7, InstallStep, StillTracked
<1> QED
  BY <1>1, <1>2, <1>3, <1>4, <1>5, <1>6, <1>7 DEF Next

\* The invariant in its unprimed form gives the properties the runs check.
LEMMA InvImplies == IInv => TypeOK /\ CommittedKept /\ UnstableCovers
<1> SUFFICES ASSUME IInv PROVE TypeOK /\ CommittedKept /\ UnstableCovers
  OBVIOUS
<1>1. /\ WellFormed(log) /\ Len(decided) = log.committed
      /\ LastIndex(log) <= MaxIndex /\ Kept(log, decided)
  BY DEF IInv, Inv
<1>2. /\ log.snap.index \in Nat /\ LastIndex(log) = log.snap.index + Len(log.entries)
      /\ TermAt(log, log.snap.index) = log.snap.term
  BY <1>1, Queries
<1>3. Validate(log)
  <2>1. (log.snap.index + 1) - 1 = log.snap.index
    BY <1>2
  <2>2. HasTerm(log, log.snap.index)
    BY DEF HasTerm
  <2> QED
    BY <2>1, <2>2, <1>1, <1>2 DEF Validate, ValidateContinuity, FirstIndex, WellFormed
<1>4. log.snap.index <= log.committed /\ log.committed <= LastIndex(log)
  BY <1>1, <1>2 DEF WellFormed
<1>5. /\ unconfirmed \subseteq FirstIndex(log)..LastIndex(log)
      /\ UnstableCovers
  BY DEF IInv, Tracked, Within, UnstableCovers
<1> QED
  BY <1>1, <1>3, <1>4, <1>5 DEF TypeOK, CommittedKept, Kept

\* For every bound: the log stays well formed, with consecutive indexes, terms
\* that never fall and the commit point within it (validate_continuity).
THEOREM TypeCorrect == Spec => []TypeOK
<1> QED
  BY StepInv, InitInv, InvImplies, PTL DEF Spec

\* For every bound: no append, merge, install or compaction changes the term
\* of a committed index.
THEOREM CommittedStays == Spec => []CommittedKept
<1> QED
  BY StepInv, InitInv, InvImplies, PTL DEF Spec

\* For every bound: merge_from_leader accepts what a leader may send, leaves
\* the log before it alone, ends with the leader's entries in place and never
\* truncates for entries the log already has.
THEOREM MergeCorrect == Spec => []MergeExact
<1>1. IInv => MergeExact
  BY MergeIsExact
<1> QED
  BY <1>1, StepInv, InitInv, PTL DEF Spec

\* For every bound: an entry that an append or a merge put into the log, in
\* whichever earlier step, lies in the unstable window until the host confirms
\* it or it leaves the log, so it is never taken for durable before.
THEOREM UnconfirmedCovered == Spec => []UnstableCovers
<1> QED
  BY StepInv, InitInv, InvImplies, PTL DEF Spec
=============================================================================
