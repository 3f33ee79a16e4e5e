------------------------------- MODULE RaftLog -------------------------------
(***************************************************************************)
(* The logical log of a node (log/mod.rs, log/unstable.rs): a compacted    *)
(* prefix described by its last index and term, the suffix of entries      *)
(* after it, the commit point and the window of entries whose persistence  *)
(* has not been confirmed.                                                 *)
(*                                                                         *)
(* A log is a record                                                       *)
(*   snap      [index, term] of the snapshot boundary, NoSnap for `None`   *)
(*   entries   sequence of [index, term, cmd]                              *)
(*   committed the commit point                                            *)
(*   unstable  [from, through], NoWindow when nothing awaits persistence   *)
(*                                                                         *)
(* The virtual origin (index 0, term 0) of an uncompacted log is the       *)
(* boundary NoSnap, so both cases of the code's index arithmetic coincide. *)
(* A method that returns Result yields [ok, log]; on an error the log is   *)
(* returned as the code leaves it.                                         *)
(***************************************************************************)
EXTENDS Naturals, Sequences

NoSnap == [index |-> 0, term |-> 0]
NoWindow == [from |-> 0, through |-> 0]

Ok(l) == [ok |-> TRUE, log |-> l]
Err(l) == [ok |-> FALSE, log |-> l]

Smaller(a, b) == IF a <= b THEN a ELSE b
Larger(a, b) == IF a >= b THEN a ELSE b

\* The first element of a nonempty set of numbers.
Least(S) == CHOOSE x \in S : \A y \in S : x <= y
Greatest(S) == CHOOSE x \in S : \A y \in S : x >= y
-----------------------------------------------------------------------------
(* Queries *)

FirstIndex(l) == l.snap.index + 1

LastIndex(l) ==
    IF l.entries = << >> THEN l.snap.index ELSE l.entries[Len(l.entries)].index

\* `entry_at` finds an entry by its offset from the first index.
HasEntry(l, i) == i >= FirstIndex(l) /\ i - l.snap.index <= Len(l.entries)
EntryAt(l, i) == l.entries[i - l.snap.index]

\* `term` answers at the snapshot boundary and for every entry of the suffix;
\* below the boundary it reports Compacted, above the suffix Unavailable.
Compacted(l, i) == i < l.snap.index
HasTerm(l, i) == i = l.snap.index \/ HasEntry(l, i)
TermAt(l, i) == IF i = l.snap.index THEN l.snap.term ELSE EntryAt(l, i).term

\* The indexes of the suffix that carry `term`.
IndexesOfTerm(l, term) ==
    {l.entries[k].index : k \in {j \in 1..Len(l.entries) : l.entries[j].term = term}}

\* 0 stands for None.
LastIndexOfTerm(l, term) ==
    IF IndexesOfTerm(l, term) # {} THEN Greatest(IndexesOfTerm(l, term))
    ELSE IF l.snap.term = term THEN l.snap.index ELSE 0

FirstIndexOfTerm(l, term) ==
    IF l.snap # NoSnap /\ l.snap.term = term THEN l.snap.index
    ELSE IF IndexesOfTerm(l, term) # {} THEN Least(IndexesOfTerm(l, term)) ELSE 0

\* `entries(start..=end)` is an error unless the whole range is in the suffix.
HasRange(l, start, end) ==
    start <= end /\ FirstIndex(l) <= start /\ end <= LastIndex(l)
Entries(l, start, end) ==
    SubSeq(l.entries, start - l.snap.index, end - l.snap.index)

\* Indexes consecutive from `first`, terms never falling below `before`.
Continuous(es, first, before) ==
    \A k \in 1..Len(es) :
        /\ es[k].index = first + k - 1
        /\ es[k].term >= (IF k = 1 THEN before ELSE es[k - 1].term)

ValidateContinuity(l, es, first) ==
    /\ HasTerm(l, first - 1)
    /\ Continuous(es, first, TermAt(l, first - 1))

Validate(l) == ValidateContinuity(l, l.entries, FirstIndex(l))
-----------------------------------------------------------------------------
(* The unstable window *)

\* Faulty variant: the new range replaces the window.
MarkOnly(u, from, through) == [from |-> from, through |-> through]

MarkRange(u, from, through) ==
    IF u = NoWindow THEN [from |-> from, through |-> through]
    ELSE [from |-> Smaller(u.from, from), through |-> Larger(u.through, through)]

TruncateFrom(u, from) ==
    IF u = NoWindow THEN u
    ELSE IF from <= u.from THEN NoWindow
    ELSE IF from <= u.through THEN [u EXCEPT !.through = from - 1]
    ELSE u

MarkStableThrough(u, index) ==
    IF u = NoWindow \/ index < u.from THEN u
    ELSE IF index >= u.through THEN NoWindow
    ELSE [u EXCEPT !.from = index + 1]
-----------------------------------------------------------------------------
(* Mutations *)

FromRecovered(d) ==
    [snap |-> d.snap, entries |-> d.entries, committed |-> d.hard.commit,
     unstable |-> NoWindow]

CommitTo(l, index) ==
    IF index > LastIndex(l) THEN Err(l)
    ELSE Ok([l EXCEPT !.committed = Larger(@, index)])

\* `append`: the leader's side, a continuous suffix after the last index.
Extend(l, es) ==
    IF es = << >> THEN Ok(l)
    ELSE IF ~ValidateContinuity(l, es, LastIndex(l) + 1) THEN Err(l)
    ELSE Ok([l EXCEPT !.entries = @ \o es,
                      !.unstable = MarkRange(@, es[1].index, es[Len(es)].index)])

\* The positions of `incoming` whose term the local log does not confirm.
Changes(l, incoming) ==
    {k \in 1..Len(incoming) :
        \/ ~HasTerm(l, incoming[k].index)
        \/ TermAt(l, incoming[k].index) # incoming[k].term}

\* `replace_conflict`: keep the log before the first disagreement and put the
\* leader's suffix there; never at or below the commit point.
ReplaceConflict(l, incoming) ==
    IF incoming = << >> THEN Ok(l)
    ELSE IF \/ incoming[1].index > LastIndex(l) + 1
            \/ ~ValidateContinuity(l, incoming, incoming[1].index) THEN Err(l)
    ELSE IF Changes(l, incoming) = {} THEN Ok(l)
    ELSE LET at == Least(Changes(l, incoming))
             from == incoming[at].index
         IN IF from <= l.committed THEN Err(l)
            ELSE Ok([l EXCEPT
                       !.entries = SubSeq(@, 1, from - FirstIndex(l))
                                       \o SubSeq(incoming, at, Len(incoming)),
                       !.unstable = MarkRange(TruncateFrom(@, from), from,
                                              incoming[Len(incoming)].index)])

\* Faulty variant: the whole message replaces what follows it.
AlwaysReplace(l, incoming) ==
    LET from == incoming[1].index
    IN IF incoming = << >> THEN Ok(l)
       ELSE Ok([l EXCEPT
                  !.entries = SubSeq(@, 1, from - FirstIndex(l)) \o incoming,
                  !.unstable = MarkRange(TruncateFrom(@, from), from,
                                         incoming[Len(incoming)].index)])

\* `merge_from_leader` hands `replace_conflict` the incoming entries from the
\* first change on and returns them as the entries that need durability.
NewEntries(l, incoming) ==
    IF Changes(l, incoming) = {} THEN << >>
    ELSE SubSeq(incoming, Least(Changes(l, incoming)), Len(incoming))

MergeFromLeader(l, incoming) == ReplaceConflict(l, NewEntries(l, incoming))

MarkStable(l, index) ==
    IF index > LastIndex(l) THEN Err(l)
    ELSE Ok([l EXCEPT !.unstable = MarkStableThrough(@, index)])

\* `entries.drain(..n)`
DropFirst(es, n) == SubSeq(es, Smaller(n, Len(es)) + 1, Len(es))

\* Faulty variant: the suffix survives a boundary that does not match.
InstallOverSuffix(l, snap) ==
    Ok([l EXCEPT
          !.entries = DropFirst(@, snap.index - l.snap.index),
          !.unstable = MarkStableThrough(@, snap.index),
          !.snap = snap,
          !.committed = Larger(@, snap.index)])

\* A received snapshot keeps the suffix only when the log has the snapshot's
\* term at the boundary.
InstallSnapshot(l, snap) ==
    LET retains == HasTerm(l, snap.index) /\ TermAt(l, snap.index) = snap.term
    IN Ok([l EXCEPT
             !.entries = IF retains THEN DropFirst(@, snap.index - l.snap.index)
                         ELSE << >>,
             !.unstable = MarkStableThrough(@, snap.index),
             !.snap = snap,
             !.committed = Larger(@, snap.index)])

\* Faulty variant: one entry too many is drained.
CompactTooMuch(l, snap) ==
    Ok([l EXCEPT
          !.entries = DropFirst(@, snap.index - l.snap.index + 1),
          !.snap = snap,
          !.unstable = MarkStableThrough(@, snap.index)])

\* A locally built snapshot replaces a committed prefix of this log.
Compact(l, snap) ==
    IF \/ snap.index > l.committed
       \/ ~HasTerm(l, snap.index)
       \/ TermAt(l, snap.index) # snap.term THEN Err(l)
    ELSE Ok([l EXCEPT
               !.entries = DropFirst(@, snap.index - l.snap.index),
               !.snap = snap,
               !.unstable = MarkStableThrough(@, snap.index)])
=============================================================================
