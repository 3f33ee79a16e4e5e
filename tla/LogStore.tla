------------------------------- MODULE LogStore -------------------------------
(***************************************************************************)
(* The log of one node under the calls its core makes, in every order the  *)
(* protocol allows: as a leader it appends, as a follower it merges what a *)
(* leader sends, commits, confirms durability, installs a leader's         *)
(* snapshot and compacts behind its own.                                   *)
(*                                                                         *)
(* What Raft guarantees about the inputs is assumed here, and checked in   *)
(* Cluster: a leader holds every committed entry, and so does a snapshot   *)
(* that reaches that far.  `decided` records the terms of the committed    *)
(* entries, those a snapshot has replaced included, and `unconfirmed` the  *)
(* entries whose persistence the host has not confirmed, worked out from   *)
(* the entries themselves and not from the window the code keeps.          *)
(***************************************************************************)
EXTENDS RaftLog

CONSTANTS
    MaxIndex,   \* bound on the log's last index
    MaxTerm     \* bound on terms

ASSUME LogStoreAssumption == MaxIndex \in Nat /\ MaxTerm \in Nat

VARIABLES
    log,          \* the RaftLog
    decided,      \* history: the term of every committed index
    unconfirmed   \* history: the indexes of the entries not confirmed durable

vars == <<log, decided, unconfirmed>>

Term == 1..MaxTerm

Init ==
    /\ log = FromRecovered([snap |-> NoSnap, entries |-> << >>, hard |-> [commit |-> 0]])
    /\ decided = << >>
    /\ unconfirmed = {}

\* The entries with terms ts that follow index prev.
EntriesAfter(prev, ts) == [k \in 1..Len(ts) |-> [index |-> prev + k, term |-> ts[k]]]

\* Term sequences that may follow index prev in the log of a node that holds
\* all of `decided` and agrees with this log at prev.
Rising(ts, before) ==
    \A k \in 1..Len(ts) : ts[k] >= (IF k = 1 THEN before ELSE ts[k - 1])

Suffixes(prev) ==
    {ts \in UNION {[1..k -> Term] : k \in 1..(MaxIndex - prev)} :
        /\ Rising(ts, TermAt(log, prev))
        /\ \A k \in 1..Len(ts) : prev + k <= Len(decided) => ts[k] = decided[prev + k]}

\* The indexes a leader's AppendEntries may follow on.
Matched == {i \in 0..LastIndex(log) : HasTerm(log, i)}

\* The entries of l that await confirmation when l replaces the log: those
\* that did already, and those the log did not have.
Awaiting(l) ==
    {i \in FirstIndex(l)..LastIndex(l) :
        i \in unconfirmed \/ ~HasEntry(log, i) \/ EntryAt(log, i) # EntryAt(l, i)}

\* `RaftLog::append` by a leader (persist_leader_noop, on_propose).
AppendOwn(term) ==
    LET e == [index |-> LastIndex(log) + 1, term |-> term]
    IN /\ e.index <= MaxIndex /\ term >= TermAt(log, LastIndex(log))
       /\ log' = Extend(log, <<e>>).log
       /\ unconfirmed' = Awaiting(log')
       /\ UNCHANGED decided

\* `RaftLog::merge_from_leader` (on_append_entries).
Merge(prev, ts) ==
    /\ log' = MergeFromLeader(log, EntriesAfter(prev, ts)).log
    /\ unconfirmed' = Awaiting(log')
    /\ UNCHANGED decided

\* `RaftLog::commit_to`
Commit(index) ==
    /\ log' = CommitTo(log, index).log
    /\ decided' = [i \in 1..log'.committed |->
                      IF i <= Len(decided) THEN decided[i] ELSE TermAt(log, i)]
    /\ UNCHANGED unconfirmed

\* `RaftLog::mark_stable` on a completed persist.
Persisted(index) ==
    /\ log' = MarkStable(log, index).log
    /\ unconfirmed' = {i \in unconfirmed : i > index}
    /\ UNCHANGED decided

\* `RaftLog::install_snapshot` of a snapshot beyond the current one
\* (on_install_snapshot_chunk ignores the others); ts are the terms of the
\* entries it covers that this node had not known to be committed.
Install(index, ts) ==
    LET history == decided \o ts
    IN /\ index > log.snap.index
       /\ Len(history) >= index /\ (ts # << >> => Len(history) = index)
       /\ Rising(ts, IF decided = << >> THEN 0 ELSE decided[Len(decided)])
       /\ log' = InstallSnapshot(log, [index |-> index, term |-> history[index]]).log
       /\ decided' = history
       /\ unconfirmed' = Awaiting(log')

\* `RaftLog::compact` behind a snapshot of applied entries.
CompactLog(index) ==
    /\ index > log.snap.index /\ index <= log.committed
    /\ log' = Compact(log, [index |-> index, term |-> TermAt(log, index)]).log
    /\ unconfirmed' = Awaiting(log')
    /\ UNCHANGED decided

Next ==
    \/ \E term \in Term : AppendOwn(term)
    \/ \E prev \in Matched : \E ts \in Suffixes(prev) : Merge(prev, ts)
    \/ \E index \in 1..LastIndex(log) : Commit(index) \/ Persisted(index) \/ CompactLog(index)
    \/ \E index \in 1..MaxIndex :
          \E ts \in UNION {[1..k -> Term] : k \in 0..(MaxIndex - Len(decided))} :
             Install(index, ts)

Spec == Init /\ [][Next]_vars
-----------------------------------------------------------------------------
\* The log is well formed: indexes are consecutive from the snapshot boundary,
\* terms never fall, and the commit point lies within the log
\* (validate_continuity, invariant.rs).
TypeOK ==
    /\ Validate(log)
    /\ log.snap.index <= log.committed /\ log.committed <= LastIndex(log)
    /\ Len(decided) = log.committed
    /\ LastIndex(log) <= MaxIndex
    /\ unconfirmed \subseteq FirstIndex(log)..LastIndex(log)

\* What was committed stays: no append, merge, snapshot or compaction changes
\* the term at a committed index, and the boundary keeps the term of the entry
\* it replaced.
CommittedKept ==
    \A i \in log.snap.index..log.committed :
        i > 0 => HasTerm(log, i) /\ TermAt(log, i) = decided[i]

\* merge_from_leader against its reference: it succeeds, leaves everything up
\* to the previous index alone, ends with the leader's entries in place, and
\* keeps what lies beyond them exactly when the log already had them, so a
\* late or repeated message never truncates.
MergeExact ==
    \A prev \in Matched : \A ts \in Suffixes(prev) :
        LET es == EntriesAfter(prev, ts)
            r == MergeFromLeader(log, es)
            last == prev + Len(ts)
            known == \A k \in 1..Len(ts) :
                        HasTerm(log, prev + k) /\ TermAt(log, prev + k) = ts[k]
        IN /\ r.ok
           /\ \A i \in log.snap.index..prev : TermAt(r.log, i) = TermAt(log, i)
           /\ \A k \in 1..Len(ts) : TermAt(r.log, prev + k) = ts[k]
           /\ IF known THEN r.log = log ELSE LastIndex(r.log) = last

\* Nothing is missing from the unstable window: every entry an append or a
\* merge put into the log, in whichever earlier step, lies in it until the
\* host confirms the entry or a truncation or a snapshot removes it, however
\* mark_range, truncate_from and mark_stable_through follow on one another.
UnstableCovers ==
    \A i \in unconfirmed : log.unstable.from <= i /\ i <= log.unstable.through
=============================================================================
