------------------------------- MODULE Cluster -------------------------------
(***************************************************************************)
(* A cluster of cores, each driven by a host, over a network that delays,  *)
(* reorders, duplicates and loses messages, with crashes and recovery: one *)
(* action per event and per completion, and the properties of the cluster. *)
(***************************************************************************)
EXTENDS RaftCore, Elections

ASSUME LimitsAssumption ==
    /\ SnapshotAfter \in Nat \ {0} /\ SnapshotChunks \in Nat \ {0}
    /\ MaxInflight \in Nat \ {0} /\ MaxEntriesPerRpc \in Nat \ {0}

\* The core after the step whose handler left it in s.
Stepped(n, s) == Step(core[n], s)

\* An event the core ignores (no change, no output) is not a step.
Effective(n, s) == [s EXCEPT !.seq = 0] # core[n]
-----------------------------------------------------------------------------
(* Events of one node *)

\* Event::Tick(Election)
ElectionTick(n) ==
    LET s == Stepped(n, StartPreVote(n, Begin(n)))
    IN /\ plan.campaign # << >> /\ n \in Head(plan.campaign)
       /\ plan' = [plan EXCEPT !.campaign = Tail(@)]
       /\ Ready(n) /\ Effective(n, s)
       /\ Commit(n, s, host[n], msgs)
       /\ UNCHANGED <<disk, machine, issued, ballots>>

\* Event::Tick(Heartbeat)
HeartbeatTick(n) ==
    LET s == Stepped(n, OnHeartbeatTick(n, Begin(n)))
    IN /\ Ready(n) /\ Effective(n, s)
       /\ IF "heartbeat" \in plan.endless THEN plan' = plan ELSE Spend("heartbeat")
       /\ Commit(n, s, host[n], msgs)
       /\ UNCHANGED <<disk, machine, issued, ballots>>

\* Event::SnapshotRequested
SnapshotRequested(n) ==
    LET s == Stepped(n, RequestLocalSnapshot(Begin(n)))
    IN /\ Ready(n) /\ Effective(n, s)
       /\ n \in plan.builders
       /\ plan' = [plan EXCEPT !.builders = @ \ {n}]
       /\ Commit(n, s, host[n], msgs)
       /\ UNCHANGED <<disk, machine, issued, ballots>>

\* What the delivery of m takes from the plan.
Counted(m) == IF m.kind = "AppendEntries" /\ "append" \notin plan.endless THEN 1 ELSE 0

\* The receiver as the handler of message m finds it.
Received(m) == MarkActive(Begin(m.to), m.from)

\* Event::MessageReceived, whose handler leaves the receiver in `handled`: the
\* message leaves the network, or a copy stays.  Where steps are counted, a
\* message the core would ignore is left undelivered, which comes to the same.
Deliver(m, handled) ==
    LET n == m.to
        s == Stepped(n, handled)
    IN /\ Ready(n) /\ (plan.endless = {} => Effective(n, s))
       /\ \E copy \in {0, 1} :
             /\ copy <= plan.duplicate /\ Counted(m) <= plan.append
             /\ plan' = [plan EXCEPT !.duplicate = @ - copy, !.append = @ - Counted(m)]
             /\ Commit(n, s, host[n], IF copy = 1 THEN msgs ELSE msgs \ {m})
       /\ UNCHANGED <<disk, machine, issued, ballots>>

ReceivePreVote(m) ==
    m.kind = "PreVote" /\ Deliver(m, OnPreVote(m.to, Received(m), m))
ReceivePreVoteResponse(m) ==
    m.kind = "PreVoteResponse" /\ Deliver(m, OnPreVoteResponse(m.to, Received(m), m))
ReceiveRequestVote(m) ==
    m.kind = "RequestVote" /\ Deliver(m, OnVoteRequest(m.to, Received(m), m))
ReceiveVoteResponse(m) ==
    m.kind = "VoteResponse" /\ Deliver(m, OnVoteResponse(m.to, Received(m), m))
ReceiveAppendEntries(m) ==
    m.kind = "AppendEntries" /\ Deliver(m, OnAppendEntries(m.to, Received(m), m))
ReceiveAppendEntriesResponse(m) ==
    m.kind = "AppendEntriesResponse"
        /\ Deliver(m, OnAppendEntriesResponse(m.to, Received(m), m))

ReceiveInstallSnapshot(m) ==
    m.kind = "InstallSnapshot" /\ Deliver(m, OnInstallSnapshot(m.to, Received(m), m))
ReceiveInstallSnapshotResponse(m) ==
    m.kind = "InstallSnapshotResponse"
        /\ Deliver(m, OnInstallSnapshotResponse(m.to, Received(m), m))

\* A client makes each request once.
Issue(n, id, floor) ==
    /\ <<n, id>> \in plan.clients
    /\ plan' = [plan EXCEPT !.clients = @ \ (Node \X {id})]
    /\ issued' = issued \cup {[id |-> id, floor |-> floor]}

\* Event::Propose
Propose(n, id) ==
    /\ Ready(n)
    /\ Issue(n, id, 0)
    /\ Commit(n, Stepped(n, OnPropose(Begin(n), id)), host[n], msgs)
    /\ UNCHANGED <<disk, machine, ballots>>

\* Event::Read
Read(n, id) ==
    LET s == Stepped(n, OnRead(n, Begin(n), id))
    IN /\ Ready(n) /\ Effective(n, s)
       /\ Issue(n, id, Len(decided))
       /\ Commit(n, s, host[n], msgs)
       /\ UNCHANGED <<disk, machine, ballots>>

\* The k-th outstanding effect of n is reported complete.
Report(n, k, outcome) ==
    /\ ~core[n].stopped
    /\ Commit(n, Stepped(n, OnEffectCompleted(n, Begin(n), host[n][k].id, outcome)),
              Without(host[n], k), msgs)
    /\ UNCHANGED <<plan, issued>>

\* A persist batch reaches the disk.
CompletePersist(n) ==
    \E k \in Completable(n, "Persist") :
        /\ disk' = [disk EXCEPT ![n] = Written(@, host[n][k])]
        /\ ballots' = ballots \cup Cast(n, host[n][k])
        /\ Report(n, k, Nil)
        /\ UNCHANGED machine

\* The state machine executes the entries of an apply effect.
CompleteApply(n) ==
    \E k \in Completable(n, "Apply") :
        /\ machine' = [machine EXCEPT ![n] = @ \o host[n][k].entries]
        /\ Report(n, k, Nil)
        /\ UNCHANGED <<disk, ballots>>

\* "The host creates a snapshot of its state machine at `through`".
CompleteBuild(n) ==
    \E k \in Completable(n, "BuildSnapshot") :
        LET i == host[n][k].through
            snap == [index |-> i, term |-> machine[n][i].term, by |-> n,
                     body |-> SubSeq(machine[n], 1, i)]
        IN /\ Report(n, k, snap)
           /\ UNCHANGED <<disk, machine, ballots>>

CompleteCompact(n) ==
    \E k \in Completable(n, "CompactLog") :
        /\ disk' = [disk EXCEPT ![n] = Written(@, host[n][k])]
        /\ Report(n, k, Nil)
        /\ UNCHANGED <<machine, ballots>>

\* Chunks are kept until the transfer ends; a crash loses them with the receiver.
CompleteStore(n) ==
    \E k \in Completable(n, "StoreSnapshotChunk") :
        /\ Report(n, k, Nil)
        /\ UNCHANGED <<disk, machine, ballots>>

\* "The host replaces its current state machine state with the snapshot contents."
CompleteInstall(n) ==
    \E k \in Completable(n, "InstallSnapshot") :
        /\ machine' = [machine EXCEPT ![n] = host[n][k].snap.body]
        /\ Report(n, k, Nil)
        /\ UNCHANGED <<disk, ballots>>

\* A read at the end of the snapshot returns no bytes.
CompleteRead(n) ==
    \E k \in Completable(n, "ReadSnapshotChunk") :
        LET offset == host[n][k].offset
        IN /\ Report(n, k, [size |-> IF offset < SnapshotChunks THEN 1 ELSE 0,
                            done |-> offset + 1 >= SnapshotChunks])
           /\ UNCHANGED <<disk, machine, ballots>>

Complete(n) ==
    \/ CompletePersist(n)
    \/ CompleteApply(n)
    \/ CompleteBuild(n)
    \/ CompleteCompact(n)
    \/ CompleteStore(n)
    \/ CompleteInstall(n)
    \/ CompleteRead(n)
-----------------------------------------------------------------------------
(* Failures *)

\* The host reports that an effect failed: the core stops.
FailEffect(n) ==
    /\ ~core[n].stopped
    /\ SpendCrash(n)
    /\ \E k \in UNION {Completable(n, host[n][j].kind) : j \in 1..Len(host[n])} :
          Commit(n, Stepped(n, OnEffectFailed(Begin(n), host[n][k].id)),
                 Without(host[n], k), msgs)
    /\ UNCHANGED <<disk, machine, issued, ballots>>

\* Event::Shutdown
Shutdown(n) ==
    /\ Ready(n)
    /\ SpendCrash(n)
    /\ Commit(n, Stepped(n, [Begin(n) EXCEPT !.stopped = TRUE]), host[n], msgs)
    /\ UNCHANGED <<disk, machine, issued, ballots>>

Receive(m) ==
    \/ ReceivePreVote(m)
    \/ ReceivePreVoteResponse(m)
    \/ ReceiveRequestVote(m)
    \/ ReceiveVoteResponse(m)
    \/ ReceiveAppendEntries(m)
    \/ ReceiveAppendEntriesResponse(m)
    \/ ReceiveInstallSnapshot(m)
    \/ ReceiveInstallSnapshotResponse(m)

Tick(n) == ElectionTick(n) \/ HeartbeatTick(n)

Ask(n) ==
    \/ SnapshotRequested(n)
    \/ \E id \in Proposal : Propose(n, id)
    \/ \E id \in ReadId : Read(n, id)

Break(n) == FailEffect(n) \/ Shutdown(n) \/ Crash(n) \/ Recover(n)

Next ==
    \/ \E n \in Node : Tick(n) \/ Ask(n) \/ Complete(n) \/ Break(n)
    \/ \E m \in msgs : Receive(m) \/ Lose(m)

Spec == Init /\ [][Next]_vars
-----------------------------------------------------------------------------
(* Properties *)

LogOf(n) == Whole(core[n].log)
DiskLog(n) == Whole(Loaded(disk[n]))
Prefix(es, k) == SubSeq(es, 1, k)
IsPrefixOf(es, fs) == Len(es) <= Len(fs) /\ es = Prefix(fs, Len(es))

Entry == [index : Nat \ {0}, term : Nat \ {0}, cmd : Proposal \cup Earlier \cup {Noop}]
EffectKind ==
    {"Persist", "Apply", "BuildSnapshot", "CompactLog", "StoreSnapshotChunk",
     "InstallSnapshot", "ReadSnapshotChunk"}
\* Types of the durable state, the protocol fields of the cores and the host
\* queues.
TypeOK ==
    /\ \A n \in Node :
          /\ disk[n].hard \in HardState /\ core[n].hard \in HardState
          /\ core[n].role \in {"Follower", "PreCandidate", "Candidate", "Leader"}
          /\ \A e \in {disk[n].entries[k] : k \in 1..Len(disk[n].entries)}
                     \cup {LogOf(n)[k] : k \in 1..Len(LogOf(n))} : e \in Entry
          /\ core[n].stopped \in BOOLEAN /\ core[n].err = "Ok"
          /\ DOMAIN core[n].progress \in {{}, Peers(n)}
          /\ \A k \in 1..Len(host[n]) : host[n][k].kind \in EffectKind
    /\ \A m \in msgs : m.from \in Node /\ m.to \in Peers(m.from)
    /\ issued \subseteq [id : Proposal \cup ReadId, floor : 0..Len(decided)]

\* Log Matching: two logs, in memory or on disk, that agree on the term of an
\* index agree on everything up to it.
LogMatching ==
    LET logs == {LogOf(n) : n \in Node} \cup {DiskLog(n) : n \in Node}
    IN \A a, b \in logs : \A k \in 1..Smaller(Len(a), Len(b)) :
          a[k].term = b[k].term => Prefix(a, k) = Prefix(b, k)

\* State Machine Safety: every core's committed prefix, and whatever any state
\* machine has executed, is a prefix of one history.
CommittedAgree ==
    \A n \in Node :
        /\ IsPrefixOf(Prefix(LogOf(n), core[n].log.committed), decided)
        /\ IsPrefixOf(machine[n], decided)

\* Leader Completeness: the latest leader holds everything ever committed.
LeaderCompleteness ==
    \A n \in Node :
        (core[n].role = "Leader" /\ \A e \in elected : e[1] <= core[n].hard.term)
            => IsPrefixOf(decided, LogOf(n))

\* Whatever a core counts as committed is on the disks of a quorum, so no
\* minority of crashes can lose it.
CommitDurable ==
    Cardinality({n \in Node : IsPrefixOf(decided, DiskLog(n))}) >= Quorum

\* A leader's match_index is true of the follower's disk, as long as the
\* follower has not moved on to a higher term.
MatchIndexSound ==
    \A n \in Node : core[n].role = "Leader" =>
        \A p \in DOMAIN core[n].progress :
            disk[p].hard.term <= core[n].hard.term =>
                IsPrefixOf(Prefix(LogOf(n), core[n].progress[p].match), DiskLog(p))

\* The state machine executes every committed entry once and in order: it has
\* executed exactly the entries up to applied_index.
AppliedExactly ==
    \A n \in Node : machine[n] = Prefix(LogOf(n), core[n].applied)

\* A client gets one answer per proposal, and an answer Applied{index} names the
\* place where this very command was committed; a Rejected command is nowhere.
ProposalAnswersTrue ==
    LET answers == {r \in results : r.kind = "ProposalResult"}
    IN /\ \A a, b \in answers : a.id = b.id => a = b
       /\ \A a \in answers :
             /\ a.result = "Applied" =>
                   a.index <= Len(decided) /\ decided[a.index].cmd = a.id
             /\ a.result = "Rejected" =>
                   \A n \in Node : \A k \in 1..Len(LogOf(n)) : LogOf(n)[k].cmd # a.id

\* Reads are linearizable: a read is released at an index that covers every
\* entry any node had committed when the client asked, and once ("any state at
\* or beyond this index is guaranteed linearizable",
\* docs/building-a-runtime-agnostic-raft-core.md:244).
ReadsLinearizable ==
    LET ready == {r \in results : r.kind = "ReadReady"}
    IN /\ \A a, b \in ready : a.id = b.id => a = b
       /\ \A a \in ready : \A r \in issued : r.id = a.id => a.index >= r.floor

\* No core meets a log error or an invariant violation of invariant.rs.
NoFault == faults = {}

\* Whenever a node dies, `from_parts` accepts what its disk holds: no prefix of
\* the outstanding effects leaves a gap, a term that falls or a commit index
\* outside the log.
RecoveryValid ==
    \A n \in Node : \A k \in 0..Len(host[n]) : Recoverable(Loaded(DiskAfter(n, k)))
=============================================================================
