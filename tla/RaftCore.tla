------------------------------- MODULE RaftCore -------------------------------
(***************************************************************************)
(* The deterministic core of one node (core.rs with raft/election.rs,      *)
(* raft/commit.rs, raft/replication.rs, raft/read_index.rs,                *)
(* raft/snapshot.rs and invariant.rs).  `RaftCore::step` is a function of  *)
(* the core's state and an event, so every handler is an operator from a   *)
(* core to a core.                                                         *)
(*                                                                         *)
(* A snapshot is a record [index, term, by, body]: the boundary, the node  *)
(* that built it (which stands for its SnapshotId), and what the state     *)
(* machine had executed.  It travels in SnapshotChunks chunks, numbered    *)
(* from 0; an offset is a chunk's number.  `snapshot_index` is always the  *)
(* index of the log's snapshot and is not kept apart.                      *)
(***************************************************************************)
EXTENDS CoreState, Progress

CONSTANTS
    Noop,               \* the payload of a leader no-op
    Oversized,          \* commands whose encoded_len exceeds max_bytes_per_rpc
    MaxEntriesPerRpc,   \* config.max_entries_per_rpc()
    MaxPendingReads,    \* config.max_pending_reads()
    SnapshotAfter,      \* config.snapshot_after_entries()
    SnapshotChunks      \* a snapshot's size over config.snapshot_chunk_bytes()
-----------------------------------------------------------------------------
(* Applies and changes of term *)

\* Faulty variant: an apply in flight does not hold back the next one.
EmitApplyAgain(s) ==
    IF s.pendingPersist # Nil \/ s.applied >= s.hard.commit THEN s
    ELSE [s EXCEPT
            !.seq = @ + 1,
            !.pendingApply = [id |-> s.seq + 1, through |-> s.hard.commit],
            !.fx = Append(@, [id |-> s.seq + 1, kind |-> "Apply",
                              entries |-> Entries(s.log, s.applied + 1, s.hard.commit)])]

\* Faulty variant: a persist in flight does not hold back an apply.
EmitApplyEarly(s) ==
    IF s.pendingApply # Nil \/ s.applied >= s.hard.commit THEN s
    ELSE [s EXCEPT
            !.seq = @ + 1,
            !.pendingApply = [id |-> s.seq + 1, through |-> s.hard.commit],
            !.fx = Append(@, [id |-> s.seq + 1, kind |-> "Apply",
                              entries |-> Entries(s.log, s.applied + 1, s.hard.commit)])]

\* `emit_apply_if_needed`
EmitApply(s) ==
    IF \/ s.pendingPersist # Nil
       \/ s.pendingApply # Nil
       \/ s.applied >= s.hard.commit THEN s
    ELSE IF ~HasRange(s.log, s.applied + 1, s.hard.commit) THEN Fail(s, "Log")
    ELSE [s EXCEPT
            !.seq = @ + 1,
            !.pendingApply = [id |-> s.seq + 1, through |-> s.hard.commit],
            !.fx = Append(@, [id |-> s.seq + 1, kind |-> "Apply",
                              entries |-> Entries(s.log, s.applied + 1, s.hard.commit)])]

\* `become_follower` leaves the barriers, the proposals, the hard state and the
\* snapshot senders.
BecomeFollower(s) ==
    [s EXCEPT !.role = "Follower", !.preVotes = Nil, !.votes = Nil,
              !.active = {}, !.progress = [p \in {} |-> Nil], !.noop = 0,
              !.pendingReads = << >>, !.readRound = Nil]

SetHard(s, term, vote, commit) ==
    [s EXCEPT !.hard = [term |-> term, vote |-> vote, commit |-> commit]]

\* `begin_term_transition` with PersistContinuation::None, its only use here.
BeginTermTransition(s, term) ==
    LET f == SetHard(BecomeFollower(s), term, Nil, s.hard.commit)
    IN QueuePersist(f, f.hard, << >>, Continue("None"))
-----------------------------------------------------------------------------
(* Replication to followers *)

\* At least one entry when there is one, at most MaxEntriesPerRpc; entry sizes
\* are abstracted, so the byte limit never shortens a batch further.
ReplicationBatch(l, next) ==
    IF next > LastIndex(l) THEN << >>
    ELSE Entries(l, next, Smaller(LastIndex(l), next + MaxEntriesPerRpc - 1))

AppendMessage(n, s, p) ==
    LET prev == s.progress[p].next - 1
    IN [kind |-> "AppendEntries", from |-> n, to |-> p, term |-> s.hard.term,
        prevIndex |-> prev, prevTerm |-> TermAt(s.log, prev),
        commit |-> s.hard.commit, context |-> Nil,
        entries |-> ReplicationBatch(s.log, prev + 1)]

\* `read_snapshot_chunk` for the followers in P, in some order: one read per
\* follower at a time, at the offset of its sender; a follower without a sender
\* gets the snapshot of the log.
ReadSnapshotChunks(s, P) ==
    LET idle == {p \in P : ~\E r \in s.chunkReads : r.to = p}
        order == CHOOSE f \in Bijection(1..Cardinality(idle), idle) : TRUE
        reads == 1..Cardinality(idle)
        sender(p) == IF p \in DOMAIN s.senders THEN s.senders[p]
                     ELSE [snap |-> s.log.snap, offset |-> 0]
        read(k) == [id |-> s.seq + k, kind |-> "ReadSnapshotChunk",
                    snap |-> sender(order[k]).snap, offset |-> sender(order[k]).offset]
    IN IF s.log.snap = NoSnap /\ ~(idle \subseteq DOMAIN s.senders)
       THEN Fail(s, "InvalidSnapshot")
       ELSE [s EXCEPT
               !.seq = @ + Cardinality(idle),
               !.fx = @ \o [k \in reads |-> read(k)],
               !.senders = [p \in DOMAIN @ \cup idle |-> sender(p)],
               !.chunkReads = @ \cup {[id |-> s.seq + k, to |-> order[k]] : k \in reads}]

\* `replicate_to` for every follower in P that can take another request: entries,
\* or the snapshot when the entries it needs have been compacted.
Replicate(n, s, P) ==
    LET ready == {p \in P \cap DOMAIN s.progress : CanSend(s.progress[p])}
        lagging == {p \in ready : s.progress[p].next < FirstIndex(s.log)}
        served == ready \ lagging
        end(p) == LET b == AppendMessage(n, s, p).entries
                  IN s.progress[p].next - 1 + Len(b)
        sent == Send([s EXCEPT !.progress =
                        [p \in DOMAIN s.progress |->
                            CASE p \in served -> Sent(s.progress[p], end(p))
                              [] p \in lagging -> EnterSnapshot(s.progress[p])
                              [] OTHER -> s.progress[p]]],
                     {AppendMessage(n, s, p) : p \in served})
    IN IF \E p \in served : ~HasTerm(s.log, s.progress[p].next - 1)
       THEN Fail(s, "Log")
       ELSE ReadSnapshotChunks(sent, lagging)

ReplicateAll(n, s) == Replicate(n, s, DOMAIN s.progress)

\* Faulty variant: the leader tracks itself as a follower.
InitializeProgressWithSelf(n, s) ==
    [s EXCEPT !.progress = [p \in Node |-> NewProgress(LastIndex(s.log) + 1)]]

InitializeProgress(n, s) ==
    [s EXCEPT !.progress = [p \in Peers(n) |-> NewProgress(LastIndex(s.log) + 1)]]

\* Faulty variant: one member short of a quorum commits.
QuorumMatchShort(s) ==
    LET own == LastIndex(s.log)
        matched == {s.progress[p].match : p \in DOMAIN s.progress} \cup {own}
        support(i) == Cardinality({p \in DOMAIN s.progress : s.progress[p].match >= i})
                          + (IF own >= i THEN 1 ELSE 0)
    IN Greatest({i \in matched : support(i) >= Quorum - 1})

\* `quorum_commit`: the element at n - quorum of the sorted match indexes, the
\* leader's own last index included; it counts only in the current term.
QuorumMatch(s) ==
    LET own == LastIndex(s.log)
        matched == {s.progress[p].match : p \in DOMAIN s.progress} \cup {own}
        support(i) == Cardinality({p \in DOMAIN s.progress : s.progress[p].match >= i})
                          + (IF own >= i THEN 1 ELSE 0)
    IN Greatest({i \in matched : support(i) >= Quorum})

\* Faulty variant: entries of earlier terms are committed by counting.
AdvanceCommitAnyTerm(s) ==
    LET commit == QuorumMatch(s)
        advanced == SetHard([s EXCEPT !.log.committed = commit],
                            s.hard.term, s.hard.vote, commit)
    IN IF s.pendingPersist # Nil \/ commit <= s.log.committed THEN s
       ELSE QueuePersist(advanced, advanced.hard, << >>, Continue("ApplyCommitted"))

AdvanceCommit(s) ==
    LET commit == QuorumMatch(s)
        advanced == SetHard([s EXCEPT !.log.committed = commit],
                            s.hard.term, s.hard.vote, commit)
    IN IF \/ s.pendingPersist # Nil
          \/ commit <= s.log.committed
          \/ TermAt(s.log, commit) # s.hard.term THEN s
       ELSE QueuePersist(advanced, advanced.hard, << >>, Continue("ApplyCommitted"))
-----------------------------------------------------------------------------
(* Linearizable reads *)

NoopCommitted(s) == s.noop # 0 /\ s.noop <= s.hard.commit

ReadReady(ids, index) ==
    {[kind |-> "ReadReady", id |-> i, index |-> index] : i \in ids}

\* `release_read_round`
ReleaseReadRound(s) ==
    LET round == s.readRound
    IN IF round = Nil THEN s
       ELSE IF round.safe = Nil THEN s
       ELSE IF s.applied < round.safe THEN s
       ELSE [s EXCEPT !.readRound = Nil,
                      !.res = @ \cup ReadReady(round.requests, round.safe)]

ReadHeartbeat(n, s, context) ==
    [kind |-> "AppendEntries", from |-> n, to |-> n, term |-> s.hard.term,
     prevIndex |-> LastIndex(s.log), prevTerm |-> TermAt(s.log, LastIndex(s.log)),
     commit |-> s.hard.commit, context |-> context, entries |-> << >>]

NewRound(n, s, id) ==
    [s EXCEPT !.nextRead = @ + 1,
              !.readRound = [context |-> <<s.hard.term, s.nextRead + 1>>,
                             acks |-> LocalVote(n), requests |-> {id}, safe |-> Nil]]

\* In a cluster of one the local vote is a quorum: the round is settled at
\* once, and if it is released so are, one after the other, the queued reads.
StartReadRound(n, s, id) ==
    LET r == NewRound(n, s, id)
        alone == [r EXCEPT !.readRound.safe = s.hard.commit]
        queued == {s.pendingReads[k] : k \in 1..Len(s.pendingReads)}
    IN IF ~HasQuorum(r.readRound.acks)
       THEN Broadcast(n, r, ReadHeartbeat(n, r, r.readRound.context))
       ELSE IF s.applied < s.hard.commit THEN alone
       ELSE [s EXCEPT !.nextRead = @ + 1 + Len(s.pendingReads),
                      !.pendingReads = << >>,
                      !.res = @ \cup ReadReady({id} \cup queued, s.hard.commit)]

\* `start_pending_reads` starts a round for the first read in the queue.
StartPendingReads(n, s) ==
    IF \/ s.role # "Leader"
       \/ ~NoopCommitted(s)
       \/ s.readRound # Nil
       \/ s.pendingReads = << >> THEN s
    ELSE StartReadRound(n, [s EXCEPT !.pendingReads = Tail(@)], Head(s.pendingReads))

RequestCount(s) ==
    Len(s.pendingReads)
        + (IF s.readRound = Nil THEN 0 ELSE Cardinality(s.readRound.requests))

\* Faulty variant: a leader that has committed its no-op asks nobody.
ReadAtOnce(n, s, id) ==
    IF s.role # "Leader" THEN s
    ELSE IF ~NoopCommitted(s) THEN [s EXCEPT !.pendingReads = Append(@, id)]
    ELSE [s EXCEPT !.res = @ \cup ReadReady({id}, s.hard.commit)]

\* A read is dropped without an answer when this node does not lead or its
\* queue is full; it waits for the leader's no-op, joins the round in flight,
\* or starts one.
OnRead(n, s, id) ==
    IF s.role # "Leader" \/ RequestCount(s) >= MaxPendingReads THEN s
    ELSE IF ~NoopCommitted(s) THEN [s EXCEPT !.pendingReads = Append(@, id)]
    ELSE IF s.readRound # Nil THEN [s EXCEPT !.readRound.requests = @ \cup {id}]
    ELSE StartReadRound(n, s, id)

AcknowledgeReadContext(n, s, from, context) ==
    IF s.readRound = Nil THEN s
    ELSE IF s.readRound.context # context THEN s
    ELSE LET acks == Record(s.readRound.acks, from, TRUE)
             safe == IF HasQuorum(acks) /\ s.readRound.safe = Nil
                     THEN s.hard.commit ELSE s.readRound.safe
         IN StartPendingReads(n, ReleaseReadRound(
                [s EXCEPT !.readRound.acks = acks, !.readRound.safe = safe]))
-----------------------------------------------------------------------------
(* Elections *)

VoteMessage(n, s, kind, term) ==
    [kind |-> kind, from |-> n, to |-> n, term |-> term,
     lastIndex |-> s.lastIndex, lastTerm |-> s.lastTerm]

VoteAnswer(n, to, kind, term, granted) ==
    [kind |-> kind, from |-> n, to |-> to, term |-> term, granted |-> granted]

BecomeCandidate(n, s) ==
    LET c == SetHard([s EXCEPT !.role = "Candidate", !.preVotes = Nil,
                               !.votes = LocalVote(n)],
                     s.hard.term + 1, n, s.hard.commit)
    IN QueuePersist(c, c.hard, << >>, Continue("BroadcastVoteRequests"))

\* The election tick: `start_pre_vote`.
StartPreVote(n, s) ==
    LET p == [s EXCEPT !.role = "PreCandidate", !.votes = Nil, !.preVotes = LocalVote(n)]
    IN IF s.role = "Leader" \/ s.pendingPersist # Nil THEN s
       ELSE IF HasQuorum(p.preVotes) THEN BecomeCandidate(n, p)
       ELSE Broadcast(n, p, VoteMessage(n, p, "PreVote", s.hard.term + 1))

\* Faulty variant: the hard state and the no-op go out as two batches.
NoopInTwoBatches(s) ==
    LET e == [index |-> s.lastIndex + 1, term |-> s.hard.term, cmd |-> Noop]
    IN WithLog(s, Extend(s.log, <<e>>), LAMBDA t :
          QueuePersist(QueuePersist([t EXCEPT !.lastIndex = e.index, !.lastTerm = e.term,
                                              !.noop = e.index],
                                    s.hard, << >>, Continue("None")),
                       Nil, <<e>>, Continue("ActivateLeader")))

\* `persist_leader_noop`: the winner's no-op must be durable before it leads.
PersistLeaderNoop(s) ==
    LET e == [index |-> s.lastIndex + 1, term |-> s.hard.term, cmd |-> Noop]
    IN WithLog(s, Extend(s.log, <<e>>), LAMBDA t :
          QueuePersist([t EXCEPT !.lastIndex = e.index, !.lastTerm = e.term,
                                 !.noop = e.index],
                       Nil, <<e>>, Continue("ActivateLeader")))

OnPreVote(n, s, m) ==
    LET granted == /\ m.term > s.hard.term
                   /\ IsLogUpToDate(m.lastIndex, m.lastTerm, s.lastIndex, s.lastTerm)
    IN Send(s, {VoteAnswer(n, m.from, "PreVoteResponse", s.hard.term, granted)})

\* Faulty variant: the vote is answered before it is durable.
VoteBeforeBarrier(n, s, m) ==
    LET higher == m.term > s.hard.term
        granted == /\ IsLogUpToDate(m.lastIndex, m.lastTerm, s.lastIndex, s.lastTerm)
                   /\ higher \/ s.hard.vote \in {Nil, m.from}
        role == IF higher THEN BecomeFollower(s) ELSE s
        voted == SetHard(role, m.term, IF granted THEN m.from ELSE Nil, s.hard.commit)
        answered == Send(voted, {VoteAnswer(n, m.from, "VoteResponse", m.term, granted)})
    IN IF m.term < s.hard.term THEN s
       ELSE QueuePersist(answered, voted.hard, << >>, Continue("None"))

\* Faulty variant: a second candidate of the term gets a vote as well.
VoteAgain(n, s, m) ==
    LET granted == IsLogUpToDate(m.lastIndex, m.lastTerm, s.lastIndex, s.lastTerm)
        role == IF m.term > s.hard.term THEN BecomeFollower(s) ELSE s
        voted == SetHard(role, m.term, IF granted THEN m.from ELSE Nil, s.hard.commit)
    IN IF m.term < s.hard.term THEN s
       ELSE QueuePersist(voted, voted.hard, << >>,
               [kind |-> "SendResponse",
                response |-> VoteAnswer(n, m.from, "VoteResponse", m.term, granted)])

\* Faulty variant: the candidate's log is not compared with the voter's.
VoteForAnyLog(n, s, m) ==
    LET higher == m.term > s.hard.term
        granted == higher \/ s.hard.vote \in {Nil, m.from}
        role == IF higher THEN BecomeFollower(s) ELSE s
        voted == SetHard(role, m.term, IF granted THEN m.from ELSE s.hard.vote, s.hard.commit)
    IN IF m.term < s.hard.term THEN s
       ELSE QueuePersist(voted, voted.hard, << >>,
               [kind |-> "SendResponse",
                response |-> VoteAnswer(n, m.from, "VoteResponse", m.term, granted)])

\* A vote, or the adoption of a higher term, is persisted before it is
\* answered.  A higher term resets the role but not the leader's bookkeeping.
OnVoteRequest(n, s, m) ==
    LET current == IsLogUpToDate(m.lastIndex, m.lastTerm, s.lastIndex, s.lastTerm)
        higher == m.term > s.hard.term
        granted == /\ current
                   /\ higher \/ s.hard.vote \in {Nil, m.from}
        answer(t, g) == VoteAnswer(n, m.from, "VoteResponse", t, g)
        role == IF higher
                THEN [s EXCEPT !.role = "Follower", !.preVotes = Nil, !.votes = Nil]
                ELSE s
        voted == SetHard(role, m.term, IF granted THEN m.from ELSE Nil, s.hard.commit)
    IN IF m.term < s.hard.term THEN Send(s, {answer(s.hard.term, FALSE)})
       ELSE IF higher \/ (granted /\ s.hard.vote = Nil)
       THEN QueuePersist(voted, voted.hard, << >>,
                         [kind |-> "SendResponse", response |-> answer(m.term, granted)])
       ELSE Send(s, {answer(m.term, granted)})

OnPreVoteResponse(n, s, m) ==
    LET t == Record(s.preVotes, m.from, m.granted)
    IN IF m.term > s.hard.term THEN BeginTermTransition(s, m.term)
       ELSE IF s.role # "PreCandidate" \/ s.preVotes = Nil THEN s
       ELSE IF HasQuorum(t) THEN BecomeCandidate(n, [s EXCEPT !.preVotes = t])
       ELSE IF CannotWin(t) THEN [s EXCEPT !.role = "Follower", !.preVotes = Nil]
       ELSE [s EXCEPT !.preVotes = t]

\* The tracker survives the quorum until the no-op is durable.
OnVoteResponse(n, s, m) ==
    LET t == Record(s.votes, m.from, m.granted)
    IN IF m.term > s.hard.term THEN BeginTermTransition(s, m.term)
       ELSE IF m.term # s.hard.term \/ s.role # "Candidate" \/ s.votes = Nil THEN s
       ELSE IF HasQuorum(t) THEN PersistLeaderNoop([s EXCEPT !.votes = t])
       ELSE IF CannotWin(t) THEN [s EXCEPT !.role = "Follower", !.votes = Nil]
       ELSE [s EXCEPT !.votes = t]

\* The heartbeat tick: CheckQuorum, then replication to every follower.
OnHeartbeatTick(n, s) ==
    IF s.role # "Leader" \/ s.pendingPersist # Nil THEN s
    ELSE IF Cardinality(s.active) < Quorum THEN BecomeFollower(s)
    ELSE ReplicateAll(n, [s EXCEPT !.active = {n}])
-----------------------------------------------------------------------------
(* AppendEntries *)

\* `validate_prefix` on a log that does not confirm the leader's previous
\* entry; term 0 stands for a hint without a term.
ConflictHint(l, prev) ==
    IF HasTerm(l, prev)
    THEN LET first == FirstIndexOfTerm(l, TermAt(l, prev))
         IN [index |-> IF first # 0 THEN first ELSE prev, term |-> TermAt(l, prev)]
    ELSE IF Compacted(l, prev) THEN [index |-> FirstIndex(l), term |-> 0]
    ELSE [index |-> LastIndex(l) + 1, term |-> 0]

\* Faulty variant: the leader goes back to the follower's hint.
RejectedNextHint(l, hint) == hint.index

\* `rejected_next`: past the leader's last entry of the conflicting term, else
\* the follower's own suggestion.
RejectedNext(l, hint) ==
    IF hint.term # 0 /\ LastIndexOfTerm(l, hint.term) # 0
    THEN LastIndexOfTerm(l, hint.term) + 1
    ELSE hint.index

AppendAnswer(n, m, term, success, match, hint) ==
    [kind |-> "AppendEntriesResponse", from |-> n, to |-> m.from, term |-> term,
     success |-> success, match |-> match, hint |-> hint, context |-> m.context]

\* The second half of `on_append_entries`: adopt term and commit index, and
\* answer once whatever changed is durable.
AnswerAppend(n, s, m, success, appended) ==
    LET termChanged == m.term > s.hard.term
        hardChanged == termChanged \/ s.hard.commit # s.log.committed
        h == IF hardChanged
             THEN SetHard(s, m.term, IF termChanged THEN Nil ELSE s.hard.vote,
                          s.log.committed)
             ELSE s
        answer == AppendAnswer(n, m, h.hard.term, success,
                               IF success THEN LastIndex(s.log) ELSE m.prevIndex,
                               IF success THEN Nil ELSE ConflictHint(s.log, m.prevIndex))
    IN IF hardChanged \/ appended # << >>
       THEN QueuePersist(h, IF hardChanged THEN h.hard ELSE Nil, appended,
                         [kind |-> "SendResponse", response |-> answer])
       ELSE Send(h, {answer})

\* Faulty variant: the previous entry's term is not compared.
AppendAfterAnyTerm(n, s, m) ==
    LET f == BecomeFollower(s)
        cached(t) == [t EXCEPT !.lastIndex = LastIndex(t.log),
                               !.lastTerm = TermAt(t.log, LastIndex(t.log))]
    IN IF m.term < s.hard.term
       THEN Send(s, {AppendAnswer(n, m, s.hard.term, FALSE, m.prevIndex, Nil)})
       ELSE IF ~HasTerm(s.log, m.prevIndex) THEN AnswerAppend(n, f, m, FALSE, << >>)
       ELSE WithLog(f, MergeFromLeader(f.log, m.entries), LAMBDA t :
               WithLog(t, CommitTo(t.log, Smaller(m.commit, LastIndex(t.log))), LAMBDA u :
                  AnswerAppend(n, cached(u), m, TRUE, NewEntries(f.log, m.entries))))

\* Faulty variant: the cached last index and term are not refreshed.
AppendWithoutRefresh(n, s, m) ==
    LET f == BecomeFollower(s)
        matches == HasTerm(s.log, m.prevIndex) /\ TermAt(s.log, m.prevIndex) = m.prevTerm
    IN IF m.term < s.hard.term
       THEN Send(s, {AppendAnswer(n, m, s.hard.term, FALSE, m.prevIndex, Nil)})
       ELSE IF ~matches THEN AnswerAppend(n, f, m, FALSE, << >>)
       ELSE WithLog(f, MergeFromLeader(f.log, m.entries), LAMBDA t :
               WithLog(t, CommitTo(t.log, Smaller(m.commit, LastIndex(t.log))), LAMBDA u :
                  AnswerAppend(n, u, m, TRUE, NewEntries(f.log, m.entries))))

OnAppendEntries(n, s, m) ==
    LET f == BecomeFollower(s)
        matches == HasTerm(s.log, m.prevIndex) /\ TermAt(s.log, m.prevIndex) = m.prevTerm
        cached(t) == [t EXCEPT !.lastIndex = LastIndex(t.log),
                               !.lastTerm = TermAt(t.log, LastIndex(t.log))]
    IN IF m.term < s.hard.term
       THEN Send(s, {AppendAnswer(n, m, s.hard.term, FALSE, m.prevIndex, Nil)})
       ELSE IF ~matches THEN AnswerAppend(n, f, m, FALSE, << >>)
       ELSE WithLog(f, MergeFromLeader(f.log, m.entries), LAMBDA t :
               WithLog(t, CommitTo(t.log, Smaller(m.commit, LastIndex(t.log))), LAMBDA u :
                  AnswerAppend(n, cached(u), m, TRUE, NewEntries(f.log, m.entries))))

OnAppendEntriesResponse(n, s, m) ==
    LET p == s.progress[m.from]
        match == Smaller(m.match, LastIndex(s.log))
        hint == IF m.hint # Nil THEN m.hint ELSE [index |-> m.match, term |-> 0]
        changed == IF m.success THEN ~StaleAck(p, match) ELSE ~StaleReject(p, m.match)
        tracked == [s EXCEPT !.progress[m.from] =
                       IF m.success THEN Acknowledged(p, match)
                       ELSE Rejected(p, m.match, RejectedNext(s.log, hint))]
        read == IF m.success /\ m.context # Nil
                THEN AcknowledgeReadContext(n, tracked, m.from, m.context) ELSE tracked
    IN IF m.term > s.hard.term THEN BeginTermTransition(s, m.term)
       ELSE IF \/ s.role # "Leader"
               \/ m.term # s.hard.term
               \/ m.from \notin DOMAIN s.progress THEN s
       ELSE IF changed THEN Then(Replicate(n, read, {m.from}), AdvanceCommit)
       ELSE read
-----------------------------------------------------------------------------
(* Proposals *)

ProposalResult(id, result, index) ==
    [kind |-> "ProposalResult", id |-> id, result |-> result, index |-> index]

OnPropose(s, id) ==
    LET e == [index |-> s.lastIndex + 1, term |-> s.hard.term, cmd |-> id]
        refuse(result) == [s EXCEPT !.res = @ \cup {ProposalResult(id, result, 0)}]
    IN IF s.role # "Leader" THEN refuse("LeadershipLost")
       ELSE IF s.pendingPersist # Nil \/ id \in Oversized THEN refuse("Rejected")
       ELSE WithLog(s, Extend(s.log, <<e>>), LAMBDA t :
               QueuePersist([t EXCEPT !.lastIndex = e.index, !.lastTerm = e.term,
                                      !.proposals = @ \cup {[index |-> e.index, id |-> id]}],
                            Nil, <<e>>, Continue("ReplicateProposal")))

\* Faulty variant: every waiting proposal is answered by the first apply.
FinishAllProposals(s, through) ==
    [s EXCEPT !.proposals = {},
              !.res = @ \cup {ProposalResult(p.id, "Applied", p.index) : p \in s.proposals}]

\* `finish_apply`
FinishApply(s, through) ==
    LET done == {p \in s.proposals : p.index <= through}
    IN [s EXCEPT !.proposals = @ \ done,
                 !.res = @ \cup {ProposalResult(p.id, "Applied", p.index) : p \in done}]

\* Faulty variant: a deposed leader keeps waiting for its proposals.
KeepProposals(s) == s

FailUncommittedProposals(s) ==
    LET lost == {p \in s.proposals : p.index > s.hard.commit}
    IN [s EXCEPT !.proposals = @ \ lost,
                 !.res = @ \cup {ProposalResult(p.id, "LeadershipLost", 0) : p \in lost}]
-----------------------------------------------------------------------------
(* Snapshots built here: Build, Persist, Compact *)

RequestLocalSnapshot(s) ==
    IF s.local # Nil \/ s.applied <= s.log.snap.index THEN s
    ELSE [Emit(s, [id |-> NextId(s), kind |-> "BuildSnapshot", through |-> s.applied])
            EXCEPT !.local = [phase |-> "Build", id |-> NextId(s), through |-> s.applied]]

MaybeRequestLocalSnapshot(s) ==
    IF s.applied >= s.log.snap.index + SnapshotAfter THEN RequestLocalSnapshot(s) ELSE s

\* Faulty variant: the log is compacted before the snapshot is durable.
CompactAtOnce(s, snap) ==
    [Emit(s, [id |-> NextId(s), kind |-> "CompactLog", through |-> snap.index]) EXCEPT
       !.local = [phase |-> "Compact", id |-> NextId(s), snap |-> snap]]

\* The host has built `snap`; a snapshot that does not match the log at the
\* requested index leaves the build active.
SnapshotBuilt(s, snap) ==
    LET through == s.local.through
    IN IF snap.index # through THEN Fail(s, "InvalidSnapshot")
       ELSE IF ~HasTerm(s.log, through) THEN Fail(s, "Log")
       ELSE IF snap.term # TermAt(s.log, through) THEN Fail(s, "InvalidSnapshot")
       ELSE [Emit(s, PersistEffect(s, Nil, << >>, snap)) EXCEPT
               !.local = [phase |-> "PersistLocal", id |-> NextId(s), snap |-> snap]]

LocalSnapshotPersisted(s) ==
    [Emit(s, [id |-> NextId(s), kind |-> "CompactLog", through |-> s.local.snap.index])
       EXCEPT !.local = [@ EXCEPT !.phase = "Compact", !.id = NextId(s)]]

LogCompacted(s) ==
    WithLog([s EXCEPT !.local = Nil], Compact(s.log, s.local.snap), LAMBDA t : t)
-----------------------------------------------------------------------------
(* Snapshots received: Store each chunk, Persist, Install *)

InstallAnswer(n, to, term, success) ==
    [kind |-> "InstallSnapshotResponse", from |-> n, to |-> to, term |-> term,
     success |-> success]

\* `SnapshotReceiver`: the chunks before `next` have been accepted.
NewReceiver(snap) == [snap |-> snap, next |-> 0, final |-> FALSE]
RepeatsLast(r, m) == m.offset < r.next /\ m.offset = r.next - 1
Accepts(r, m) == m.offset = r.next /\ ~r.final
Extended(r, m) == [r EXCEPT !.next = @ + m.size, !.final = m.done]

StoreChunk(s, r, m) ==
    [Emit(s, [id |-> NextId(s), kind |-> "StoreSnapshotChunk", snap |-> m.snap,
              offset |-> m.offset]) EXCEPT
       !.incoming = r,
       !.store = [id |-> NextId(s), done |-> m.done, from |-> m.from, term |-> m.term]]

\* `on_install_snapshot_chunk`; a repeated last chunk is stored once more.
OnInstallSnapshot(n, s, m) ==
    LET fresh == IF s.incoming = Nil THEN TRUE ELSE s.incoming.snap # m.snap
        r == IF fresh THEN NewReceiver(m.snap) ELSE s.incoming
    IN IF m.term < s.hard.term
       THEN Send(s, {InstallAnswer(n, m.from, s.hard.term, FALSE)})
       ELSE IF m.snap.index <= s.log.snap.index THEN s
       ELSE IF fresh /\ (m.offset # 0 \/ s.store # Nil) THEN Fail(s, "InvalidSnapshot")
       ELSE IF RepeatsLast(r, m) THEN StoreChunk(s, r, m)
       ELSE IF m.offset < r.next THEN s
       ELSE IF ~Accepts(r, m) THEN Fail([s EXCEPT !.incoming = r], "InvalidSnapshot")
       ELSE StoreChunk(s, Extended(r, m), m)

\* Faulty variant: the snapshot is persisted without its hard state.
PersistSnapshotOnly(s) ==
    LET r == s.incoming
        done == [s EXCEPT !.store = Nil]
    IN IF ~s.store.done THEN done
       ELSE [Emit(done, PersistEffect(s, Nil, << >>, r.snap)) EXCEPT
               !.installing = [phase |-> "PersistIncoming", id |-> NextId(s),
                               snap |-> r.snap, from |-> s.store.from,
                               term |-> s.store.term]]

\* Once the last chunk is stored the snapshot is persisted, with the sender's
\* term, no vote, and a commit index that reaches the boundary.
ChunkStored(s) ==
    LET r == s.incoming
        done == [s EXCEPT !.store = Nil]
        hard == [term |-> s.store.term, vote |-> Nil,
                 commit |-> Larger(s.hard.commit, r.snap.index)]
    IN IF r = Nil THEN Fail(done, "Panic")
       ELSE IF ~s.store.done THEN done
       ELSE IF ~(r.final /\ r.next = SnapshotChunks) THEN Fail(s, "InvalidSnapshot")
       ELSE [Emit(done, PersistEffect(s, hard, << >>, r.snap)) EXCEPT
               !.installing = [phase |-> "PersistIncoming", id |-> NextId(s),
                               snap |-> r.snap, from |-> s.store.from,
                               term |-> s.store.term]]

IncomingSnapshotPersisted(s) ==
    [Emit(s, [id |-> NextId(s), kind |-> "InstallSnapshot", snap |-> s.installing.snap])
       EXCEPT !.installing = [@ EXCEPT !.phase = "Install", !.id = NextId(s)]]

\* Faulty variant: the applied index stays where it was.
InstallWithoutApplied(n, s) ==
    LET i == s.installing
    IN WithLog([s EXCEPT !.installing = Nil], InstallSnapshot(s.log, i.snap), LAMBDA t :
          [t EXCEPT !.hard.commit = Larger(@, i.snap.index),
                    !.lastIndex = LastIndex(t.log),
                    !.lastTerm = TermAt(t.log, LastIndex(t.log)),
                    !.incoming = Nil])

\* The state machine holds the snapshot: log, applied index and hard state follow.
SnapshotInstalled(n, s) ==
    LET i == s.installing
        term == Larger(s.hard.term, i.term)
    IN WithLog([s EXCEPT !.installing = Nil], InstallSnapshot(s.log, i.snap), LAMBDA t :
          Send([t EXCEPT
                  !.applied = Larger(@, i.snap.index),
                  !.hard = [term |-> term, vote |-> Nil,
                            commit |-> Larger(@.commit, i.snap.index)],
                  !.lastIndex = LastIndex(t.log),
                  !.lastTerm = TermAt(t.log, LastIndex(t.log)),
                  !.incoming = Nil],
               {InstallAnswer(n, i.from, term, TRUE)}))
-----------------------------------------------------------------------------
(* Snapshots sent *)

\* `on_outgoing_snapshot_completion`: the chunk that was read is sent in the
\* current term, and the next one is asked for.
ChunkRead(n, s, r, chunk) ==
    LET read == [s EXCEPT !.chunkReads = @ \ {r}]
        sender == s.senders[r.to]
        m == [kind |-> "InstallSnapshot", from |-> n, to |-> r.to, term |-> s.hard.term,
              snap |-> sender.snap, offset |-> sender.offset, size |-> chunk.size,
              done |-> chunk.done]
        sent == Send([read EXCEPT !.senders[r.to].offset = @ + chunk.size], {m})
    IN IF r.to \notin DOMAIN s.senders THEN Fail(read, "Panic")
       ELSE IF chunk.done THEN sent ELSE ReadSnapshotChunks(sent, {r.to})

\* Faulty variant: the follower's progress is left in Snapshot.
FreeSenderOnly(n, s, m) ==
    IF m.term > s.hard.term THEN BeginTermTransition(s, m.term)
    ELSE [s EXCEPT !.senders = [p \in DOMAIN @ \ {m.from} |-> @[p]]]

OnInstallSnapshotResponse(n, s, m) ==
    LET next == s.senders[m.from].snap.index + 1
        freed == [s EXCEPT
                    !.senders = [p \in DOMAIN @ \ {m.from} |-> @[p]],
                    !.progress = [p \in DOMAIN @ |->
                                     IF p = m.from THEN RestoreProbe(@[p], next) ELSE @[p]]]
    IN IF m.term > s.hard.term THEN BeginTermTransition(s, m.term)
       ELSE IF s.role # "Leader" \/ m.term # s.hard.term \/ ~m.success THEN s
       ELSE IF m.from \notin DOMAIN s.senders THEN s
       ELSE Replicate(n, freed, {m.from})
-----------------------------------------------------------------------------
(* Completions *)

\* The apply barrier falls.
ApplyDone(n, s) ==
    LET a == FinishApply([s EXCEPT !.applied = s.pendingApply.through,
                                   !.pendingApply = Nil], s.pendingApply.through)
    IN Then(Then(StartPendingReads(n, ReleaseReadRound(a)), EmitApply),
            MaybeRequestLocalSnapshot)

ActivateLeader(n, s) ==
    InitializeProgress(n, [s EXCEPT !.role = "Leader", !.votes = Nil, !.active = {n}])

\* The protocol step that waited for the barrier.  SendVoteResponse and
\* SendAppendEntriesResponse are one kind: only the second tries to apply, but
\* `step` tries again right after either.
RunContinuation(n, s, cont) ==
    CASE cont.kind = "BroadcastVoteRequests" ->
            IF s.votes # Nil /\ HasQuorum(s.votes) THEN PersistLeaderNoop(s)
            ELSE Broadcast(n, s, VoteMessage(n, s, "RequestVote", s.hard.term))
      [] cont.kind = "SendResponse" -> EmitApply(Send(s, {cont.response}))
      [] cont.kind = "ReplicateProposal" ->
            Then(Then(ReplicateAll(n, s), AdvanceCommit), LAMBDA t : StartPendingReads(n, t))
      [] cont.kind = "ApplyCommitted" ->
            Then(EmitApply(s), LAMBDA t : StartPendingReads(n, t))
      [] cont.kind = "ActivateLeader" ->
            Then(ReplicateAll(n, ActivateLeader(n, s)), AdvanceCommit)
      [] cont.kind = "None" -> s

PersistDone(n, s) ==
    LET done == s.pendingPersist
        s1 == [s EXCEPT !.pendingPersist = Nil]
    IN IF done.stable = 0 THEN RunContinuation(n, s1, done.cont)
       ELSE WithLog(s1, MarkStable(s1.log, done.stable), LAMBDA t :
               RunContinuation(n, t, done.cont))

\* What the core was waiting for when effect `id` is reported, in the order in
\* which `on_effect_completed` asks; while an apply is pending, no barrier after
\* it is looked at.
Awaits(s, id) ==
    LET for(barrier) == IF barrier = Nil THEN FALSE ELSE barrier.id = id
    IN IF \E r \in s.chunkReads : r.id = id THEN "Read"
       ELSE IF for(s.store) THEN "Store"
       ELSE IF for(s.installing) THEN s.installing.phase
       ELSE IF for(s.local) THEN s.local.phase
       ELSE IF for(s.pendingApply) THEN "Apply"
       ELSE IF s.pendingApply = Nil /\ for(s.pendingPersist) THEN "Persist"
       ELSE "Nothing"

\* `outcome` is the snapshot the host has built or the chunk it has read; the
\* other outcomes carry nothing the core does not know.
OnEffectCompleted(n, s, id, outcome) ==
    LET what == Awaits(s, id)
    IN CASE what = "Read" -> ChunkRead(n, s, CHOOSE r \in s.chunkReads : r.id = id, outcome)
         [] what = "Store" -> ChunkStored(s)
         [] what = "PersistIncoming" -> IncomingSnapshotPersisted(s)
         [] what = "Install" -> SnapshotInstalled(n, s)
         [] what = "Build" -> SnapshotBuilt(s, outcome)
         [] what = "PersistLocal" -> LocalSnapshotPersisted(s)
         [] what = "Compact" -> LogCompacted(s)
         [] what = "Apply" -> ApplyDone(n, s)
         [] what = "Persist" -> PersistDone(n, s)
         [] what = "Nothing" -> Fail(s, "UnknownEffect")

\* EffectOutcome::Failed stops the core for good, whatever it was waiting for:
\* the state machine failed, or the storage did.
OnEffectFailed(s, id) ==
    LET what == Awaits(s, id)
    IN IF what = "Nothing" THEN Fail(s, "UnknownEffect")
       ELSE IF what \in {"Apply", "Install", "Build"} THEN Fail(s, "StateMachine")
       ELSE Fail(s, "Storage")
-----------------------------------------------------------------------------
(* One step *)

\* invariant.rs
ValidateInvariants(s) ==
    /\ s.applied <= s.hard.commit
    /\ s.hard.commit <= LastIndex(s.log)
    /\ s.log.committed = s.hard.commit
    /\ FirstIndex(s.log) <= s.hard.commit + 1
    /\ s.lastIndex = LastIndex(s.log)
    /\ s.lastTerm = TermAt(s.log, LastIndex(s.log))
    /\ Validate(s.log)

Finish(before, s) ==
    LET r == IF before.role = "Leader" /\ s.role # "Leader"
             THEN FailUncommittedProposals(s) ELSE s
    IN IF s.err # "Ok" THEN Abort(s)
       ELSE IF ValidateInvariants(r) THEN r ELSE Abort(Fail(r, "Invariant"))

\* `step` once the event's handler has taken the core from `before` to s.
Step(before, s) == Finish(before, Then(s, EmitApply))

\* Every message received by a leader counts its sender as active, before the
\* message's handler runs.
MarkActive(s, from) ==
    IF s.role = "Leader" THEN [s EXCEPT !.active = @ \cup {from}] ELSE s
=============================================================================
