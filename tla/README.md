# TLA+ specifications of ruft

`ruft` is a Raft core without I/O. A *host* feeds it events (ticks, messages,
client requests, completions) through `RaftCore::step`, and carries out the
effects the step returns (send, persist, apply, snapshot work). This directory
holds a model of that core, of the host it expects and of clusters of them,
with TLC runs on small instances and TLAPS proofs for all sizes.

Paths below are relative to `src/`, so `src/core.rs` is `src/src/core.rs` from
the root.

## 1. The system

| Part | Code | State | Operations | What has to be right |
|---|---|---|---|---|
| Completion tracking | `src/core.rs` 620-680 | frontier, sparse set, bounded history, generation | validate, record, evict, new generation | an effect is consumed once, whatever the order, however short the history |
| Elections | `src/core.rs` 1374-1680, `raft/election.rs`, `progress/quorum.rs` | term, vote, role, vote rounds | pre-vote, request vote, answers, no-op, CheckQuorum, step-down | one leader per term, votes durable before they count |
| Log | `log/mod.rs`, `log/unstable.rs` | snapshot, entries, committed, unstable window | append, truncate, merge, commit, stable, install, compact | well formed; committed entries stay; the window covers what is not durable |
| Replication, commit | `src/core.rs`, `raft/replication.rs`, `raft/commit.rs`, `progress/` | match, next, mode, inflight window | send, accept, reject with conflict hint, quorum commit | logs match; committed entries agree; match_index is true |
| Barriers | `src/core.rs` 1684-1745, 2094-2240 | pending persist and its continuation, pending apply | persist, apply, completion, failure | nothing depends on what is not durable; entries applied once, in order |
| Proposals | `src/core.rs` | proposals by index | propose, answer on apply, fail on step-down | the answer is true |
| Reads | `src/core.rs` 790-960, `raft/read_index.rs` | queue, round, context | read, acknowledge, release | linearizable |
| Local snapshots | `src/core.rs` 683-735, 1964-2092 | one build, its phase | request, build, persist, compact | nothing is deleted before its replacement is durable |
| Incoming snapshots | `src/core.rs` 1022-1111, 1786-1962, `raft/snapshot.rs` | receiver, chunk being stored, install phase | chunk, store, persist, install | one state machine state, one log, one vote |
| Outgoing snapshots | `src/core.rs` 985-1020, 2363-2459 | a sender per follower, chunk reads | read, send, response | the follower comes back to replication |
| Recovery, configuration | `state.rs`, `config.rs` | none | validation | a valid state recovers, an invalid one is refused |

The hard parts are the interleaving of nodes, barriers that split an operation
into two steps with a crash possible between them, completions and messages out
of order or repeated, and caches (`last_log_index`, the unstable window, vote
rounds, read rounds) that several handlers maintain. `PROJECT.json` lists each
hazard at its line.

## 2. Modules

- `CompletionTracker`: the deduplication of completions. `Emit` takes an id from
  `next_effect_id`, with or without overwriting a barrier; `Consume` is a report
  that passes `validate_completion`, meets its barrier and is recorded; `Recover`
  is a new generation. The host reports any effect it was ever handed, those of
  an earlier generation included. `Verdict` is the answer to any report; refused
  ones change nothing.
- `VoteLedger`: the abstract specification of elections. Nodes cast durable
  votes, and a node with a quorum may lead.
- `RaftLog`: `log/mod.rs` and `log/unstable.rs` as operators on a record
  `[snap, entries, committed, unstable]`. `LogStore` is the state machine that
  calls them in any order. Its history variable `unconfirmed` holds the indexes of
  the entries put into the log and not confirmed since, computed from the entries,
  so that the window can be compared with it.
- `Progress`: a follower's replication state as the leader sees it: Probe,
  Replicate and Snapshot, and the window of requests in flight.
- `CoreState`, `RaftCore`: one core as a record, and every handler as an operator
  from state to state. `CoreState` has what all handlers use (quorums, effects,
  errors, `queue_persist`, recovery), `RaftCore` the handlers. A handler collects messages (`out`), effects (`fx`), client results
  (`res`) and an error (`err`), as the Rust code collects `effects`. `Step`
  ends every handler as `step` does: the trailing `emit_apply_if_needed`, the
  proposals lost with leadership, `validate`, and fail-stop. (A stopped core
  refuses events: `Ready` and the completions ask for `~stopped`.)
- `Host`, `Cluster`: nodes, their hosts, disks, state machines and a network.
  `Host` has the variables and what happens outside a core: effects done, crashes,
  recoveries, losses. `Cluster` adds the events and completions, and the properties
  of logs, commits and clients; `Elections` states those of elections. What may
  happen is bounded by a *plan* chosen in `Init` together with the disks: who
  campaigns, which links carry requests, what clients ask, how many heartbeats,
  failures, losses and duplicates there are. `Scenario` is the set of pairs a run
  starts from, so one run covers several histories.
- `FairCluster`: `Cluster` that keeps running, for the liveness properties.
- `CoreVotes`, `ClusterVotes`: the inductive invariant of elections, of one core and
  of the cluster.
- `MC*`: instances. `*_proofs`: theorems.

`RaftCore` has all handlers because the Rust type does: they share one struct and
call one another within a step.

Each definition used only to show that a property can fail is marked as a faulty
variant where it is defined: it changes one mapped definition the way a
plausible mistake would. No specification uses them.

### Data abstraction

Commands are model values, an oversized one is a member of `Oversized`; entry
bytes are not counted. Requests carry entries as sequences of
`[index, term, cmd]`. `SendVoteResponse` and `SendAppendEntriesResponse`, two
continuations that each send a prepared answer, are one. A snapshot is `[index, term, by, body]`:
its boundary, its builder in place of its id, and the entries the state machine
had executed. It travels in `SnapshotChunks` chunks and an offset is the number
of a chunk; the digest of a complete body always matches. `snapshot_index` always
equals the index of the log's snapshot and is not kept apart. A step of `Cluster`
numbers its effects from the highest id in use: only distinctness matters there,
and `CompletionTracker` treats the numbers themselves.

### The host (external)

The host is not in the crate. `src/event.rs` asks that it "complete all returned
effects before delivering the next event"; that is `SerialHost = TRUE`, as
`examples/minimal_host.rs` does. `src/effect.rs` lets it "reorder or parallelize
effects across different calls"; `SerialHost = FALSE` lets events arrive with
effects outstanding. A crash happens with any prefix of the outstanding effects
done. The host loads its snapshot and the entries after it, `from_parts` must
accept them (`Recoverable`), and the state machine starts from the snapshot and
is replayed. An error of a step drops its effects, as `?` does; a failed `expect`
is a fault of its own (`Panic`).

Every run has a serial host. With `SerialHost = FALSE` in `MCElection.cfg`,
`GrantsAreDurable` and `OnePersist` fail: a repeated
RequestVote is granted from memory while its vote is being persisted
(`src/core.rs` 1433), and `queue_persist` overwrites the barrier (line 1692)
although line 284 says "At most one persist can be outstanding". Which of the two
disciplines the crate means is not settled by its documentation; everything
below holds for the serial one.

## 3. Runs

| Run | Instance | Shows |
|---|---|---|
| `completion` | sequences in any order, two generations, late reports, short history | deduplication is exact, and a recovered core completes nothing on a report of its predecessor's effects |
| `ledger` | three nodes | one leader per term |
| `log` | 5 indices, 3 terms | structure, committed entries, merge against a reference definition, the window against the unconfirmed entries |
| `election` | n1 and n2 contend in terms 1 and 2 for n3; any two of a crash or failure of n3, a duplicate and a leader's AppendEntries, and all three where n1 and n2 do not reach each other | election safety, durable grants, refinement of `VoteLedger` |
| `replication` | two leaders over diverged disks, one entry per request, two in flight; a node that was away takes a snapshot of two chunks, with a failure anywhere, a duplicate, or a second leader with a snapshot of its own | log matching, agreement, leader completeness, true `match_index`, durability, exactly-once apply across installs, `validate` never fires, every disk a crash leaves is accepted by `from_parts` |
| `clients` | an ordinary and an oversized proposal, two reads with rounds of one read, snapshots every three entries; a failure anywhere, a heartbeat and a loss, a duplicate, or a second leader that overwrites an entry | durability of commits, exactly-once apply, no persist reported over a pending apply, true answers, linearizable reads |
| `liveness` | one leader, endless heartbeats; new entries, a read, diverged logs, or a node that needs a snapshot | logs and state machines converge, requests are answered |
| `reads_joined` | rounds of two reads | violation: finding 1 |
| `snapshot_vote` | two candidates need n3, which lacks compacted entries | violation: finding 2 |
| `snapshot_back` | one duplicate, a snapshot requested on the leader | violation: finding 3 |
| `recovery` | a follower with a stale suffix receives a snapshot | violation: finding 4 |
| `lost_probe` | one loss | violation: finding 5 |

### Findings

All under a serial host that keeps to the documented contract.

1. `on_read` lets a read join a round in flight. The acknowledgements that
   complete the round may have been sent before the read was asked, and before
   another leader was elected and committed. The read is then answered at a
   stale index. With `max_pending_reads = 1` no read ever joins, and run
   `clients` finds no violation.
2. A received snapshot resets the vote, on disk (`src/core.rs` 1843) and in memory
   (1927), whatever the term. n3 votes for n1 in term 2, installs n1's snapshot,
   votes for n2 in term 2, and both lead it.
3. Only `snapshot_index` decides whether an incoming snapshot is old (1065). A
   rejection delivered twice makes the leader send a snapshot through entry 2 to
   a follower that has meanwhile applied entry 3. The host replaces its state
   machine by the older state, `applied_index` stays 3, and entry 3 is never
   applied again.
4. The batch that persists a received snapshot leaves a conflicting log on disk
   (1848). A crash before the next append finds a snapshot of term 2 followed by
   entries of term 1, which `from_parts` refuses.
5. A request to a follower in Probe that is lost is never repeated: `can_send` is
   false until it is answered, and the heartbeat sends only through `can_send`.

Met while modelling, each without a run of its own:

- The heartbeat of a read round is sent once (2499). If it is lost, or arrives
  before an append it follows and is rejected, the round stays open and every
  later read waits behind it until the leader changes.
- Reads are dropped without an answer when the queue is full (799), at a node that
  does not lead, and when a leader steps down (1674).
- CheckQuorum looks at one tick (1520): two ticks in a row depose a leader, and
  `check_quorum_ticks` is not read.
- A follower that already has the snapshot does not answer (1065), and a chunk out
  of order is an error without an answer; the leader then keeps the follower in
  Snapshot.
- A sender survives its leader's step-down and is used again in a later term, also
  for a snapshot that the log has since replaced.
- Installing a snapshot never steps down (1918-1930): a candidate or leader of an
  older term keeps its role under the snapshot's term, and a candidate its tally.
- `SnapshotReceiver::accept` documents `Ok(false)` for a repeated last chunk and
  returns `Ok(true)`, so the chunk is stored again.
- `install_snapshot` may leave the unstable window beyond the end of the log
  (`log/mod.rs` 436). It needs an unstable suffix, which a serial host does not
  leave.
- With an asynchronous host, the completion of a persist is refused while an apply
  is pending, an install may overtake an apply or a local build, and the two
  `expect`s on sender and receiver can fail.

### Bounds, and why they are enough

TLC explores everything within these bounds and nothing beyond them.

- Three nodes: the smallest cluster in which two quorums differ.
- `plan.campaign` lists who may time out in which order; `MaxTerm` bounds the
  terms of the refinement mapping. Two campaigns give a deposed leader and a
  successor. The disks `RivalSuffixes`, `SharedTerm`, `Returning`, `Lagging` and
  `StaleSuffix` are what earlier terms leave, so that the third and fourth leader
  of a history are reached.
- `plan.link` lists the pairs along which requests arrive. A missing pair is a
  partition that lasts; `plan.away` is a node that no vote request reaches. Each
  scenario has the links it needs; behaviours that need others are not explored.
- `plan.append` bounds deliveries of AppendEntries: leader and follower otherwise
  exchange empty ones without end. Heartbeats, failures, duplicates and losses
  are one or zero. A message may stay undelivered in any run of `Spec`, so a loss
  only adds what depends on its absence.
- A snapshot has two chunks in `replication` (a first, a last, and an order) and
  one elsewhere. `SnapshotAfter` is 3 in `clients`, 2 in `liveness` and
  `snapshot_vote`, and out of reach where the host asks for the snapshot.
- `Eager = TRUE` lets a node finish its effects before another node acts. Under
  a serial host, a node with outstanding effects takes no event, and nodes
  interact only through messages, which may be delayed at will; a crash may
  still come between any two effects.
- `Effective`: an event that changes nothing and sends nothing is not a step. In
  the liveness runs every delivery is one, so that fairness of a link is not
  satisfied by messages that are never taken.
- `ReadSymmetry`: the two reads are interchangeable; no liveness is checked with
  it.

`CHECK_DEADLOCK FALSE` in every run: a system whose ticks, requests and terms
are bounded comes to rest, and under `FairSpec` a deposed leader whose campaign
is spent leaves nothing to do.

### Fairness

`FairSpec` assumes weak fairness of three classes of steps and nothing else: a
host that has outstanding effects completes one (`src/effect.rs`: "Each effect
must be executed by the host and its completion reported back"); a leader's
heartbeat timer and the election timer of the next candidate fire; and a lane
with messages delivers one. Which message a lane delivers is left open, so
messages of a lane overtake each other at will. A lane is a sender, a receiver,
and whether the message carries a read context: without the last, a lane could
serve replication for ever and never the single heartbeat of a read. Losses,
failures and client requests are not fair. `served` names the class of the last
step, which lets TLC evaluate fairness of a class without evaluating its actions
again; each class has the guard under which such a step exists.

Timers may fire at any time, so the leader may tick twice before an answer
arrives and depose itself. `StableLeaderConverges` is about the leaders that
stay; `RequestsAnswered` covers both.

## 4. Proofs

`CompletionTracker_proofs`, for every history limit and sequence bound: the
type invariant; that frontier and sparse set represent exactly the consumed
completions (`DedupIsExact`); that a repeated report is always recognised, and
an awaited one always accepted; that a late report of an earlier generation
completes nothing (`OwnEffectsOnly`); that the history is sound; and that within a
generation nothing is forgotten. `IInv` joins the type invariant, `DedupExact`,
`ConsumesOwnEffects` and the facts about the history. `FrontierMoves` states what the loop that merges
the sparse set into the frontier returns, using the least missing sequence
(`LeastProperty`) in place of an induction over the loop.

`VoteLedger_proofs`, for every finite set of nodes: types, and one leader
per term. `OneLeaderPerTerm` is not inductive: `IInv` adds
`VoteOnce` (one vote per node and term) and `LeadersBacked` (every leader has a quorum of durable votes), and
`QuorumsIntersect` gives the common voter.

`LogStore_proofs`, for every bound on indexes and terms: the log stays well
formed (`TypeCorrect`), the term of a committed index never changes
(`CommittedStays`), a merge of what a leader may send meets its reference
(`MergeCorrect`), and the unstable window covers every entry that is not
confirmed, whichever step added it (`UnconfirmedCovered`). `IInv` is `TypeOK` with the
types of the fields, `CommittedKept` and `UnstableCovers` (`Tracked`). For the last,
`WindowsHold` and `StableHolds` say what each operation on the window keeps of it,
and `Covers` joins that with the entries a step adds. `TypeOK` alone is not
inductive: a snapshot installed at or below the commit point keeps the suffix
only because the log has its term there, and would otherwise leave the commit
point beyond the log. `MergeExact` needs it too: `replace_conflict` refuses to
change anything at or below the commit point, and the first change lies above it
only because the log holds the decided terms. The inputs are those `LogStore` describes: a leader, and a
snapshot, hold every committed entry. `MergeKeepsCommitted` does without that:
whatever the entries are, `merge_from_leader` returns a well formed log with the
same boundary, commit point and committed terms. The argument goes through the
operators of `RaftLog`: `Queries` says what they answer on a well formed log,
`Joined` and `Shortened` what remains of a log when a suffix is replaced or a
prefix dropped, `MergeCases` what a merge does, and there is one lemma per action.

### Elections of the cluster

`Cluster_proofs` proves, for any finite set of nodes, any disks to start from and
any number of messages, crashes, failures and losses, with a serial host:

| Theorem | States |
|---|---|
| `VoteInvariant` | the inductive invariant `VoteInv` |
| `ElectionSafetyHolds` | `ElectionSafety`: no term ever has two leaders |
| `GrantsAreDurableHolds` | `GrantsAreDurable`: every grant counted or in flight is on the voter's disk |
| `OnePersistHolds` | `OnePersist`: the outstanding persist is the one the barrier waits for |
| `AppliesFirstHolds` | `AppliesFirst`: no persist is reported, or fails, while the core waits for an apply |
| `PromisesKept` | no write lowers a disk's term or changes a vote within its term |
| `LedgerImplemented` | `ImplementsVoteLedger`, as long as terms stay within `MaxTerm`, which bounds the ledger's terms |

Every handler, continuation and completion of `RaftCore` and every action of
`Cluster` has its part in them: whatever a step does to the log, to proposals, reads
and snapshots, it must not disturb this.

`ElectionSafety` is not inductive: it follows from the durable votes, these from
what each core has promised and not yet written, and that from the effects its host
still holds. `VoteInv` therefore says of every node that
- disk and core agree on term and vote unless one *heavy* effect is outstanding (a
  persist of the protocol, or a store, persist or install of an incoming snapshot),
  there is at most one of these, and while it is outstanding the core's hard state
  takes back nothing of the disk's (`Pending`, `Synced`, `OneHeavy`);
- an effect is outstanding exactly when the barrier of its kind waits for it
  (`Agree`), under ids that the next effect does not repeat (`Limited`);
- the apply that the core waits for is outstanding, before any persist of the
  protocol (`Waits`): without this, the failure of a persist could be refused as that
  of an unknown effect, and the core would go on over a disk that lacks its vote;
- the continuation of the persist grants only the vote it writes, and activates only
  a candidate with a quorum (`Vow`);
- a candidate counts durable votes only, and a leader has a quorum of them
  (`Tallied`); a grant in the network is durable (`Mail`);
- every durable vote is its node's only one in the term, and the disk has it or has
  moved to a higher term (`Books`); leaders were elected by them (`Offices`).

TLC has evaluated `VoteInv`, with terms and ids bounded, in every state of the runs
`election`, `replication` and `clients` that the hypotheses below admit.

The argument has three layers. `CoreVotes_proofs` has the kinds of change a step is
made of (`LightStep`, `RoleStep`, `PersistStep`, `HeavyStep`): each keeps the
invariant of a core, `Good`, whatever else it changes. `RaftCore_proofs` and
`RaftEffects_proofs` show that every handler is made of such changes (`...Good`,
`...Clear`, `...Fine`), that `Step` ends it well (`StepEnds`), and that a completion
or a failure of the oldest effect does (`CompletionEnds`, `FailureEnds`).
`ClusterVotes_proofs` carries this over to disks, votes and messages, crashes with
any prefix of the effects done included (`CrashDisk`), and derives the properties;
`Cluster_proofs` has one lemma per action.

Hypotheses, all visible in the statements:

- `SerialHost`: without it the properties are false (section 2).
- `[]Sober`, which is two things. `CleanInstalls`: a snapshot is installed only into
  a core that neither campaigns nor leads and has not voted in the term of its
  sender. It excludes exactly finding 2 and the missing step-down of section 3: both
  are steps that `VoteInv` does not survive. `NoFault`: no core meets a log error,
  which would drop the install of a snapshot whose term is already on the disk; the
  run `replication` checks it.
- `NilIsNoRecord`: the model value for `None` is not a record. TLC cannot evaluate
  the domain of a model value, so this is a hypothesis and no `ASSUME`.
- `TermsBounded`, for `LedgerImplemented` only.

Constants are assumed to be what the `ASSUME` of each module says: the nodes are
finite and not empty, bounds are natural numbers.

### Only model-checked

- Liveness, which is beyond the prover.
- The properties of logs, commits, applies, proposals and reads in `Cluster`
  (`LogMatching`, `CommittedAgree`, `LeaderCompleteness`, `MatchIndexSound`,
  `CommitDurable`, `AppliedExactly`, `ProposalAnswersTrue`, `ReadsLinearizable`,
  `RecoveryValid`, `NoFault`), its `TypeOK`, and the commit index in
  `HardStateStable`. Their inductive invariant relates every log, every request in
  flight and every follower's progress, and rests on `CommittedStays` and
  `MergeKeepsCommitted` of `LogStore_proofs`; it is the next layer above `VoteInv`.

## 5. Not modelled, and the plan

- The configuration builder (`config.rs`), identifiers and errors carry no
  protocol state. The limits the builder checks are assumptions on constants.
- Envelope checks: messages in `Cluster` are always well addressed.
- Bytes: entry sizes against `max_bytes_per_rpc` (a batch may end earlier than
  `MaxEntriesPerRpc` says, and a command may be refused, which `Oversized`
  covers), chunk lengths, digests, and overflow of 64 bit indexes and terms.
- Outcomes of the wrong kind or for the wrong snapshot: the host is taken to
  answer what it was asked.
- A scenario that has proposals, reads, snapshots and a change of leader at once
  is beyond TLC's reach here; a scenario has one or two of them.

Next: a run with an asynchronous host once its discipline is settled; the inductive
invariant of replication on top of `VoteInv`; larger snapshots with reordered chunks
once a refused chunk is answered.
