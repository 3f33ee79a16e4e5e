------------------------------ MODULE CoreState ------------------------------
(***************************************************************************)
(* The state of the core of one node, its recovery (state.rs), the quorums *)
(* it counts (quorum.rs) and the plumbing of a step that every handler of  *)
(* core.rs uses.                                                           *)
(*                                                                         *)
(* A core is a record of the fields of `struct RaftCore` plus what one     *)
(* step produces: `out` (messages), `fx` (effects the host must complete,  *)
(* in order), `res` (results for clients) and `err` (the error `?`         *)
(* propagates).  Between steps these are empty; `seq` is the number from   *)
(* which a step draws effect ids.                                          *)
(***************************************************************************)
EXTENDS Naturals, Sequences, FiniteSets, Functions, RaftLog

CONSTANTS
    Node,               \* config.members()
    Nil                 \* None

Quorum == Cardinality(Node) \div 2 + 1

Peers(n) == Node \ {n}
-----------------------------------------------------------------------------
(* QuorumTracker *)

LocalVote(n) == [granted |-> {n}, rejected |-> {}]

\* Faulty variant: a refusal counts as a grant.
RecordAnyAnswer(t, member, granted) == [t EXCEPT !.granted = @ \cup {member}]

\* A second vote of the same member is ignored.
Record(t, member, granted) ==
    IF member \in t.granted \cup t.rejected THEN t
    ELSE IF granted THEN [t EXCEPT !.granted = @ \cup {member}]
    ELSE [t EXCEPT !.rejected = @ \cup {member}]

\* Faulty variant: half of the members are enough.
HalfIsQuorum(t) == Cardinality(t.granted) >= Cardinality(Node) \div 2

HasQuorum(t) == Cardinality(t.granted) >= Quorum

CannotWin(t) == Cardinality(Node) - Cardinality(t.rejected) < Quorum

IsLogUpToDate(index, term, localIndex, localTerm) ==
    term > localTerm \/ (term = localTerm /\ index >= localIndex)
-----------------------------------------------------------------------------
(* The state of a core and the plumbing of a step *)

\* `from_parts`: what recovery accepts of durable state d = [hard, snap, entries].
Recoverable(d) ==
    LET last == IF d.entries = << >> THEN d.snap ELSE d.entries[Len(d.entries)]
    IN /\ d.hard.commit >= d.snap.index
       /\ Continuous(d.entries, d.snap.index + 1, d.snap.term)
       /\ d.hard.term >= last.term
       /\ d.hard.commit <= last.index

\* `new`: a core rebuilt from such a state.
Recovered(d) ==
    LET l == FromRecovered(d)
    IN [hard |-> d.hard, role |-> "Follower", log |-> l,
        lastIndex |-> LastIndex(l), lastTerm |-> TermAt(l, LastIndex(l)),
        preVotes |-> Nil, votes |-> Nil, active |-> {},
        progress |-> [p \in {} |-> Nil],
        pendingPersist |-> Nil, pendingApply |-> Nil,
        applied |-> d.snap.index, proposals |-> {}, noop |-> 0,
        pendingReads |-> << >>, readRound |-> Nil, nextRead |-> 0,
        local |-> Nil, incoming |-> Nil, store |-> Nil, installing |-> Nil,
        senders |-> [p \in {} |-> Nil], chunkReads |-> {},
        stopped |-> FALSE,
        out |-> {}, fx |-> << >>, res |-> {}, err |-> "Ok", seq |-> 0]

\* The core after a step, its outputs handed to the host.
Drained(s) ==
    [s EXCEPT !.out = {}, !.fx = << >>, !.res = {}, !.err = "Ok", !.seq = 0]

\* An error drops the effects of the step but not its changes of state; some
\* errors stop the core, and a failed `expect` ends the process.
Abort(s) ==
    [s EXCEPT !.out = {}, !.fx = << >>, !.res = {},
              !.stopped = @ \/ s.err \in {"StateMachine", "Storage", "Invariant", "Panic"}]

Fail(s, error) == [s EXCEPT !.err = error]

\* Sequencing of fallible calls (`?`).
Then(s, F(_)) == IF s.err = "Ok" THEN F(s) ELSE s

\* Continues with the log of a RaftLog call that returned Ok.
WithLog(s, r, F(_)) ==
    IF r.ok THEN F([s EXCEPT !.log = r.log]) ELSE Fail(s, "Log")

Send(s, ms) == [s EXCEPT !.out = @ \cup ms]

Broadcast(n, s, m) ==
    Send(s, {[m EXCEPT !.to = p] : p \in Peers(n)})

\* `next_effect_id`, and the effect that carries it.
NextId(s) == s.seq + 1
Emit(s, e) == [s EXCEPT !.seq = @ + 1, !.fx = Append(@, e)]

PersistEffect(s, hard, es, snap) ==
    [id |-> NextId(s), kind |-> "Persist", hard |-> hard, entries |-> es, snap |-> snap]

\* `queue_persist` raises the barrier, whatever it held before.
QueuePersist(s, hard, es, cont) ==
    [Emit(s, PersistEffect(s, hard, es, Nil)) EXCEPT
       !.pendingPersist =
           [id |-> NextId(s), cont |-> cont,
            stable |-> IF es = << >> THEN 0 ELSE es[Len(es)].index]]

Continue(kind) == [kind |-> kind]
=============================================================================
