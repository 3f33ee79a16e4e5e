--------------------------------- MODULE Host --------------------------------
(***************************************************************************)
(* The cluster's state, and the hosts that drive its cores.                *)
(*                                                                         *)
(* The host is external to the crate: it runs the effects of a step in     *)
(* order, reports each one, and after a crash recovers a new core from     *)
(* what reached its disk.  event.rs asks that it "complete all returned    *)
(* effects before delivering the next event" (SerialHost = TRUE, as        *)
(* examples/minimal_host.rs does); effect.rs and core.rs also speak of     *)
(* completions that arrive asynchronously (SerialHost = FALSE: further     *)
(* events may arrive while effects are outstanding).                       *)
(*                                                                         *)
(* What may happen in a behaviour is bounded by a plan, chosen with the    *)
(* initial disks: which requests the network carries, who campaigns in     *)
(* which order, what clients ask, and how often ticks, crashes, losses and *)
(* duplicates occur.                                                       *)
(*                                                                         *)
(* Effect ids only need to differ among the outstanding ones, so a step    *)
(* numbers its effects from the highest id in use; CompletionTracker       *)
(* models the sequence numbers themselves.                                 *)
(***************************************************************************)
EXTENDS CoreState

CONSTANTS
    Proposal,       \* client commands, each proposed at most once
    Earlier,        \* commands the initial logs hold
    ReadId,         \* client reads, each requested at most once
    SerialHost,     \* the host's discipline, see above
    Eager,          \* a node's effects complete before another node acts
    MaxTerm,        \* bound on terms
    Scenario        \* the instances, [disk, plan] records

\* What a plan leaves to happen.
Plan ==
    [link : SUBSET (Node \X Node),      \* <<n, p>>: n's requests reach p
     away : SUBSET Node,                \* nodes that no vote request reaches
     campaign : Seq(SUBSET Node),       \* who may be next to time out
     clients : SUBSET (Node \X (Proposal \cup ReadId)),   \* who may be asked what
     builders : SUBSET Node,            \* nodes that will be asked for a snapshot
     faulty : SUBSET Node,              \* nodes that may crash, stop or fail
     endless : SUBSET {"append", "heartbeat"},   \* what has no bound
     append : Nat,                      \* AppendEntries deliveries
     heartbeat : Nat, crash : Nat, duplicate : Nat, loss : Nat]

HardState == [term : Nat, vote : Node \cup {Nil}, commit : Nat]

ASSUME HostAssumption ==
    /\ IsFiniteSet(Node) /\ Node # {} /\ Nil \notin Node
    /\ SerialHost \in BOOLEAN /\ Eager \in BOOLEAN
    /\ MaxTerm \in Nat
    /\ \A sc \in Scenario :
          /\ sc.plan \in Plan
          /\ sc.disk = [n \in Node |-> sc.disk[n]]
          /\ \A n \in Node : /\ DOMAIN sc.disk[n] = {"hard", "snap", "entries"}
                             /\ sc.disk[n].hard \in HardState /\ sc.disk[n].snap # Nil

VARIABLES
    core,      \* the RaftCore of each node
    disk,      \* what each node has made durable: [hard, snap, entries]
    host,      \* the outstanding effects of each node, oldest first
    machine,   \* the entries applied to each node's state machine
    msgs,      \* messages in the network
    plan,      \* what may still happen
    issued,    \* client requests made so far, and how much was committed then
    results,   \* results delivered to clients
    ballots,   \* history: <<node, term, candidate>> votes that became durable
    elected,   \* history: <<term, node>> leaders
    decided,   \* history: the entries known committed by some core
    faults     \* history: log errors, invariant violations and panics of a core

vars == <<core, disk, host, machine, msgs, plan, issued, results,
          ballots, elected, decided, faults>>

\* What the state machine held when snapshot `snap` was taken, and a log with
\* the compacted prefix put back.
Body(snap) == IF snap = NoSnap THEN << >> ELSE snap.body
Whole(l) == Body(l.snap) \o l.entries

\* The host loads the snapshot and the entries after it.
Loaded(d) == [d EXCEPT !.entries = SelectSeq(@, LAMBDA e : e.index > d.snap.index)]

Init ==
    /\ \E sc \in Scenario : disk = sc.disk /\ plan = sc.plan
    /\ core = [n \in Node |-> Recovered(Loaded(disk[n]))]
    /\ host = [n \in Node |-> << >>]
    /\ machine = [n \in Node |-> Body(disk[n].snap)]
    /\ msgs = {}
    /\ issued = {}
    /\ results = {}
    /\ ballots = {<<n, disk[n].hard.term, disk[n].hard.vote>> :
                     n \in {x \in Node : disk[x].hard.vote # Nil}}
    /\ elected = {}
    /\ decided = LET c == Greatest({disk[n].hard.commit : n \in Node})
                     n == CHOOSE x \in Node : disk[x].hard.commit = c
                 IN SubSeq(Whole(Loaded(disk[n])), 1, c)
    /\ faults = {}
-----------------------------------------------------------------------------
(* The host *)

\* Ids in use at a node: outstanding effects and raised barriers.
LiveIds(s, q) ==
    {q[k].id : k \in 1..Len(q)} \cup {r.id : r \in s.chunkReads}
        \cup {b.id : b \in {s.pendingPersist, s.pendingApply, s.local, s.store,
                            s.installing} \ {Nil}}

\* The network carries requests along the plan's links and the answers back;
\* whatever is sent elsewhere is lost.
Carried(m) ==
    /\ m.kind \in {"PreVote", "RequestVote"} => m.to \notin plan.away
    /\ IF m.kind \in {"PreVote", "RequestVote", "AppendEntries", "InstallSnapshot"}
       THEN <<m.from, m.to>> \in plan.link
       ELSE <<m.to, m.from>> \in plan.link

\* Hands the outputs of a step that left node n in s to the host and the
\* network; q and net are the queue and the messages the step leaves behind.
Commit(n, s, q, net) ==
    /\ core' = [core EXCEPT ![n] = Drained(s)]
    /\ host' = [host EXCEPT ![n] = q \o s.fx]
    /\ msgs' = net \cup {m \in s.out : Carried(m)}
    /\ results' = results \cup s.res
    /\ elected' = IF s.role = "Leader" THEN elected \cup {<<s.hard.term, n>>} ELSE elected
    /\ decided' = IF s.log.committed > Len(decided)
                  THEN SubSeq(Whole(s.log), 1, s.log.committed)
                  ELSE decided
    /\ faults' = faults \cup ({s.err} \cap {"Log", "Invariant", "Panic"})

\* The core as an event's handler finds it; `seq` is the highest id in use.
Begin(n) == [core[n] EXCEPT !.seq = Greatest({0} \cup LiveIds(core[n], host[n]))]

\* The host may deliver an event to node n.
Ready(n) ==
    /\ ~core[n].stopped
    /\ SerialHost => host[n] = << >>
    /\ Eager => \A p \in Peers(n) : host[p] = << >>

\* The disk after an effect: a persist replaces hard state and snapshot, and the
\* log from its first entry on; a compaction deletes a prefix of the log.
Written(d, e) ==
    CASE e.kind = "Persist" ->
            [d EXCEPT
               !.hard = IF e.hard = Nil THEN @ ELSE e.hard,
               !.snap = IF e.snap = Nil THEN @ ELSE e.snap,
               !.entries = IF e.entries = << >> THEN @
                           ELSE SelectSeq(@, LAMBDA x : x.index < e.entries[1].index)
                                    \o e.entries]
      [] e.kind = "CompactLog" ->
            [d EXCEPT !.entries = SelectSeq(@, LAMBDA x : x.index > e.through)]
      [] OTHER -> d

Cast(n, e) ==
    IF e.kind # "Persist" THEN {}
    ELSE IF e.hard = Nil THEN {}
    ELSE IF e.hard.vote = Nil THEN {}
    ELSE {<<n, e.hard.term, e.hard.vote>>}

Without(q, k) == SubSeq(q, 1, k - 1) \o SubSeq(q, k + 1, Len(q))

\* The effects whose completion may be reported next: the oldest; an
\* asynchronous host orders applies and persists only among themselves.
Completable(n, kind) ==
    {k \in 1..Len(host[n]) :
        /\ host[n][k].kind = kind
        /\ \A j \in 1..(k - 1) : ~SerialHost /\ host[n][j].kind # kind}

\* Takes one of a kind of occurrence from the plan.
Spend(what) ==
    /\ plan[what] > 0
    /\ plan' = [plan EXCEPT ![what] = @ - 1]
-----------------------------------------------------------------------------
(* Crashes and losses *)

SpendCrash(n) == n \in plan.faulty /\ Spend("crash")

\* The disk of n after its first k outstanding effects.
DiskAfter(n, k) ==
    LET write[j \in 0..k] == IF j = 0 THEN disk[n] ELSE Written(write[j - 1], host[n][j])
    IN write[k]

\* The process dies with the first k outstanding effects executed, and the
\* host recovers a new core and the state machine of the snapshot from the disk.
Restart(n, k) ==
    LET d == DiskAfter(n, k)
    IN /\ Recoverable(Loaded(d))
       /\ disk' = [disk EXCEPT ![n] = d]
       /\ core' = [core EXCEPT ![n] = Recovered(Loaded(d))]
       /\ ballots' = ballots \cup UNION {Cast(n, host[n][j]) : j \in 1..k}
       /\ host' = [host EXCEPT ![n] = << >>]
       /\ machine' = [machine EXCEPT ![n] = Body(d.snap)]
       /\ UNCHANGED <<msgs, issued, results, elected, decided, faults>>

Crash(n) ==
    /\ ~core[n].stopped
    /\ SpendCrash(n)
    /\ \E k \in 0..Len(host[n]) : Restart(n, k)

\* A stopped core is dropped and recovered.
Recover(n) ==
    /\ core[n].stopped
    /\ Restart(n, 0)
    /\ UNCHANGED plan

Lose(m) ==
    /\ Spend("loss")
    /\ msgs' = msgs \ {m}
    /\ UNCHANGED <<core, disk, host, machine, issued, results, ballots, elected,
                   decided, faults>>
=============================================================================
