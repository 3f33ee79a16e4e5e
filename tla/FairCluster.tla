----------------------------- MODULE FairCluster -----------------------------
(***************************************************************************)
(* A cluster that keeps running: hosts finish their effects, timers fire,  *)
(* and a link on which messages wait delivers some of them.                *)
(*                                                                         *)
(* `served` names what the last step served (a node's host <<n, n>>, its  *)
(* timers <<n>>, or a lane of the network) and alternates, so that every   *)
(* step changes it.  Each class of steps below has the guard under which   *)
(* Cluster has a step of that class, so weak fairness of the class is weak *)
(* fairness of those steps.                                                *)
(***************************************************************************)
EXTENDS Cluster

VARIABLE served

fairVars == <<vars, served>>

\* Messages of one lane may overtake each other for ever; a lane carries what one
\* node sends another, reads apart from the rest.
Lane(m) ==
    <<m.from, m.to,
      m.kind \in {"AppendEntries", "AppendEntriesResponse"} /\ m.context # Nil>>

Serve(what) == served' = [last |-> what, odd |-> ~served.odd]

FairInit == Init /\ served = [last |-> << >>, odd |-> FALSE]

FairNext ==
    \/ \E n \in Node : \/ Complete(n) /\ Serve(<<n, n>>)
                       \/ Tick(n) /\ Serve(<<n>>)
                       \/ (Ask(n) \/ Break(n)) /\ Serve(<< >>)
    \/ \E m \in msgs : \/ Receive(m) /\ Serve(Lane(m))
                       \/ Lose(m) /\ Serve(<< >>)

\* The host of n finishes an effect ("Each effect must be executed by the host
\* and its completion reported back", effect.rs).
HostServes(n) ==
    host[n] # << >> /\ ~core[n].stopped /\ Serve(<<n, n>>)

\* The heartbeat timer of a leader, and the election timer of the next candidate.
TimerServes(n) ==
    /\ Ready(n)
    /\ \/ core[n].role = "Leader" /\ "heartbeat" \in plan.endless
       \/ plan.campaign # << >> /\ n \in Head(plan.campaign)
    /\ Serve(<<n>>)

LinkServes(a, b, read) ==
    Ready(b) /\ (\E m \in msgs : Lane(m) = <<a, b, read>>) /\ Serve(<<a, b, read>>)

Fairness ==
    /\ \A n \in Node : WF_served(HostServes(n)) /\ WF_served(TimerServes(n))
    /\ \A n \in Node, read \in BOOLEAN :
          \A p \in Peers(n) : WF_served(LinkServes(n, p, read))

FairSpec == FairInit /\ [][FairNext]_fairVars /\ Fairness
-----------------------------------------------------------------------------
\* As long as a node stays leader, whatever its log holds is in the end executed
\* by every node it reaches ("The core will retry on the next heartbeat tick",
\* effect.rs:134).
StableLeaderConverges ==
    \A n \in Node :
        <>[](core[n].role = "Leader") =>
            <>[](\A p \in Node : p = n \/ <<n, p>> \in plan.link => machine[p] = LogOf(n))

Answered(id) == \E r \in results : r.id = id

\* The read waits at n, in the queue or in the round in flight.
Accepted(n, id) ==
    \/ \E k \in 1..Len(core[n].pendingReads) : core[n].pendingReads[k] = id
    \/ IF core[n].readRound = Nil THEN FALSE ELSE id \in core[n].readRound.requests

\* Every proposal is answered, by its result or by the loss of leadership, and so
\* is every read a leader has accepted, unless it ceases to lead: then the read is
\* forgotten without an answer (`become_follower`, core.rs:1674).
RequestsAnswered ==
    /\ \A id \in Proposal : (\E r \in issued : r.id = id) ~> Answered(id)
    /\ \A n \in Node, id \in ReadId :
          Accepted(n, id) ~> (Answered(id) \/ core[n].role # "Leader")
=============================================================================
