------------------------------- MODULE Progress -------------------------------
(***************************************************************************)
(* What a leader knows of one follower (progress/mod.rs, inflights.rs):    *)
(*   match      highest index known to be replicated there                 *)
(*   next       index the next AppendEntries starts at                     *)
(*   state      "Probe", "Replicate" or "Snapshot"                         *)
(*   inflight   end indexes of the unacknowledged requests, oldest first   *)
(* `recently_active` is reported to the host only and left out.            *)
(***************************************************************************)
EXTENDS Naturals, Sequences

CONSTANT MaxInflight   \* config.max_inflight_appends()

NewProgress(next) ==
    [match |-> 0, next |-> next, state |-> "Probe", inflight |-> << >>]

CanSend(p) ==
    \/ p.state = "Probe" /\ p.inflight = << >>
    \/ p.state = "Replicate" /\ Len(p.inflight) < MaxInflight

Push(inflight, index) ==
    IF Len(inflight) >= MaxInflight THEN inflight ELSE Append(inflight, index)

\* Pops from the front while the front is acknowledged.
FreeThrough(inflight, index) ==
    LET kept == {k \in 1..Len(inflight) : inflight[k] > index}
        first == CHOOSE k \in kept : \A j \in kept : k <= j
    IN IF kept = {} THEN << >> ELSE SubSeq(inflight, first, Len(inflight))

Sent(p, end) ==
    [p EXCEPT !.inflight = Push(@, end),
              !.next = IF p.state = "Replicate" THEN end + 1 ELSE @]

\* `acknowledged` and `reject` return false, and change nothing the protocol
\* reads, for a response that a later one has overtaken.
StaleAck(p, index) == index < p.match
StaleReject(p, rejected) == rejected + 1 < p.next

Acknowledged(p, index) ==
    IF StaleAck(p, index) THEN p
    ELSE [match |-> index,
          next |-> IF index + 1 > p.next THEN index + 1 ELSE p.next,
          state |-> IF p.state = "Probe" THEN "Replicate" ELSE p.state,
          inflight |-> FreeThrough(p.inflight, index)]

Rejected(p, rejected, hint) ==
    IF StaleReject(p, rejected) THEN p
    ELSE [p EXCEPT !.state = "Probe",
                   !.inflight = << >>,
                   !.next = IF hint > p.match + 1 THEN hint ELSE p.match + 1]

EnterSnapshot(p) == [p EXCEPT !.state = "Snapshot", !.inflight = << >>]

RestoreProbe(p, next) ==
    [p EXCEPT !.state = "Probe", !.next = next, !.inflight = << >>]
=============================================================================
