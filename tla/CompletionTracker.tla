-------------------------- MODULE CompletionTracker --------------------------
(***************************************************************************)
(* How a core recognises the completions the host reports                  *)
(* (core.rs: validate_completion, record_completion, next_effect_id).      *)
(* The host may report an effect late, twice, with two different           *)
(* outcomes, or to a core that was recovered after the effect was emitted. *)
(*                                                                         *)
(* `awaiting` abstracts the barriers of the core (pending_persist,         *)
(* pending_apply, the snapshot pipelines): the effects whose completion    *)
(* some handler would consume.  A barrier may be overwritten by a newer    *)
(* effect, after which nobody waits for the older one.                     *)
(***************************************************************************)
EXTENDS Naturals, Sequences, FiniteSets

CONSTANTS
    Outcome,        \* outcomes a handler can consume
    HistoryLimit,   \* config.completion_history()
    MaxSequence,    \* bound on next_effect_sequence
    MaxGeneration   \* bound on recovery generations

ASSUME HistoryLimitAssumption == HistoryLimit \in Nat
ASSUME MaxSequenceAssumption == MaxSequence \in Nat

VARIABLES
    generation,   \* config.generation()
    sequence,     \* next_effect_sequence
    emitted,      \* every effect id [gen, seq] handed to the host, by any core
    awaiting,     \* sequences some barrier of the core waits for
    frontier,     \* completed_frontier
    sparse,       \* completed_sparse
    history,      \* completion_order with completed_outcomes: <<[seq, outcome]>>
    consumed,     \* every sequence a handler of this generation consumed
    reported      \* history: the ids of the reports they were consumed from

vars ==
    <<generation, sequence, emitted, awaiting, frontier, sparse, history, consumed, reported>>

Id(gen, seq) == [gen |-> gen, seq |-> seq]

Least(S) == CHOOSE x \in S : \A y \in S : x <= y

\* `recover` builds a new core under the next generation: nothing is pending,
\* nothing is completed, the sequence starts over.
Init ==
    /\ generation = 1
    /\ sequence = 0
    /\ emitted = {}
    /\ awaiting = {}
    /\ frontier = 0
    /\ sparse = {}
    /\ history = << >>
    /\ consumed = {}
    /\ reported = {}
-----------------------------------------------------------------------------
\* completed_outcomes.get(id)
Remembered(seq) == {k \in 1..Len(history) : history[k].seq = seq}

SeqCompleted(seq) == seq <= frontier \/ seq \in sparse

\* Faulty variant: effects are told apart by their sequence alone.
AnyGeneration(gen) == TRUE

\* An effect id carries the generation of its core, which is compared on
\* arrival, before the handlers run and with the id of every barrier.
OfThisCore(gen) == gen = generation

\* The answer of `validate_completion` to a report.
Verdict(gen, seq, outcome) ==
    CASE ~OfThisCore(gen) -> "StaleEffectGeneration"
      [] OfThisCore(gen) /\ Remembered(seq) # {} ->
            IF \E k \in Remembered(seq) : history[k].outcome = outcome
            THEN "AlreadyCompleted" ELSE "ConflictingEffectOutcome"
      [] OfThisCore(gen) /\ Remembered(seq) = {} ->
            IF SeqCompleted(seq) THEN "AlreadyCompleted" ELSE "Valid"

\* Faulty variant: the frontier jumps over the gaps.
FrontierJumps(seq) == IF seq > frontier THEN seq ELSE frontier

\* The frontier after `seq`: it moves only when `seq` fills the next slot, and
\* then swallows the run of sparse completions that follows.
NextFrontier(seq) ==
    IF seq = frontier + 1
    THEN Least({f \in seq..MaxSequence : f + 1 \notin sparse})
    ELSE frontier

\* Faulty variant: the swallowed run stays in the sparse set.
SparseKeepsRun(seq) ==
    IF seq = frontier + 1 THEN sparse ELSE sparse \cup {seq}

\* Faulty variant: a completion out of order is not recorded.
SparseDrops(seq) ==
    IF seq = frontier + 1 THEN sparse \ ((seq + 1)..NextFrontier(seq)) ELSE sparse

\* Faulty variant: moving the frontier empties the sparse set.
SparseCleared(seq) ==
    IF seq = frontier + 1 THEN {} ELSE sparse \cup {seq}

NextSparse(seq) ==
    IF seq = frontier + 1
    THEN sparse \ ((seq + 1)..NextFrontier(seq))
    ELSE sparse \cup {seq}

\* Faulty variant: one report more than the limit is kept.
EvictLate(h) ==
    IF Len(h) > HistoryLimit + 1 THEN SubSeq(h, Len(h) - HistoryLimit, Len(h)) ELSE h

\* The outcome history keeps the newest HistoryLimit reports.
Evict(h) ==
    IF Len(h) > HistoryLimit THEN SubSeq(h, Len(h) - HistoryLimit + 1, Len(h)) ELSE h

RecordCompletion(seq, outcome) ==
    /\ frontier' = NextFrontier(seq)
    /\ sparse' = NextSparse(seq)
    /\ history' = Evict(Append(history, [seq |-> seq, outcome |-> outcome]))
-----------------------------------------------------------------------------
\* `next_effect_id` for an effect with a barrier; `replaced` is the barrier the
\* handler overwrites, if any.
Emit(replaced) ==
    /\ sequence < MaxSequence
    /\ sequence' = sequence + 1
    /\ emitted' = emitted \cup {Id(generation, sequence + 1)}
    /\ awaiting' = (awaiting \ replaced) \cup {sequence + 1}
    /\ UNCHANGED <<generation, frontier, sparse, history, consumed, reported>>

\* A report that passes validation and that some handler consumes, finding the
\* id of its barrier in it; the core does nothing on any other report.
Consume(gen, seq, outcome) ==
    /\ Verdict(gen, seq, outcome) = "Valid"
    /\ OfThisCore(gen) /\ seq \in awaiting
    /\ awaiting' = awaiting \ {seq}
    /\ consumed' = consumed \cup {seq}
    /\ reported' = reported \cup {Id(gen, seq)}
    /\ RecordCompletion(seq, outcome)
    /\ UNCHANGED <<generation, sequence, emitted>>

\* Faulty variant: the barriers of the old core survive the recovery.
RecoverWithBarriers ==
    /\ generation < MaxGeneration
    /\ generation' = generation + 1
    /\ sequence' = 0
    /\ frontier' = 0
    /\ sparse' = {}
    /\ history' = << >>
    /\ consumed' = {}
    /\ reported' = {}
    /\ UNCHANGED <<emitted, awaiting>>

\* The host drops the core and recovers a new one.
Recover ==
    /\ generation < MaxGeneration
    /\ generation' = generation + 1
    /\ sequence' = 0
    /\ awaiting' = {}
    /\ frontier' = 0
    /\ sparse' = {}
    /\ history' = << >>
    /\ consumed' = {}
    /\ reported' = {}
    /\ UNCHANGED emitted

\* The host reports what it was handed, in any order, as often as it likes and
\* also to a core recovered since.
Next ==
    \/ \E replaced \in {{}} \cup {{a} : a \in awaiting} : Emit(replaced)
    \/ \E e \in emitted, outcome \in Outcome : Consume(e.gen, e.seq, outcome)
    \/ Recover

Spec == Init /\ [][Next]_vars
-----------------------------------------------------------------------------
Report == [seq : 1..MaxSequence, outcome : Outcome]

\* Types of the tracker's fields (core.rs:2576, 649-675).
TypeOK ==
    /\ generation \in Nat \ {0}
    /\ sequence \in 0..MaxSequence
    /\ emitted \subseteq [gen : 1..generation, seq : 1..MaxSequence]
    /\ awaiting \subseteq 1..sequence
    /\ frontier \in 0..sequence
    /\ sparse \subseteq 1..sequence
    /\ history \in Seq(Report)
    /\ consumed \subseteq 1..sequence
    /\ reported \subseteq emitted

\* frontier and sparse represent exactly the consumed sequences, whatever the
\* order of the completions and whatever the history has forgotten; the sparse
\* part is disjoint from the contiguous one and never holds the next slot.
DedupExact ==
    /\ consumed = (1..frontier) \cup sparse
    /\ \A s \in sparse : s > frontier + 1

\* A consumed effect is recognised for ever: a host that repeats its report,
\* with the same or another outcome, is told so and no handler runs again.
RepeatRecognised ==
    \A s \in consumed, o \in Outcome :
        Verdict(generation, s, o) \in {"AlreadyCompleted", "ConflictingEffectOutcome"}

\* No report of an effect the core still waits for is turned away: otherwise
\* its barrier would stay raised and the node would stop making progress.
AwaitedAccepted ==
    \A s \in awaiting, o \in Outcome : Verdict(generation, s, o) = "Valid"

\* A core takes an effect for done only when the host reported that very
\* effect: the late report of an effect of the core before the recovery, whose
\* sequence numbers a recovered core uses again, completes nothing
\* (validate_completion, core.rs:625).
ConsumesOwnEffects == reported = {Id(generation, s) : s \in consumed}

\* A conflict is only reported against an outcome that was consumed, and the
\* history that serves to tell stays within the configured limit.
HistorySound ==
    /\ Len(history) <= HistoryLimit
    /\ \A k \in 1..Len(history) : history[k].seq \in consumed
    /\ \A j, k \in 1..Len(history) : history[j].seq = history[k].seq => j = k

\* Within a generation a completion is never forgotten: the set of sequences
\* answered with a refusal only grows.
NeverForgets ==
    [][generation' = generation =>
          \A s \in 1..MaxSequence : SeqCompleted(s) => SeqCompleted(s)']_vars
=============================================================================
