----------------------- MODULE CompletionTracker_proofs -----------------------
(***************************************************************************)
(* Proofs about CompletionTracker, for every history limit, every set of   *)
(* outcomes and every bound on sequences and generations.                  *)
(***************************************************************************)
EXTENDS CompletionTracker, WellFoundedInduction, TLAPS

\* No barrier waits for an effect that was already consumed.
AwaitingFresh == awaiting \cap consumed = {}

\* The inductive invariant: the conjuncts a step needs of one another.
IInv == TypeOK /\ DedupExact /\ AwaitingFresh /\ HistorySound /\ ConsumesOwnEffects

\* A nonempty set of naturals has a least element, and Least picks it.
LEMMA LeastProperty ==
    ASSUME NEW S \in SUBSET Nat, S # {}
    PROVE  Least(S) \in S /\ \A y \in S : Least(S) <= y
<1> DEFINE R == {ss \in Nat \X Nat : ss[1] < ss[2]}
<1>1. IsWellFoundedOn(R, Nat)
  BY NatLessThanWellFounded DEF OpToRel
<1> HIDE DEF R
<1>2. PICK x \in S : \A y \in S : ~(<<y, x>> \in R)
  BY <1>1, WFMin, Zenon
<1>3. \A y \in S : x <= y
  <2> TAKE y \in S
  <2>1. x \in Nat /\ y \in Nat /\ <<y, x>> \in Nat \X Nat
    OBVIOUS
  <2>2. ~(y < x)
    BY <1>2, <2>1 DEF R
  <2> QED
    BY <2>1, <2>2
<1> QED
  BY <1>3, Zenon DEF Least

\* The frontier after the completion that fills its next slot: every sequence
\* it moves over was completed, and the slot after it is open.
LEMMA FrontierMoves ==
    ASSUME IInv, NEW seq \in awaiting, seq = frontier + 1
    PROVE  /\ NextFrontier(seq) \in seq..sequence
           /\ (seq + 1)..NextFrontier(seq) \subseteq sparse
           /\ NextFrontier(seq) + 1 \notin sparse
<1> DEFINE Open == {f \in seq..MaxSequence : f + 1 \notin sparse}
<1>0. /\ sequence \in Nat /\ sequence <= MaxSequence /\ MaxSequence \in Nat
      /\ seq \in 1..sequence /\ sparse \subseteq 1..sequence
  BY MaxSequenceAssumption DEF IInv, TypeOK
<1>1. sequence \in Open
  BY <1>0
<1>2. Open \in SUBSET Nat /\ Open # {}
  BY <1>0, <1>1
<1>3. NextFrontier(seq) = Least(Open)
  BY DEF NextFrontier
<1> HIDE DEF Open
<1>4. /\ NextFrontier(seq) \in Open
      /\ \A y \in Open : NextFrontier(seq) <= y
  BY <1>2, <1>3, LeastProperty
<1>5. NextFrontier(seq) \in seq..sequence
  BY <1>0, <1>1, <1>4 DEF Open
<1>6. ASSUME NEW g \in (seq + 1)..NextFrontier(seq)
      PROVE  g \in sparse
  <2>1. g - 1 \in seq..MaxSequence /\ g - 1 < NextFrontier(seq) /\ (g - 1) + 1 = g
    BY <1>0, <1>5
  <2>2. g - 1 \notin Open
    BY <1>4, <1>5, <2>1, <1>0
  <2> QED
    BY <2>1, <2>2 DEF Open
<1> QED
  BY <1>4, <1>5, <1>6 DEF Open

\* Evicting keeps the newest reports, within the limit.
LEMMA EvictProperty ==
    ASSUME NEW h \in Seq(Report)
    PROVE  /\ Evict(h) \in Seq(Report)
           /\ Len(Evict(h)) <= HistoryLimit
           /\ \E d \in Nat : \A k \in 1..Len(Evict(h)) :
                 k + d \in 1..Len(h) /\ Evict(h)[k] = h[k + d]
<1> USE HistoryLimitAssumption
<1>1. CASE Len(h) > HistoryLimit
  <2> DEFINE d == Len(h) - HistoryLimit
  <2>1. d \in Nat /\ Evict(h) = SubSeq(h, d + 1, Len(h))
    BY <1>1 DEF Evict
  <2>2. Len(Evict(h)) = HistoryLimit /\ Evict(h) \in Seq(Report)
    BY <1>1, <2>1
  <2>3. \A k \in 1..Len(Evict(h)) : k + d \in 1..Len(h) /\ Evict(h)[k] = h[k + d]
    BY <1>1, <2>1, <2>2
  <2> HIDE DEF d
  <2>4. \E e \in Nat : \A k \in 1..Len(Evict(h)) :
           k + e \in 1..Len(h) /\ Evict(h)[k] = h[k + e]
    BY <2>1, <2>3, Zenon
  <2>5. Evict(h) \in Seq(Report) /\ Len(Evict(h)) <= HistoryLimit
    BY <2>2
  <2> QED
    BY <2>4, <2>5, Zenon
<1>2. CASE ~(Len(h) > HistoryLimit)
  <2>1. Evict(h) = h /\ Len(h) <= HistoryLimit
    BY <1>2 DEF Evict
  <2>2. \A k \in 1..Len(h) : k + 0 \in 1..Len(h) /\ h[k] = h[k + 0]
    OBVIOUS
  <2> QED
    BY <2>1, <2>2
<1> QED
  BY <1>1, <1>2

\* A consumed report leaves frontier and sparse describing exactly the
\* consumed sequences.
LEMMA ConsumeDedup ==
    ASSUME IInv, NEW gen, NEW seq \in awaiting, NEW outcome \in Outcome,
           Consume(gen, seq, outcome)
    PROVE  /\ DedupExact'
           /\ frontier' \in 0..sequence /\ sparse' \subseteq 1..sequence
<1> DEFINE nf == NextFrontier(seq)
<1>0. /\ sequence \in Nat /\ frontier \in Nat /\ frontier <= sequence
      /\ seq \in 1..sequence /\ sparse \subseteq 1..sequence
      /\ seq \notin consumed
  BY DEF IInv, TypeOK, AwaitingFresh
<1>1. /\ consumed = (1..frontier) \cup sparse
      /\ \A s \in sparse : s > frontier + 1
  BY DEF IInv, DedupExact
<1>2. /\ consumed' = consumed \cup {seq}
      /\ frontier' = NextFrontier(seq)
      /\ sparse' = NextSparse(seq)
  BY DEF Consume, RecordCompletion
<1>3. CASE seq = frontier + 1
  <2>1. /\ nf \in seq..sequence
        /\ (seq + 1)..nf \subseteq sparse
        /\ nf + 1 \notin sparse
    BY <1>3, FrontierMoves
  <2>2. frontier' = nf /\ sparse' = sparse \ ((seq + 1)..nf)
    BY <1>2, <1>3 DEF NextSparse
  <2> HIDE DEF nf
  <2>3. consumed' = (1..frontier') \cup sparse'
    BY <1>0, <1>1, <1>2, <1>3, <2>1, <2>2
  <2>4. \A s \in sparse' : s > frontier' + 1
    BY <1>0, <1>1, <1>3, <2>1, <2>2
  <2> QED
    BY <1>0, <2>1, <2>2, <2>3, <2>4 DEF DedupExact
<1>4. CASE seq # frontier + 1
  <2>1. frontier' = frontier /\ sparse' = sparse \cup {seq}
    BY <1>2, <1>4 DEF NextFrontier, NextSparse
  <2>2. seq > frontier + 1
    BY <1>0, <1>1, <1>4
  <2> QED
    BY <1>0, <1>1, <1>2, <2>1, <2>2 DEF DedupExact
<1> QED
  BY <1>3, <1>4

\* A consumed report enters the history once and the history stays within its
\* limit.
LEMMA ConsumeHistory ==
    ASSUME IInv, NEW gen, NEW seq \in awaiting, NEW outcome \in Outcome,
           Consume(gen, seq, outcome)
    PROVE  history' \in Seq(Report) /\ HistorySound'
<1> DEFINE r == [seq |-> seq, outcome |-> outcome]
           h == Append(history, r)
<1>0. /\ history \in Seq(Report) /\ seq \in 1..MaxSequence /\ seq \notin consumed
  BY MaxSequenceAssumption DEF IInv, TypeOK, AwaitingFresh
<1>1. /\ \A k \in 1..Len(history) : history[k].seq \in consumed
      /\ \A j, k \in 1..Len(history) : history[j].seq = history[k].seq => j = k
  BY DEF IInv, HistorySound
<1>2. r \in Report /\ r.seq = seq
  BY <1>0 DEF Report
<1> HIDE DEF r
<1>3. /\ h \in Seq(Report) /\ Len(h) = Len(history) + 1 /\ Len(history) \in Nat
      /\ \A k \in 1..Len(history) : h[k] = history[k]
      /\ h[Len(history) + 1] = r
  BY <1>0, <1>2
<1>4. history' = Evict(h) /\ consumed' = consumed \cup {seq}
  BY DEF Consume, RecordCompletion, r
<1> HIDE DEF h
<1>5. \A k \in 1..Len(h) : h[k].seq \in consumed'
  BY <1>1, <1>2, <1>3, <1>4
<1>6. \A j, k \in 1..Len(h) : h[j].seq = h[k].seq => j = k
  BY <1>0, <1>1, <1>2, <1>3
<1>7. PICK d \in Nat : \A k \in 1..Len(Evict(h)) :
         k + d \in 1..Len(h) /\ Evict(h)[k] = h[k + d]
  BY <1>3, EvictProperty, Zenon
<1>8. Evict(h) \in Seq(Report) /\ Len(Evict(h)) <= HistoryLimit
  BY <1>3, EvictProperty
<1>9. \A k \in 1..Len(history') : history'[k].seq \in consumed'
  BY <1>4, <1>5, <1>7
<1>10. \A j, k \in 1..Len(history') : history'[j].seq = history'[k].seq => j = k
  <2> SUFFICES ASSUME NEW j \in 1..Len(history'), NEW k \in 1..Len(history'),
                      history'[j].seq = history'[k].seq
               PROVE  j = k
    OBVIOUS
  <2>1. j + d = k + d
    BY <1>4, <1>6, <1>7, Zenon
  <2> QED
    BY <2>1, <1>7, <1>4, <1>8
<1> QED
  BY <1>4, <1>8, <1>9, <1>10 DEF HistorySound

\* The tracker's invariant holds initially.
LEMMA InitIInv == Init => IInv
  BY MaxSequenceAssumption, HistoryLimitAssumption
  DEF Init, IInv, TypeOK, DedupExact, AwaitingFresh, HistorySound, ConsumesOwnEffects

\* Every step of the tracker preserves the invariant.
LEMMA NextIInv == IInv /\ [Next]_vars => IInv'
<1> SUFFICES ASSUME IInv, [Next]_vars PROVE IInv'
  OBVIOUS
<1> USE MaxSequenceAssumption, HistoryLimitAssumption
<1>1. ASSUME NEW replaced \in {{}} \cup {{a} : a \in awaiting}, Emit(replaced)
      PROVE  IInv'
  <2>0. ConsumesOwnEffects' /\ reported' \subseteq emitted'
    BY <1>1 DEF Emit, IInv, TypeOK, ConsumesOwnEffects
  <2>1. TypeOK'
    <3>1. sequence' \in 0..MaxSequence /\ (1..sequence) \subseteq (1..sequence')
      BY <1>1 DEF Emit, IInv, TypeOK
    <3>2. awaiting' \subseteq 1..sequence'
      <4>1. awaiting' \subseteq awaiting \cup {sequence + 1}
        BY <1>1, Zenon DEF Emit
      <4>2. sequence + 1 \in 1..sequence' /\ awaiting \subseteq 1..sequence
        BY <1>1 DEF Emit, IInv, TypeOK
      <4> QED
        BY <3>1, <4>1, <4>2
    <3>3. frontier' \in 0..sequence'
      BY <1>1 DEF Emit, IInv, TypeOK
    <3>4. emitted' \subseteq [gen : 1..generation', seq : 1..MaxSequence]
      <4>1. sequence + 1 \in 1..MaxSequence /\ generation \in 1..generation
        BY <1>1 DEF Emit, IInv, TypeOK
      <4>2. Id(generation, sequence + 1) \in [gen : 1..generation, seq : 1..MaxSequence]
        BY <4>1 DEF Id
      <4> QED
        BY <1>1, <4>2 DEF Emit, IInv, TypeOK
    <3> QED
      BY <1>1, <2>0, <3>1, <3>2, <3>3, <3>4 DEF Emit, IInv, TypeOK
  <2>2. DedupExact' /\ HistorySound'
    BY <1>1 DEF Emit, IInv, DedupExact, HistorySound
  <2>3. AwaitingFresh'
    <3>1. sequence + 1 \notin consumed
      BY DEF IInv, TypeOK
    <3> QED
      BY <1>1, <3>1 DEF Emit, IInv, AwaitingFresh
  <2> QED
    BY <2>0, <2>1, <2>2, <2>3 DEF IInv
<1>2. ASSUME NEW e \in emitted, NEW outcome \in Outcome, Consume(e.gen, e.seq, outcome)
      PROVE  IInv'
  <2> DEFINE seq == e.seq
  <2>0. seq \in awaiting
    BY <1>2 DEF Consume
  <2>1. DedupExact' /\ frontier' \in 0..sequence /\ sparse' \subseteq 1..sequence
    BY <2>0, <1>2, ConsumeDedup
  <2>2. history' \in Seq(Report) /\ HistorySound'
    BY <2>0, <1>2, ConsumeHistory
  <2>3. /\ sequence' = sequence /\ generation' = generation /\ emitted' = emitted
        /\ awaiting' = awaiting \ {seq} /\ consumed' = consumed \cup {seq}
        /\ reported' = reported \cup {Id(generation, seq)} /\ Id(generation, seq) = e
    <3>1. e.gen = generation
      BY <1>2 DEF Consume, OfThisCore
    <3>2. e = [gen |-> e.gen, seq |-> e.seq]
      BY DEF IInv, TypeOK
    <3> QED
      BY <1>2, <3>1, <3>2 DEF Consume, Id
  <2>4. TypeOK'
    <3>1. awaiting' \subseteq 1..sequence /\ consumed' \subseteq 1..sequence
      BY <2>0, <2>3, Zenon DEF IInv, TypeOK
    <3>2. reported' \subseteq emitted
      BY <1>2, <2>3 DEF IInv, TypeOK
    <3> QED
      BY <2>1, <2>2, <2>3, <3>1, <3>2 DEF IInv, TypeOK
  <2>5. AwaitingFresh'
    BY <2>0, <2>3 DEF IInv, AwaitingFresh
  <2>6. ConsumesOwnEffects'
    <3>1. reported = {Id(generation, s) : s \in consumed}
      BY DEF IInv, ConsumesOwnEffects
    <3> QED
      BY <2>3, <3>1 DEF ConsumesOwnEffects, Id
  <2> QED
    BY <2>1, <2>2, <2>4, <2>5, <2>6 DEF IInv
<1>3. CASE Recover
  <2>1. emitted' \subseteq [gen : 1..generation', seq : 1..MaxSequence]
    <3>1. (1..generation) \subseteq (1..generation')
      BY <1>3 DEF Recover, IInv, TypeOK
    <3>2. emitted' = emitted /\ emitted \subseteq [gen : 1..generation, seq : 1..MaxSequence]
      BY <1>3 DEF Recover, IInv, TypeOK
    <3> QED
      BY <3>1, <3>2
  <2>2. ConsumesOwnEffects'
    BY <1>3 DEF Recover, ConsumesOwnEffects
  <2> QED
    BY <1>3, <2>1, <2>2 DEF Recover, IInv, TypeOK, DedupExact, AwaitingFresh, HistorySound
<1>4. CASE UNCHANGED vars
  BY <1>4 DEF vars, IInv, TypeOK, DedupExact, AwaitingFresh, HistorySound, ConsumesOwnEffects, Id
<1> QED
  BY <1>1, <1>2, <1>3, <1>4 DEF Next

\* The invariant holds in every reachable state.
THEOREM Invariance == Spec => []IInv
  BY InitIInv, NextIInv, PTL DEF Spec

\* The fields of the tracker keep their types; in particular frontier, sparse
\* and the barriers never run ahead of next_effect_sequence.
THEOREM TypeCorrect == Spec => []TypeOK
<1>1. IInv => TypeOK
  BY DEF IInv
<1> QED
  BY <1>1, Invariance, PTL

\* frontier and sparse (record_completion) are an exact representation of the
\* set of consumed effects.
THEOREM DedupIsExact == Spec => []DedupExact
<1>1. IInv => DedupExact
  BY DEF IInv
<1> QED
  BY <1>1, Invariance, PTL

\* A repeated report is always recognised by validate_completion, also after
\* its outcome was evicted from the history.
THEOREM RepeatsAreRecognised == Spec => []RepeatRecognised
<1>1. IInv => RepeatRecognised
  <2> SUFFICES ASSUME IInv, NEW s \in consumed, NEW o \in Outcome
               PROVE  Verdict(generation, s, o)
                         \in {"AlreadyCompleted", "ConflictingEffectOutcome"}
    BY DEF RepeatRecognised
  <2>1. SeqCompleted(s)
    BY DEF IInv, TypeOK, DedupExact, SeqCompleted
  <2>2. CASE Remembered(s) # {}
    BY <2>2 DEF Verdict, OfThisCore
  <2>3. CASE Remembered(s) = {}
    BY <2>1, <2>3 DEF Verdict, OfThisCore
  <2> QED
    BY <2>2, <2>3
<1> QED
  BY <1>1, Invariance, PTL

\* validate_completion never turns away the report of an effect that a barrier
\* of the core still waits for.
THEOREM AwaitedIsAccepted == Spec => []AwaitedAccepted
<1>1. IInv => AwaitedAccepted
  <2> SUFFICES ASSUME IInv, NEW s \in awaiting, NEW o \in Outcome
               PROVE  Verdict(generation, s, o) = "Valid"
    BY DEF AwaitedAccepted
  <2>1. s \notin consumed /\ s \in Nat /\ s >= 1
    BY DEF IInv, TypeOK, AwaitingFresh
  <2>2. Remembered(s) = {}
    BY <2>1 DEF IInv, HistorySound, Remembered
  <2>3. ~SeqCompleted(s)
    BY <2>1 DEF IInv, TypeOK, DedupExact, SeqCompleted
  <2> QED
    BY <2>2, <2>3 DEF Verdict, OfThisCore
<1> QED
  BY <1>1, Invariance, PTL

\* A late report of an effect of an earlier generation never completes an effect
\* of the recovered core, however their sequences coincide.
THEOREM OwnEffectsOnly == Spec => []ConsumesOwnEffects
<1>1. IInv => ConsumesOwnEffects
  BY DEF IInv
<1> QED
  BY <1>1, Invariance, PTL

\* The outcome history holds only consumed effects, each once, within
\* config.completion_history().
THEOREM HistoryIsSound == Spec => []HistorySound
<1>1. IInv => HistorySound
  BY DEF IInv
<1> QED
  BY <1>1, Invariance, PTL

\* Within a generation the set of completed sequences only grows.
THEOREM CompletionsPersist == Spec => NeverForgets
<1> DEFINE A == generation' = generation =>
                   \A s \in 1..MaxSequence : SeqCompleted(s) => SeqCompleted(s)'
<1>1. IInv /\ IInv' /\ [Next]_vars => [A]_vars
  <2> SUFFICES ASSUME IInv, IInv', Next, generation' = generation,
                      NEW s \in 1..MaxSequence, SeqCompleted(s)
               PROVE  SeqCompleted(s)'
    OBVIOUS
  <2>1. consumed \subseteq consumed'
    <3>1. ASSUME NEW replaced \in {{}} \cup {{a} : a \in awaiting}, Emit(replaced)
          PROVE  consumed \subseteq consumed'
      BY <3>1 DEF Emit
    <3>2. ASSUME NEW e \in emitted, NEW outcome \in Outcome, Consume(e.gen, e.seq, outcome)
          PROVE  consumed \subseteq consumed'
      BY <3>2 DEF Consume
    <3>3. ~Recover
      BY DEF Recover, IInv, TypeOK
    <3> QED
      BY <3>1, <3>2, <3>3 DEF Next
  <2>2. s \in consumed
    BY DEF IInv, TypeOK, DedupExact, SeqCompleted
  <2>3. s \in consumed'
    BY <2>1, <2>2
  <2> QED
    BY <2>3 DEF IInv, TypeOK, DedupExact, SeqCompleted
<1> QED
  BY <1>1, Invariance, PTL DEF Spec, NeverForgets
=============================================================================
