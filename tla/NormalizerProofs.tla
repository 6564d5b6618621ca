-------------------------- MODULE NormalizerProofs --------------------------
(***************************************************************************)
(* Proofs about Normalizer, for any documents, change events, sizes of a    *)
(* poll and numbers of faults: type correctness, no silent loss and the     *)
(* order of a document's changes on a lane.                                 *)
(***************************************************************************)
EXTENDS Normalizer, TLAPS, SequenceTheorems

-----------------------------------------------------------------------------
(* The inductive invariant *)

\* Every event the client has returned was emitted, was given up after a logged
\* error, or is in the produce of the current round.
ReturnedInHand == \A n \in 1..pos : Emitted(n) \/ n \in dropped \/ n \in toProduce

\* Nothing is being produced outside the produce phase; in particular nothing
\* is when the offsets are committed.
NothingPending == phase # "produce" => toProduce = {}

LoopInv == ReturnedInHand /\ LossesLogged /\ NothingPending /\ LanesInOrder

-----------------------------------------------------------------------------
(* Where an event goes *)

\* An event goes nowhere, to the DLQ or to one of the lanes.
LEMMA DestinationRange ==
    ASSUME NEW e \in Events
    PROVE  Destination(e) \in {"none", "dlq"} \cup Lanes
<1>1. \A op : classifyTier(op, e.tier) \in Lanes
  BY DEF classifyTier, Lanes
<1>2. FromDebezium(e).res \in {"skip", "error"} \/ FromDebezium(e).tier \in Lanes
  BY <1>1 DEF FromDebezium, buildDoc, ErrSkip, Rejected, Events
<1> QED
  BY <1>2 DEF Destination, Events

\* The events of the sources and of the noise are events.
LEMMA CapturedEvents ==
    ASSUME TypeOK, NEW d \in Docs
    PROVE  /\ \A t \in Lanes : Event(d, "c", NoRow, 1, t, TRUE) \in Events
           /\ \A t \in Lanes : Event(d, "u", rowVer[d], rowVer[d] + 1, t, TRUE) \in Events
           /\ Event(d, "d", rowVer[d], NoRow, "bulk", TRUE) \in Events
           /\ \A k \in NoiseKinds : NoiseEvent(d, k) \in Events
<1>1. rowVer[d] \in Nat /\ rowVer[d] + 1 \in Nat /\ NoRow \in Images /\ "bulk" \in Lanes
  BY NormalizerAssumption DEF TypeOK, Images, Lanes
<1>2. \A t \in Lanes : Event(d, "c", NoRow, 1, t, TRUE) \in Events
  BY <1>1 DEF Event, Events, Images
<1>3. \A t \in Lanes : Event(d, "u", rowVer[d], rowVer[d] + 1, t, TRUE) \in Events
  BY <1>1 DEF Event, Events, Images
<1>4. Event(d, "d", rowVer[d], NoRow, "bulk", TRUE) \in Events
  BY <1>1 DEF Event, Events, Images
<1>5. ASSUME NEW k \in NoiseKinds PROVE NoiseEvent(d, k) \in Events
  <2>1. Event(d, "u", 1, 1, "bulk", TRUE) \in Events
    BY <1>1 DEF Event, Events, Images
  <2> QED
    BY <1>1, <2>1 DEF NoiseEvent, NoiseKinds, Events, Images
<1> QED
  BY <1>2, <1>3, <1>4, <1>5

-----------------------------------------------------------------------------
(* Type correctness *)

\* A counter of faults that is spent stays a natural number.
LEMMA SpendTyped ==
    ASSUME TypeOK, NEW f \in Faults, Spend(f)
    PROVE  budget' \in [Faults -> Nat]
BY DEF TypeOK, Spend

\* The topics are empty and nothing is read at the start.
LEMMA InitTypeOK == Init => TypeOK
BY NormalizerAssumption DEF Init, TypeOK

\* What a captured change does to the topic.
LEMMA CaptureTyped ==
    ASSUME TypeOK, NEW e \in Events, Capture(e),
           UNCHANGED <<committed, pos, toProduce, lane, dlq, dropped>>
    PROVE  /\ cdc' \in Seq(Events) /\ Len(cdc') = Len(cdc) + 1
           /\ \A n \in 1..Len(cdc) : cdc'[n] = cdc[n]
           /\ pos' \in 0..Len(cdc') /\ committed' \in 0..pos' /\ toProduce' \subseteq 1..pos'
           /\ lane' \in [Lanes -> Seq(1..Len(cdc'))]
           /\ dlq' \subseteq 1..Len(cdc') /\ dropped' \subseteq 1..Len(cdc')
<1>1. /\ cdc' \in Seq(Events) /\ Len(cdc') = Len(cdc) + 1
      /\ \A n \in 1..Len(cdc) : cdc'[n] = cdc[n]
  BY DEF TypeOK, Capture
<1>2. Len(cdc) \in Nat
  BY DEF TypeOK
<1>3. 1..Len(cdc) \subseteq 1..Len(cdc')
  BY <1>1, <1>2
<1>4. Seq(1..Len(cdc)) \subseteq Seq(1..Len(cdc'))
  BY <1>3, SeqMonotonic
<1>5. lane' \in [Lanes -> Seq(1..Len(cdc'))]
  BY <1>4 DEF TypeOK
<1>6. pos' \in 0..Len(cdc') /\ committed' \in 0..pos' /\ toProduce' \subseteq 1..pos'
  BY <1>1, <1>2 DEF TypeOK
<1>7. dlq' \subseteq 1..Len(cdc') /\ dropped' \subseteq 1..Len(cdc')
  BY <1>3 DEF TypeOK
<1> QED
  BY <1>1, <1>5, <1>6, <1>7

\* Every change of the source captures an event and leaves the loop alone.
LEMMA SourceCaptures ==
    ASSUME TypeOK, Source
    PROVE  /\ \E e \in Events : Capture(e)
           /\ UNCHANGED <<committed, pos, phase, toProduce, lane, dlq, dropped>>
           /\ rowVer' \in [Docs -> 0..MaxVersion] /\ rows' \subseteq Docs
           /\ budget' \in [Faults -> Nat]
<1>0. MaxVersion \in Nat \ {0}
  BY NormalizerAssumption
<1>1. ASSUME NEW d \in Docs, NEW t \in Lanes, Insert(d, t)
      PROVE  /\ \E e \in Events : Capture(e)
             /\ rowVer' \in [Docs -> 0..MaxVersion] /\ rows' \subseteq Docs
             /\ UNCHANGED <<committed, pos, phase, toProduce, lane, dlq, budget, dropped>>
  <2>1. rowVer' \in [Docs -> 0..MaxVersion] /\ rows' \subseteq Docs
    BY <1>0, <1>1 DEF Insert, TypeOK
  <2>2. \E e \in Events : Capture(e)
    BY <1>1, CapturedEvents DEF Insert
  <2> QED
    BY <1>1, <2>1, <2>2 DEF Insert
<1>2. ASSUME NEW d \in Docs, NEW t \in Lanes, Update(d, t)
      PROVE  /\ \E e \in Events : Capture(e)
             /\ rowVer' \in [Docs -> 0..MaxVersion] /\ rows' \subseteq Docs
             /\ UNCHANGED <<committed, pos, phase, toProduce, lane, dlq, budget, dropped>>
  <2>1. rowVer' \in [Docs -> 0..MaxVersion] /\ rows' \subseteq Docs
    BY <1>0, <1>2 DEF Update, TypeOK
  <2>2. \E e \in Events : Capture(e)
    BY <1>2, CapturedEvents DEF Update
  <2> QED
    BY <1>2, <2>1, <2>2 DEF Update
<1>3. ASSUME NEW d \in Docs, Delete(d)
      PROVE  /\ \E e \in Events : Capture(e)
             /\ rowVer' \in [Docs -> 0..MaxVersion] /\ rows' \subseteq Docs
             /\ UNCHANGED <<committed, pos, phase, toProduce, lane, dlq, budget, dropped>>
  BY <1>0, <1>3, CapturedEvents DEF Delete, TypeOK
<1>4. ASSUME NEW d \in Docs, NEW k \in Noise, AddNoise(d, k)
      PROVE  /\ \E e \in Events : Capture(e)
             /\ rowVer' \in [Docs -> 0..MaxVersion] /\ rows' \subseteq Docs
             /\ budget' \in [Faults -> Nat]
             /\ UNCHANGED <<committed, pos, phase, toProduce, lane, dlq, dropped>>
  <2>1. k \in NoiseKinds
    BY NormalizerAssumption
  <2>2. budget' \in [Faults -> Nat]
    BY <1>4, SpendTyped DEF AddNoise, Faults
  <2>3. \E e \in Events : Capture(e)
    BY <1>4, <2>1, CapturedEvents DEF AddNoise
  <2> QED
    BY <1>4, <2>2, <2>3 DEF AddNoise, src, TypeOK
<1>5. budget \in [Faults -> Nat]
  BY DEF TypeOK
<1> QED
  BY <1>1, <1>2, <1>3, <1>4, <1>5 DEF Source

\* Every step keeps the types.
LEMMA StepTypeOK == TypeOK /\ [Next]_vars => TypeOK'
<1> SUFFICES ASSUME TypeOK, [Next]_vars PROVE TypeOK'
  OBVIOUS
<1>1. CASE Source
  <2>1. PICK e \in Events : Capture(e)
    BY <1>1, SourceCaptures
  <2>2. /\ UNCHANGED <<committed, pos, phase, toProduce, lane, dlq, dropped>>
        /\ rowVer' \in [Docs -> 0..MaxVersion] /\ rows' \subseteq Docs
        /\ budget' \in [Faults -> Nat]
    BY <1>1, SourceCaptures
  <2>3. /\ cdc' \in Seq(Events)
        /\ pos' \in 0..Len(cdc') /\ committed' \in 0..pos' /\ toProduce' \subseteq 1..pos'
        /\ lane' \in [Lanes -> Seq(1..Len(cdc'))]
        /\ dlq' \subseteq 1..Len(cdc') /\ dropped' \subseteq 1..Len(cdc')
    BY <2>1, <2>2, CaptureTyped
  <2>4. phase' \in {"poll", "produce", "commit"}
    BY <2>2 DEF TypeOK
  <2> QED
    BY <2>2, <2>3, <2>4 DEF TypeOK
<1>2. ASSUME NEW n \in 1..(Len(cdc) - pos), Poll(n) PROVE TypeOK'
  <2>1. /\ pos' \in 0..Len(cdc) /\ committed \in 0..pos' /\ phase' \in {"produce", "commit"}
        /\ UNCHANGED <<rowVer, rows, cdc, committed, lane, dlq, budget, dropped>>
    BY <1>2 DEF Poll, TypeOK, src
  <2>2. toProduce' \subseteq 1..pos'
    BY <1>2 DEF Poll, Results, TypeOK
  <2> QED
    BY <2>1, <2>2 DEF TypeOK
<1>3. ASSUME NEW n \in toProduce, Produce(n) PROVE TypeOK'
  <2>1. n \in 1..Len(cdc)
    BY <1>3 DEF TypeOK
  <2>2. lane' \in [Lanes -> Seq(1..Len(cdc))]
    <3>1. \A l \in Lanes : lane[l] \in Seq(1..Len(cdc)) /\ Append(lane[l], n) \in Seq(1..Len(cdc))
      BY <2>1, AppendProperties DEF TypeOK
    <3> QED
      BY <1>3, <3>1 DEF Produce
  <2>3. dlq' \subseteq 1..Len(cdc) /\ toProduce' \subseteq 1..pos /\ phase' \in {"produce", "commit"}
    BY <1>3, <2>1 DEF Produce, TypeOK
  <2>4. UNCHANGED <<rowVer, rows, cdc, committed, pos, budget, dropped>>
    BY <1>3 DEF Produce, src
  <2> QED
    BY <2>2, <2>3, <2>4 DEF TypeOK
<1>4. CASE Commit
  BY <1>4 DEF Commit, TypeOK, src
<1>5. ASSUME NEW n \in 0..(Len(cdc) - pos), PollError(n) PROVE TypeOK'
  <2>1. budget' \in [Faults -> Nat]
    BY <1>5, SpendTyped DEF PollError, Faults
  <2>2. pos' \in 0..Len(cdc) /\ committed \in 0..pos' /\ toProduce \subseteq 1..pos'
    BY <1>5 DEF PollError, TypeOK
  <2>3. dropped' \subseteq 1..Len(cdc)
    BY <1>5 DEF PollError, TypeOK
  <2> QED
    BY <1>5, <2>1, <2>2, <2>3 DEF PollError, TypeOK, src
<1>6. CASE ProduceError
  <2>1. budget' \in [Faults -> Nat]
    BY <1>6, SpendTyped DEF ProduceError, Faults
  <2>2. dropped' \subseteq 1..Len(cdc)
    BY <1>6 DEF ProduceError, TypeOK
  <2> QED
    BY <1>6, <2>1, <2>2 DEF ProduceError, TypeOK, src
<1>7. CASE CommitError
  <2>1. budget' \in [Faults -> Nat]
    BY <1>7, SpendTyped DEF CommitError, Faults
  <2> QED
    BY <1>7, <2>1 DEF CommitError, TypeOK, src
<1>8. CASE Crash
  <2>1. budget' \in [Faults -> Nat]
    BY <1>8, SpendTyped DEF Crash, Faults
  <2>2. pos' \in 0..Len(cdc) /\ committed \in 0..pos'
    BY <1>8 DEF Crash, TypeOK
  <2> QED
    BY <1>8, <2>1, <2>2 DEF Crash, TypeOK, src
<1>9. CASE IdlePoll \/ UNCHANGED vars
  BY <1>9 DEF IdlePoll, vars, TypeOK
<1> QED
  BY <1>1, <1>2, <1>3, <1>4, <1>5, <1>6, <1>7, <1>8, <1>9 DEF Next, Loop, Failure

\* Type correctness: offsets stay within the topic, the committed one behind the
\* read position, and what is produced comes from events that were read.
THEOREM NormalizerTypes == Spec => []TypeOK
BY InitTypeOK, StepTypeOK, PTL DEF Spec

-----------------------------------------------------------------------------
(* No silent loss and the order on a lane *)

\* Topics only grow: what they hold stays at its place.
Grows ==
    /\ \A l \in Lanes : \A i \in DOMAIN lane[l] : i \in DOMAIN lane'[l] /\ lane'[l][i] = lane[l][i]
    /\ dlq \subseteq dlq' /\ dropped \subseteq dropped'
    /\ \A n \in 1..Len(cdc) : cdc'[n] = cdc[n]

\* Unchanged topics have grown, too.
LEMMA GrowsUnchanged ==
    ASSUME UNCHANGED <<cdc, lane, dlq>>, dropped \subseteq dropped'
    PROVE  Grows
BY DEF Grows

\* What is emitted stays emitted.
LEMMA EmittedKept ==
    ASSUME TypeOK, Grows, NEW n \in 1..Len(cdc), Emitted(n)
    PROVE  Emitted(n)'
<1> DEFINE t == Destination(cdc[n])
<1>1. cdc[n] \in Events /\ t \in {"none", "dlq"} \cup Lanes
  BY DestinationRange DEF TypeOK
<1>2. Destination(cdc'[n]) = t
  BY DEF Grows
<1>3. CASE t = "none"
  BY <1>2, <1>3 DEF Emitted
<1>4. CASE t = "dlq"
  BY <1>2, <1>4 DEF Emitted, Grows
<1>5. CASE t \in Lanes
  <2>1. Contains(lane[t], n)
    BY <1>5 DEF Emitted, Lanes
  <2>2. Contains(lane'[t], n)
    BY <1>5, <2>1 DEF Contains, Grows, TypeOK
  <2> QED
    BY <1>2, <1>5, <2>2 DEF Emitted, Lanes
<1> QED
  BY <1>1, <1>3, <1>4, <1>5

\* Events that were taken care of stay so.
LEMMA HandledKept ==
    ASSUME TypeOK, Grows, NEW n \in 1..Len(cdc), Emitted(n) \/ n \in dropped
    PROVE  Emitted(n)' \/ n \in dropped'
BY EmittedKept DEF Grows

\* With the lanes as they are, their order does not change.
LEMMA OrderKept ==
    ASSUME TypeOK, Grows, UNCHANGED lane, LanesInOrder
    PROVE  LanesInOrder'
<1> SUFFICES ASSUME NEW l \in Lanes, NEW j \in DOMAIN lane[l], NEW m \in 1..(lane[l][j] - 1),
                    cdc'[m].doc = cdc'[lane[l][j]].doc, Destination(cdc'[m]) = l
             PROVE  m \in dropped' \/ \E i \in 1..(j - 1) : lane[l][i] = m
  BY DEF LanesInOrder
<1>1. lane[l][j] \in 1..Len(cdc) /\ Len(cdc) \in Nat
  BY DEF TypeOK
<1>2. m \in 1..Len(cdc)
  BY <1>1
<1>3. cdc'[m] = cdc[m] /\ cdc'[lane[l][j]] = cdc[lane[l][j]]
  BY <1>1, <1>2 DEF Grows
<1>4. m \in dropped \/ \E i \in 1..(j - 1) : lane[l][i] = m
  BY <1>3 DEF LanesInOrder
<1> QED
  BY <1>4 DEF Grows

\* A record that is delivered is emitted, and the topics grow by it.
LEMMA ProduceEmits ==
    ASSUME TypeOK, NEW n \in toProduce, Produce(n)
    PROVE  /\ Grows /\ Emitted(n)'
           /\ \A l \in Lanes : lane'[l] = IF l = Destination(cdc[n]) THEN Append(lane[l], n)
                                          ELSE lane[l]
<1> DEFINE t == Destination(cdc[n])
<1>0. n \in 1..Len(cdc) /\ UNCHANGED <<cdc, dropped>>
  BY DEF TypeOK, Produce
<1>1. t \in {"none", "dlq"} \cup Lanes
  BY <1>0, DestinationRange DEF TypeOK
<1>2. \A l \in Lanes : lane'[l] = IF l = t THEN Append(lane[l], n) ELSE lane[l]
  BY DEF Produce
<1>3. \A l \in Lanes : /\ lane[l] \in Seq(1..Len(cdc))
                       /\ Len(Append(lane[l], n)) = Len(lane[l]) + 1
                       /\ \A i \in 1..Len(lane[l]) : Append(lane[l], n)[i] = lane[l][i]
                       /\ Append(lane[l], n)[Len(lane[l]) + 1] = n
  BY <1>0, AppendProperties DEF TypeOK
<1>4. ASSUME NEW l \in Lanes, NEW i \in DOMAIN lane[l]
      PROVE  i \in DOMAIN lane'[l] /\ lane'[l][i] = lane[l][i]
  <2>1. CASE l = t
    <3>1. lane'[l] = Append(lane[l], n)
      BY <1>2, <2>1
    <3>2. Append(lane[l], n) \in Seq(1..Len(cdc)) /\ i \in 1..Len(lane[l])
      BY <1>0, <1>3, AppendProperties
    <3>3. i \in DOMAIN Append(lane[l], n)
      BY <1>3, <3>2
    <3> QED
      BY <1>3, <3>1, <3>2, <3>3
  <2>2. CASE l # t
    BY <1>2, <2>2
  <2> QED
    BY <2>1, <2>2
<1>5. Grows
  BY <1>0, <1>4 DEF Grows, Produce
<1>6. Emitted(n)'
  <2>1. CASE t = "none"
    BY <1>0, <2>1 DEF Emitted
  <2>2. CASE t = "dlq"
    BY <1>0, <2>2 DEF Emitted, Produce
  <2>3. CASE t \in Lanes
    <3>1. lane'[t] = Append(lane[t], n) /\ Append(lane[t], n) \in Seq(1..Len(cdc))
      BY <1>0, <1>2, <1>3, <2>3, AppendProperties
    <3>2. Len(lane[t]) + 1 \in 1..Len(lane'[t]) /\ lane'[t][Len(lane[t]) + 1] = n
      BY <1>3, <2>3, <3>1
    <3>3. Contains(lane'[t], n)
      BY <3>2 DEF Contains
    <3> QED
      BY <1>0, <2>3, <3>3 DEF Emitted, Lanes
  <2> QED
    BY <1>1, <2>1, <2>2, <2>3
<1> QED
  BY <1>2, <1>5, <1>6

\* The next record of a lane comes after the earlier changes of its document:
\* they were read, the producer holds none of them back, so they were emitted
\* to the lane or given up.
LEMMA ProduceInOrder ==
    ASSUME TypeOK, LoopInv, NEW n \in toProduce, Produce(n)
    PROVE  LanesInOrder'
<1> DEFINE t == Destination(cdc[n])
<1>0. UNCHANGED <<cdc, dropped>> /\ n \in 1..pos /\ pos \in Nat /\ pos <= Len(cdc)
  BY DEF Produce, TypeOK
<1>1. \A l \in Lanes : lane'[l] = IF l = t THEN Append(lane[l], n) ELSE lane[l]
  BY ProduceEmits
<1> SUFFICES ASSUME NEW l \in Lanes, NEW j \in DOMAIN lane'[l], NEW m \in 1..(lane'[l][j] - 1),
                    cdc[m].doc = cdc[lane'[l][j]].doc, Destination(cdc[m]) = l
             PROVE  m \in dropped \/ \E i \in 1..(j - 1) : lane'[l][i] = m
  BY <1>0 DEF LanesInOrder
<1>2. CASE l # t
  <2>1. lane'[l] = lane[l]
    BY <1>1, <1>2
  <2> QED
    BY <2>1 DEF LoopInv, LanesInOrder
<1>3. CASE l = t
  <2> DEFINE q == lane[l]
  <2>1. /\ q \in Seq(1..Len(cdc)) /\ lane'[l] = Append(q, n) /\ Len(q) \in Nat
        /\ Append(q, n) \in Seq(1..Len(cdc)) /\ Len(Append(q, n)) = Len(q) + 1
        /\ \A i \in 1..Len(q) : Append(q, n)[i] = q[i]
        /\ Append(q, n)[Len(q) + 1] = n
    <3>1. q \in Seq(1..Len(cdc)) /\ n \in 1..Len(cdc) /\ Len(q) \in Nat
      BY <1>0 DEF TypeOK
    <3>2. lane'[l] = Append(q, n)
      BY <1>1, <1>3
    <3> QED
      BY <3>1, <3>2, AppendProperties
  <2>2. j \in 1..(Len(q) + 1)
    BY <2>1
  <2>3. CASE j \in 1..Len(q)
    <3>1. lane'[l][j] = q[j]
      BY <2>1, <2>3
    <3>2. m \in dropped \/ \E i \in 1..(j - 1) : q[i] = m
      <4>1. j \in DOMAIN lane[l] /\ m \in 1..(lane[l][j] - 1) /\ cdc[m].doc = cdc[lane[l][j]].doc
        BY <2>1, <2>3, <3>1
      <4> QED
        BY <4>1 DEF LoopInv, LanesInOrder
    <3>3. \A i \in 1..(j - 1) : lane'[l][i] = q[i]
      BY <2>1, <2>3
    <3> QED
      BY <3>2, <3>3
  <2>4. CASE j = Len(q) + 1
    <3>1. lane'[l][j] = n
      BY <2>1, <2>4
    <3>2. m \in 1..pos /\ m < n /\ cdc[m].doc = cdc[n].doc
      BY <1>0, <3>1
    <3>3. m \notin toProduce
      BY <1>3, <3>2 DEF Produce, Deliverable
    <3>4. Emitted(m) \/ m \in dropped
      BY <3>2, <3>3 DEF LoopInv, ReturnedInHand
    <3>5. Emitted(m) => \E i \in 1..Len(q) : q[i] = m
      BY DEF Emitted, Contains, Lanes
    <3>6. \A i \in 1..Len(q) : i \in 1..(j - 1) /\ lane'[l][i] = q[i]
      BY <2>1, <2>4
    <3> QED
      BY <3>4, <3>5, <3>6
  <2> QED
    BY <2>1, <2>2, <2>3, <2>4
<1> QED
  BY <1>2, <1>3

\* Every step keeps the invariant.
LEMMA StepLoopInv == TypeOK /\ LoopInv /\ [Next]_vars => LoopInv'
<1> SUFFICES ASSUME TypeOK, LoopInv, [Next]_vars PROVE LoopInv'
  OBVIOUS
<1>0. pos \in Nat /\ committed \in Nat /\ committed <= pos /\ pos <= Len(cdc) /\ Len(cdc) \in Nat
  BY DEF TypeOK
<1>a. ASSUME Grows PROVE \A n \in 1..committed : Emitted(n)' \/ n \in dropped'
  BY <1>0, <1>a, HandledKept DEF LoopInv, LossesLogged
<1>b. ASSUME Grows, phase # "produce" PROVE \A n \in 1..pos : Emitted(n)' \/ n \in dropped'
  BY <1>0, <1>b, HandledKept DEF LoopInv, ReturnedInHand, NothingPending
<1>1. CASE Source
  <2>1. PICK e \in Events : Capture(e)
    BY <1>1, SourceCaptures
  <2>2. UNCHANGED <<committed, pos, phase, toProduce, lane, dlq, dropped>>
    BY <1>1, SourceCaptures
  <2>3. Grows
    BY <2>1, <2>2, CaptureTyped DEF Grows
  <2>4. LossesLogged'
    BY <1>a, <2>2, <2>3 DEF LossesLogged
  <2>5. ReturnedInHand'
    BY <1>0, <2>2, <2>3, HandledKept DEF LoopInv, ReturnedInHand
  <2>6. LanesInOrder'
    BY <2>2, <2>3, OrderKept DEF LoopInv
  <2> QED
    BY <2>2, <2>4, <2>5, <2>6 DEF LoopInv, NothingPending
<1>2. ASSUME NEW n \in 1..(Len(cdc) - pos), Poll(n) PROVE LoopInv'
  <2>1. /\ pos' = pos + n /\ toProduce' = Results(pos, pos + n) /\ phase = "poll"
        /\ UNCHANGED <<cdc, committed, lane, dlq, dropped>>
    BY <1>2 DEF Poll
  <2>2. Grows
    BY <2>1, GrowsUnchanged
  <2>3. ReturnedInHand'
    <3> SUFFICES ASSUME NEW m \in 1..(pos + n)
                 PROVE  Emitted(m)' \/ m \in dropped' \/ m \in toProduce'
      BY <2>1 DEF ReturnedInHand
    <3>1. CASE m \in 1..pos
      BY <1>b, <2>1, <2>2, <3>1
    <3>2. CASE m \in (pos + 1)..(pos + n)
      <4>1. CASE Destination(cdc[m]) = "none"
        BY <2>1, <4>1 DEF Emitted
      <4>2. CASE Destination(cdc[m]) # "none"
        BY <2>1, <3>2, <4>2 DEF Results
      <4> QED
        BY <4>1, <4>2
    <3> QED
      BY <1>0, <3>1, <3>2
  <2>4. NothingPending'
    BY <1>2 DEF Poll, NothingPending
  <2>5. LossesLogged'
    BY <1>a, <2>1, <2>2 DEF LossesLogged
  <2>6. LanesInOrder'
    BY <2>1, <2>2, OrderKept DEF LoopInv
  <2> QED
    BY <2>3, <2>4, <2>5, <2>6 DEF LoopInv
<1>3. ASSUME NEW n \in toProduce, Produce(n) PROVE LoopInv'
  <2>1. Grows /\ Emitted(n)' /\ LanesInOrder'
    BY <1>3, ProduceEmits, ProduceInOrder
  <2>2. UNCHANGED <<cdc, committed, pos, dropped>> /\ toProduce' = toProduce \ {n}
    BY <1>3 DEF Produce
  <2>3. ReturnedInHand'
    <3> SUFFICES ASSUME NEW m \in 1..pos
                 PROVE  Emitted(m)' \/ m \in dropped' \/ m \in toProduce'
      BY <2>2 DEF ReturnedInHand
    <3>1. Emitted(m) \/ m \in dropped \/ m \in toProduce
      BY DEF LoopInv, ReturnedInHand
    <3>2. CASE m \in toProduce
      BY <2>1, <2>2, <3>2
    <3>3. CASE Emitted(m) \/ m \in dropped
      BY <1>0, <2>1, <3>3, HandledKept
    <3> QED
      BY <3>1, <3>2, <3>3
  <2>4. NothingPending'
    BY <1>3 DEF Produce, NothingPending
  <2>5. LossesLogged'
    BY <1>a, <2>1, <2>2 DEF LossesLogged
  <2> QED
    BY <2>1, <2>3, <2>4, <2>5 DEF LoopInv
<1>4. CASE Commit
  <2>1. /\ committed' = pos /\ phase = "commit" /\ phase' = "poll"
        /\ UNCHANGED <<cdc, pos, toProduce, lane, dlq, dropped>>
    BY <1>4 DEF Commit
  <2>2. Grows
    BY <2>1, GrowsUnchanged
  <2>3. LossesLogged'
    BY <1>b, <2>1, <2>2 DEF LossesLogged
  <2>4. ReturnedInHand'
    BY <1>b, <2>1, <2>2 DEF ReturnedInHand
  <2>5. LanesInOrder'
    BY <2>1, <2>2, OrderKept DEF LoopInv
  <2> QED
    BY <2>1, <2>3, <2>4, <2>5 DEF LoopInv, NothingPending
<1>5. ASSUME NEW n \in 0..(Len(cdc) - pos), PollError(n) PROVE LoopInv'
  <2>1. /\ pos' = pos + n /\ dropped' = dropped \cup (pos + 1)..(pos + n) /\ phase = "poll"
        /\ UNCHANGED <<cdc, committed, phase, toProduce, lane, dlq>>
    BY <1>5 DEF PollError
  <2>2. Grows
    BY <2>1, GrowsUnchanged
  <2>3. ReturnedInHand'
    BY <1>0, <1>b, <2>1, <2>2 DEF ReturnedInHand
  <2>4. LossesLogged'
    BY <1>a, <2>1, <2>2 DEF LossesLogged
  <2>5. LanesInOrder'
    BY <2>1, <2>2, OrderKept DEF LoopInv
  <2> QED
    BY <2>1, <2>3, <2>4, <2>5 DEF LoopInv, NothingPending
<1>6. CASE ProduceError
  <2>1. /\ dropped' = dropped \cup toProduce /\ toProduce' = {} /\ phase' = "poll"
        /\ UNCHANGED <<cdc, committed, pos, lane, dlq>>
    BY <1>6 DEF ProduceError
  <2>2. Grows
    BY <2>1, GrowsUnchanged
  <2>3. ReturnedInHand'
    BY <1>0, <2>1, <2>2, HandledKept DEF LoopInv, ReturnedInHand
  <2>4. LossesLogged'
    BY <1>a, <2>1, <2>2 DEF LossesLogged
  <2>5. LanesInOrder'
    BY <2>1, <2>2, OrderKept DEF LoopInv
  <2> QED
    BY <2>1, <2>3, <2>4, <2>5 DEF LoopInv, NothingPending
<1>7. CASE CommitError
  <2>1. phase = "commit" /\ UNCHANGED <<cdc, committed, pos, toProduce, lane, dlq, dropped>>
    BY <1>7 DEF CommitError
  <2>2. Grows
    BY <2>1, GrowsUnchanged
  <2>3. ReturnedInHand'
    BY <1>b, <2>1, <2>2 DEF ReturnedInHand
  <2>4. LossesLogged'
    BY <1>a, <2>1, <2>2 DEF LossesLogged
  <2>5. LanesInOrder'
    BY <2>1, <2>2, OrderKept DEF LoopInv
  <2> QED
    BY <2>1, <2>3, <2>4, <2>5 DEF LoopInv, NothingPending
<1>8. CASE Crash
  <2>1. /\ pos' = committed /\ toProduce' = {} /\ phase' = "poll"
        /\ UNCHANGED <<cdc, committed, lane, dlq, dropped>>
    BY <1>8 DEF Crash
  <2>2. Grows
    BY <2>1, GrowsUnchanged
  <2>3. LossesLogged' /\ ReturnedInHand'
    BY <1>a, <2>1, <2>2 DEF LossesLogged, ReturnedInHand
  <2>5. LanesInOrder'
    BY <2>1, <2>2, OrderKept DEF LoopInv
  <2> QED
    BY <2>1, <2>3, <2>5 DEF LoopInv, NothingPending
<1>9. CASE IdlePoll \/ UNCHANGED vars
  <2>1. UNCHANGED <<cdc, committed, pos, phase, toProduce, lane, dlq, dropped>>
    BY <1>9 DEF IdlePoll, vars
  <2> QED
    BY <2>1 DEF LoopInv, ReturnedInHand, LossesLogged, NothingPending, LanesInOrder, Emitted
<1> QED
  BY <1>1, <1>2, <1>3, <1>4, <1>5, <1>6, <1>7, <1>8, <1>9 DEF Next, Loop, Failure

\* The invariant of the loop, kept together with the types.
LEMMA LoopKept == Spec => [](TypeOK /\ LoopInv)
<1>1. Init => TypeOK /\ LoopInv
  <2>1. Init => LoopInv
    BY DEF Init, LoopInv, ReturnedInHand, LossesLogged, NothingPending, LanesInOrder
  <2> QED
    BY <2>1, InitTypeOK
<1>2. TypeOK /\ LoopInv /\ [Next]_vars => TypeOK' /\ LoopInv'
  BY StepTypeOK, StepLoopInv
<1> QED
  BY <1>1, <1>2, PTL DEF Spec

\* No silent loss, over any sequence of polls, errors, lost commits and crashes
\* of the loop of main: whatever is below the committed offset was emitted or
\* belongs to a fetch or produce error that was logged.
THEOREM NoSilentLoss == Spec => []LossesLogged
<1>1. LoopInv => LossesLogged
  BY DEF LoopInv
<1> QED
  BY <1>1, LoopKept, PTL

\* The changes of a document keep their order on a lane, also when a batch is
\* delivered in part, given up or read again.
THEOREM OrderOnLanes == Spec => []LanesInOrder
<1>1. LoopInv => LanesInOrder
  BY DEF LoopInv
<1> QED
  BY <1>1, LoopKept, PTL
=============================================================================
