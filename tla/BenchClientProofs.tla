-------------------------- MODULE BenchClientProofs --------------------------
(***************************************************************************)
(* For every set of callers and every limit, the benchmark client's        *)
(* counter is the number of its requests in flight, and never exceeds the  *)
(* limit.                                                                  *)
(***************************************************************************)
EXTENDS BenchReport, FiniteSetTheorems, WellFoundedInduction, TLAPS

\* What the steps preserve: the counter is only right while it is the
\* cardinality of Busy, and stays in Nat for the same reason.
IInv == TypeOK /\ SlotsMatchRequests

\* The callers are finitely many, so those with a request in flight are.
LEMMA BusyIsFinite == IsFiniteSet(Busy) /\ IsFiniteSet(Busy')
<1>1. Busy \subseteq Callers /\ Busy' \subseteq Callers
  BY DEF Busy
<1> QED
  BY <1>1, CallersAssumption, FS_Subset

\* A caller that leaves request() leaves Busy, and the counter follows.
LEMMA LeavingReturnsTheSlot ==
  ASSUME IInv, NEW c \in Callers, NEW how \in Answers,
         stage[c] # "idle", Leave(c, how), size' \in [Callers -> Nat]
  PROVE  IInv'
<1>1. stage' = [stage EXCEPT ![c] = "idle"] /\ active' = active - 1 /\ peak' = peak
  BY DEF Leave
<1>2. Busy' = Busy \ {c} /\ c \in Busy
  BY <1>1 DEF IInv, TypeOK, Busy, Stages
<1>3. Cardinality(Busy') = Cardinality(Busy) - 1
  BY <1>2, BusyIsFinite, FS_RemoveElement
<1>4. Cardinality(Busy') \in Nat
  BY BusyIsFinite, FS_CardinalityType
<1>5. active' = Cardinality(Busy')
  BY <1>1, <1>3 DEF IInv, SlotsMatchRequests
<1>6. SlotsMatchRequests'
  BY <1>1, <1>5, LimitsAssumption DEF IInv, SlotsMatchRequests, TypeOK
<1>7. stage' \in [Callers -> Stages]
  BY <1>1 DEF IInv, TypeOK, Stages
<1>8. answer' \in [Callers -> Answers]
  BY DEF Leave, IInv, TypeOK
<1> QED
  BY <1>1, <1>4, <1>5, <1>6, <1>7, <1>8 DEF IInv, TypeOK

\* A caller that awaits the next thing stays in Busy.
LEMMA AwaitingKeepsTheSlot ==
  ASSUME IInv, NEW c \in Callers, NEW next \in Stages \ {"idle"},
         stage[c] # "idle", Await(c, next), size' \in [Callers -> Nat]
  PROVE  IInv'
<1>1. stage' = [stage EXCEPT ![c] = next]
  BY DEF Await
<1>2. Busy' = Busy
  BY <1>1 DEF IInv, TypeOK, Busy
<1> QED
  BY <1>1, <1>2 DEF IInv, TypeOK, SlotsMatchRequests, Await

\* Nothing but the size of a body and an answer changes.
LEMMA KeepingTheSlots ==
  ASSUME IInv, UNCHANGED <<active, peak, stage>>,
         size' \in [Callers -> Nat], answer' \in [Callers -> Answers]
  PROVE  IInv'
  BY DEF IInv, TypeOK, SlotsMatchRequests, Busy

LEMMA Initially == Init => IInv
<1> SUFFICES ASSUME Init PROVE IInv
  OBVIOUS
<1>1. Busy = {}
  BY DEF Init, Busy
<1>2. Cardinality(Busy) = 0
  BY <1>1, FS_EmptySet
<1> QED
  BY <1>2, LimitsAssumption DEF Init, IInv, TypeOK, SlotsMatchRequests, Stages, Answers, NoBody

LEMMA Inductive == IInv /\ [Next]_vars => IInv'
<1> SUFFICES ASSUME IInv, [Next]_vars PROVE IInv'
  OBVIOUS
<1>1. ASSUME NEW c \in Callers, Full(c) PROVE IInv'
  <2>1. size' \in [Callers -> Nat] /\ answer' \in [Callers -> Answers]
    BY <1>1 DEF Full, IInv, TypeOK, Answers, NoBody
  <2> QED
    BY <1>1, <2>1, KeepingTheSlots DEF Full
<1>2. ASSUME NEW c \in Callers, Refuse(c) PROVE IInv'
  <2>1. size' \in [Callers -> Nat] /\ answer' \in [Callers -> Answers]
    BY <1>2 DEF Refuse, IInv, TypeOK, Answers, NoBody
  <2> QED
    BY <1>2, <2>1, KeepingTheSlots DEF Refuse
<1>3. ASSUME NEW c \in Callers, Begin(c) PROVE IInv'
  <2>1. Busy' = Busy \cup {c} /\ c \notin Busy
    BY <1>3 DEF Begin, IInv, TypeOK, Busy, Stages
  <2>2. Cardinality(Busy') = Cardinality(Busy) + 1
    BY <2>1, BusyIsFinite, FS_AddElement
  <2>3. active' = Cardinality(Busy')
    BY <1>3, <2>2 DEF Begin, IInv, SlotsMatchRequests
  <2>4. active' <= Capacity /\ active' \in Nat
    BY <1>3, LimitsAssumption DEF Begin, IInv, TypeOK
  <2>5. active' <= peak' /\ peak' <= Capacity /\ peak' \in Nat
    BY <1>3, <2>4, LimitsAssumption DEF Begin, IInv, TypeOK, SlotsMatchRequests
  <2>6. stage' \in [Callers -> Stages]
    BY <1>3 DEF Begin, IInv, TypeOK, Stages
  <2>7. size' \in [Callers -> Nat] /\ answer' \in [Callers -> Answers]
    BY <1>3 DEF Begin, IInv, TypeOK, Answers, NoBody
  <2> QED
    BY <2>3, <2>4, <2>5, <2>6, <2>7 DEF IInv, TypeOK, SlotsMatchRequests
<1>4. ASSUME NEW c \in Callers, Connected(c) PROVE IInv'
  <2>1. "drain" \in Stages \ {"idle"} /\ size' \in [Callers -> Nat]
    BY <1>4 DEF Connected, IInv, TypeOK, Stages
  <2> QED
    BY <1>4, <2>1, AwaitingKeepsTheSlot DEF Connected
<1>5. ASSUME NEW c \in Callers, Drained(c) PROVE IInv'
  <2>1. "head" \in Stages \ {"idle"} /\ size' \in [Callers -> Nat]
    BY <1>5 DEF Drained, IInv, TypeOK, Stages
  <2> QED
    BY <1>5, <2>1, AwaitingKeepsTheSlot DEF Drained
<1>6. ASSUME NEW c \in Callers, Head(c) PROVE IInv'
  <2>1. size' \in [Callers -> Nat]
    BY <1>6, LimitsAssumption DEF Head, IInv, TypeOK
  <2>2. PICK next \in {"chunk", "stream", "length"} : Await(c, next)
    BY <1>6 DEF Head
  <2>3. next \in Stages \ {"idle"} /\ stage[c] # "idle"
    BY <1>6 DEF Head, Stages
  <2> QED
    BY <2>1, <2>2, <2>3, AwaitingKeepsTheSlot
<1>7. ASSUME NEW c \in Callers, NoStatus(c) \/ Length(c) \/ Fail(c) \/ Expire(c) \/ Cancel(c)
      PROVE  IInv'
  <2>1. PICK how \in Answers : Leave(c, how)
    BY <1>7 DEF NoStatus, Length, Fail, Expire, Cancel, Answers
  <2>2. stage[c] # "idle" /\ size' \in [Callers -> Nat]
    BY <1>7 DEF NoStatus, Length, Fail, Expire, Cancel, IInv, TypeOK
  <2> QED
    BY <2>1, <2>2, LeavingReturnsTheSlot
<1>8. ASSUME NEW c \in Callers, Chunk(c) \/ Stream(c) PROVE IInv'
  <2>1. stage[c] # "idle"
    BY <1>8 DEF Chunk, Stream
  <2>2. size' \in [Callers -> Nat]
    BY <1>8, LimitsAssumption DEF Chunk, Stream, IInv, TypeOK
  <2>3. \/ \E how \in Answers : Leave(c, how)
        \/ UNCHANGED <<active, peak, stage, answer>>
    BY <1>8 DEF Chunk, Stream, Answers
  <2>4. CASE \E how \in Answers : Leave(c, how)
    BY <2>1, <2>2, <2>4, LeavingReturnsTheSlot
  <2>5. CASE UNCHANGED <<active, peak, stage, answer>>
    BY <2>2, <2>5, KeepingTheSlots DEF IInv, TypeOK
  <2> QED
    BY <2>3, <2>4, <2>5
<1>9. CASE UNCHANGED vars
  BY <1>9, KeepingTheSlots DEF vars, IInv, TypeOK
<1> QED
  BY <1>1, <1>2, <1>3, <1>4, <1>5, <1>6, <1>7, <1>8, <1>9 DEF Next

\* Type correctness of the benchmark client: above all, `active' never falls
\* below zero, so no way out of Client.request returns a slot it did not take.
THEOREM ClientTypeCorrect == Spec => []TypeOK
<1>1. IInv => TypeOK
  BY DEF IInv
<1> QED
  BY <1>1, Initially, Inductive, PTL DEF Spec

\* SlotsMatchRequests for any callers and limit: Client.active counts the
\* requests in flight through timeouts, errors and cancellations.
THEOREM SlotsAreReturned == Spec => []SlotsMatchRequests
<1>1. IInv => SlotsMatchRequests
  BY DEF IInv
<1> QED
  BY <1>1, Initially, Inductive, PTL DEF Spec

-----------------------------------------------------------------------------
(* The ceiling of a body needs no count of slots: each step keeps it for the *)
(* caller that takes it, and no step touches another caller's body.          *)

Capped(c) ==
  /\ size[c] <= MaxBody + 1
  /\ (stage[c] # "idle" \/ answer[c] = "response") => size[c] <= MaxBody

LEMMA BodiesStayCapped == TypeOK /\ BodiesCapped /\ [Next]_vars => BodiesCapped'
<1> SUFFICES ASSUME TypeOK, BodiesCapped, [Next]_vars, NEW d \in Callers
             PROVE  Capped(d)'
  BY DEF BodiesCapped, Capped
<1>0. Capped(d) /\ size[d] \in Nat
  BY DEF BodiesCapped, Capped, TypeOK
<1>1. ASSUME NEW c \in Callers, Full(c) \/ Refuse(c) \/ Begin(c) PROVE Capped(d)'
  <2>1. CASE c = d
    BY <1>1, <2>1, LimitsAssumption DEF Full, Refuse, Begin, TypeOK, Capped, NoBody
  <2>2. CASE c # d
    BY <1>0, <1>1, <2>2 DEF Full, Refuse, Begin, TypeOK, Capped
  <2> QED
    BY <2>1, <2>2
<1>2. ASSUME NEW c \in Callers, Connected(c) \/ Drained(c) PROVE Capped(d)'
  BY <1>0, <1>2 DEF Connected, Drained, Await, TypeOK, Capped
<1>3. ASSUME NEW c \in Callers, NoStatus(c) \/ Length(c) \/ Fail(c) \/ Expire(c) \/ Cancel(c)
      PROVE  Capped(d)'
  BY <1>0, <1>3 DEF NoStatus, Length, Fail, Expire, Cancel, Leave, TypeOK, Capped
<1>4. ASSUME NEW c \in Callers, Head(c) PROVE Capped(d)'
  BY <1>0, <1>4, LimitsAssumption DEF Head, Await, TypeOK, Capped
<1>5. ASSUME NEW c \in Callers, Chunk(c) PROVE Capped(d)'
  BY <1>0, <1>5, LimitsAssumption DEF Chunk, Leave, TypeOK, Capped
<1>6. ASSUME NEW c \in Callers, Stream(c) PROVE Capped(d)'
  <2>1. CASE Leave(c, "response") /\ UNCHANGED size
    BY <1>0, <1>6, <2>1 DEF Stream, Leave, TypeOK, Capped
  <2>2. CASE \E amount \in 1 .. ReadSize :
               /\ size[c] + amount <= MaxBody + 1
               /\ size' = [size EXCEPT ![c] = @ + amount]
               /\ IF size[c] + amount > MaxBody
                    THEN Leave(c, "transport")
                    ELSE UNCHANGED <<active, peak, stage, answer>>
    <3>1. PICK amount \in 1 .. ReadSize :
               /\ size[c] + amount <= MaxBody + 1
               /\ size' = [size EXCEPT ![c] = @ + amount]
               /\ IF size[c] + amount > MaxBody
                    THEN Leave(c, "transport")
                    ELSE UNCHANGED <<active, peak, stage, answer>>
      BY <2>2
    <3>2. amount \in Nat /\ MaxBody \in Nat /\ size[c] \in Nat
      BY <3>1, LimitsAssumption DEF TypeOK
    <3>3. CASE size[c] + amount > MaxBody
      BY <1>0, <3>1, <3>2, <3>3 DEF Leave, TypeOK, Capped
    <3>4. CASE ~(size[c] + amount > MaxBody)
      BY <1>0, <3>1, <3>2, <3>4 DEF TypeOK, Capped
    <3> QED
      BY <3>3, <3>4
  <2> QED
    BY <1>6, <2>1, <2>2 DEF Stream
<1>7. CASE UNCHANGED vars
  BY <1>0, <1>7 DEF vars, Capped
<1> QED
  BY <1>1, <1>2, <1>3, <1>4, <1>5, <1>6, <1>7 DEF Next

\* BodiesCapped for any ceiling and any callers: whichever way a body is
\* delimited, no response is larger, and one byte more is all that is held.
THEOREM ResponsesAreCapped == Spec => []BodiesCapped
<1>1. Init => BodiesCapped
  BY LimitsAssumption DEF Init, BodiesCapped, NoBody
<1>2. IInv => TypeOK
  BY DEF IInv
<1> QED
  BY <1>1, <1>2, Initially, Inductive, BodiesStayCapped, PTL DEF Spec

-----------------------------------------------------------------------------
(* The client with its series. *)

\* The series only watches: each of its steps is one of the client, or leaves
\* the client alone.
LEMMA SeriesOnlyWatches == [ReportNext]_reportVars => [Next]_vars
<1> SUFFICES ASSUME [ReportNext]_reportVars PROVE [Next]_vars
  OBVIOUS
<1>1. CASE UNCHANGED reportVars
  BY <1>1 DEF reportVars
<1>2. ASSUME NEW c \in Callers, NoReceipt(c) PROVE UNCHANGED vars
  BY <1>2 DEF NoReceipt
<1>3. ASSUME NEW c \in Callers,
             \/ Full(c) \/ Length(c) \/ Chunk(c) \/ Stream(c) \/ Fail(c) \/ Expire(c)
             \/ Refuse(c) \/ Begin(c) \/ Connected(c) \/ Drained(c) \/ NoStatus(c)
             \/ Head(c) \/ Cancel(c)
      PROVE  Next
  BY <1>3 DEF Next
<1> QED
  BY <1>1, <1>2, <1>3 DEF ReportNext

\* SlotsMatchRequests and BodiesCapped of the client whose answers Series
\* counts, for any number of followed responses, buckets and quantiles.
THEOREM ReportedClientIsSound == ReportSpec => []SlotsMatchRequests /\ []BodiesCapped
<1>1. ReportInit => Init
  BY DEF ReportInit
<1>2. Init => BodiesCapped
  BY LimitsAssumption DEF Init, BodiesCapped, NoBody
<1>3. IInv => TypeOK /\ SlotsMatchRequests
  BY DEF IInv
<1> QED
  BY <1>1, <1>2, <1>3, Initially, Inductive, BodiesStayCapped, SeriesOnlyWatches,
     PTL DEF ReportSpec

\* What a step keeps of the types of the series.
LEMMA CountingKeepsTypes ==
  ASSUME SeriesOK, NEW label \in Labels \cup {"valid"}, NEW e \in Elapsed, Add(label, e)
  PROVE  SeriesOK'
<1>1. Bucket(e) \in 0 .. Overflow
  BY SeriesAssumption DEF Bucket, Overflow, Elapsed
<1>2. CASE label = "valid"
  BY <1>1, <1>2 DEF Add, SeriesOK
<1>3. CASE label # "valid"
  BY <1>3 DEF Add, SeriesOK
<1> QED
  BY <1>2, <1>3

\* Whatever ends a request with an answer gives one the series has a label for.
LEMMA AnswersHaveLabels ==
  ASSUME TypeOK, NEW c \in Callers, Answered(c),
         \/ Full(c) \/ Length(c) \/ Chunk(c) \/ Stream(c) \/ Fail(c) \/ Expire(c)
  PROVE  LabelsOf(answer'[c]) \subseteq Labels \cup {"valid"}
<1>1. stage'[c] = "idle"
  BY DEF Answered
<1>2. CASE Full(c)
  BY <1>2 DEF Full, TypeOK, LabelsOf, Labels
<1>3. CASE Length(c) \/ Fail(c) \/ Expire(c)
  BY <1>3 DEF Length, Fail, Expire, Leave, TypeOK, LabelsOf, Labels
<1>4. CASE Chunk(c)
  BY <1>1, <1>4 DEF Chunk, Leave, TypeOK, LabelsOf, Labels
<1>5. CASE Stream(c)
  <2>1. CASE stage' = stage
    BY <1>1, <1>5, <2>1 DEF Stream
  <2>2. CASE \E how \in {"response", "transport"} : Leave(c, how)
    BY <2>2 DEF Leave, TypeOK, LabelsOf, Labels
  <2> QED
    BY <1>5, <2>1, <2>2 DEF Stream
<1> QED
  BY <1>2, <1>3, <1>4, <1>5

\* Whatever else a step does, it leaves the series alone or adds one answer to it.
LEMMA StepsAddAnswers ==
  ASSUME TypeOK, SeriesOK, [ReportNext]_reportVars
  PROVE  \/ UNCHANGED series
         \/ \E label \in Labels \cup {"valid"} : \E e \in Elapsed : Add(label, e)
<1>2. ASSUME NEW c \in Callers, Answered(c),
             \/ Full(c) \/ Length(c) \/ Chunk(c) \/ Stream(c) \/ Fail(c) \/ Expire(c)
      PROVE  \/ UNCHANGED series
             \/ \E label \in Labels \cup {"valid"} : \E e \in Elapsed : Add(label, e)
  <2>1. LabelsOf(answer'[c]) \subseteq Labels \cup {"valid"}
    BY <1>2, AnswersHaveLabels
  <2>2. CASE completed < MaxResponses
    <3>1. PICK label \in LabelsOf(answer'[c]) : \E e \in ElapsedOf(label) : Add(label, e)
      BY <1>2, <2>2 DEF Answered, Count
    <3>2. ElapsedOf(label) \subseteq Elapsed
      BY SeriesAssumption DEF ElapsedOf, Elapsed
    <3> QED
      BY <2>1, <3>1, <3>2
  <2>3. CASE ~(completed < MaxResponses)
    BY <1>2, <2>3 DEF Answered, Count
  <2> QED
    BY <2>2, <2>3
<1>3. ASSUME NEW c \in Callers, NoReceipt(c)
      PROVE  \E label \in Labels \cup {"valid"} : \E e \in Elapsed : Add(label, e)
  <2>1. "no_receipt" \in Labels /\ 0 \in Elapsed
    BY SeriesAssumption DEF Labels, Elapsed
  <2> QED
    BY <1>3, <2>1 DEF NoReceipt
<1> QED
  BY <1>2, <1>3 DEF ReportNext, Unanswered, reportVars, series

\* The series is well typed whatever the client answers and however long it
\* took: a latency without a bucket would end the phase in an exception.
THEOREM SeriesTypeCorrect == ReportSpec => []SeriesOK
<1>1. ReportInit => Init /\ SeriesOK
  BY SeriesAssumption DEF ReportInit, SeriesOK, Overflow, Elapsed
<1>2. ASSUME TypeOK, SeriesOK, [ReportNext]_reportVars PROVE SeriesOK'
  <2>1. CASE UNCHANGED series
    BY <1>2, <2>1 DEF series, SeriesOK
  <2> QED
    BY <1>2, <2>1, StepsAddAnswers, CountingKeepsTypes
<1>3. IInv => TypeOK
  BY DEF IInv
<1> QED
  BY <1>1, <1>2, <1>3, Initially, Inductive, SeriesOnlyWatches, PTL DEF ReportSpec

-----------------------------------------------------------------------------
(* What the counts of the series add up to. *)

(* Finitely many counts stand for finitely many units. *)
LEMMA UnitsAreFinite ==
  ASSUME NEW I, NEW counts \in [I -> Nat], NEW S \in SUBSET I, IsFiniteSet(S)
  PROVE  IsFiniteSet(Units(counts, S)) /\ Total(counts, S) \in Nat
<1> DEFINE Of(i) == {<<i, n>> : n \in 1 .. counts[i]}
           f == [i \in S |-> Of(i)]
           All == {Of(i) : i \in S}
<1>1. ASSUME NEW i \in S
      PROVE  IsFiniteSet(Of(i))
  <2>1. counts[i] \in Int /\ 1 \in Int
    OBVIOUS
  <2>4. IsFiniteSet(1 .. counts[i])
    BY <2>1, FS_Interval
  <2>5. IsFiniteSet({i})
    BY FS_Singleton
  <2>2. IsFiniteSet({i} \X (1 .. counts[i]))
    BY <2>4, <2>5, FS_Product
  <2>3. Of(i) \subseteq {i} \X (1 .. counts[i])
    OBVIOUS
  <2> QED
    BY <2>2, <2>3, FS_Subset
<1>2. f \in Surjection(S, All)
  BY DEF Surjection
<1>3. IsFiniteSet(All)
  BY <1>2, FS_Surjection
<1>4. \A T \in All : IsFiniteSet(T)
  BY <1>1
<1>5. IsFiniteSet(UNION All)
  BY <1>3, <1>4, FS_UNION
<1>6. IsFiniteSet(Units(counts, S))
  BY <1>5 DEF Units
<1> QED
  BY <1>6, FS_CardinalityType DEF Total

(* One more at k makes one unit more of the counts that k is among. *)
LEMMA OneMore ==
  ASSUME NEW I, NEW S \in SUBSET I, IsFiniteSet(S)
  PROVE  \A counts \in [I -> Nat], k \in I :
           Total([counts EXCEPT ![k] = @ + 1], S)
             = IF k \in S THEN Total(counts, S) + 1 ELSE Total(counts, S)
<1> TAKE counts \in [I -> Nat], k \in I
<1> DEFINE more == [counts EXCEPT ![k] = @ + 1]
           new == <<k, counts[k] + 1>>
<1>1. more[k] = counts[k] + 1 /\ \A i \in I \ {k} : more[i] = counts[i]
  OBVIOUS
<1>2. \A i \in I : counts[i] \in Nat
  OBVIOUS
<1> HIDE DEF more
<1> SUFFICES Total(more, S) = IF k \in S THEN Total(counts, S) + 1 ELSE Total(counts, S)
  BY DEF more
<1>3. CASE k \in S
  <2>1. Units(more, S) = Units(counts, S) \cup {new}
    <3>1. ASSUME NEW u \in Units(more, S)
          PROVE  u \in Units(counts, S) \cup {new}
      <4>1. PICK i \in S : \E n \in 1 .. more[i] : u = <<i, n>>
        BY DEF Units
      <4>2. PICK n \in 1 .. more[i] : u = <<i, n>>
        BY <4>1
      <4>3. n \in 1 .. counts[i] \/ (i = k /\ n = counts[k] + 1)
        BY <1>1, <1>2
      <4>4. n \in 1 .. counts[i] => u \in Units(counts, S)
        BY <4>2 DEF Units
      <4> QED
        BY <4>2, <4>3, <4>4
    <3>2. ASSUME NEW u \in Units(counts, S)
          PROVE  u \in Units(more, S)
      <4>1. PICK i \in S : \E n \in 1 .. counts[i] : u = <<i, n>>
        BY DEF Units
      <4>2. PICK n \in 1 .. counts[i] : u = <<i, n>>
        BY <4>1
      <4>3. n \in 1 .. more[i]
        BY <1>1, <1>2
      <4> QED
        BY <4>2, <4>3 DEF Units
    <3>3. new \in Units(more, S)
      <4>1. counts[k] + 1 \in 1 .. more[k]
        BY <1>1, <1>2
      <4> QED
        BY <1>3, <4>1 DEF Units
    <3> QED
      BY <3>1, <3>2, <3>3
  <2>2. new \notin Units(counts, S)
    <3>1. SUFFICES ASSUME NEW i \in S, NEW n \in 1 .. counts[i], new = <<i, n>> PROVE FALSE
      BY DEF Units
    <3> QED
      BY <1>2, <3>1
  <2>3. IsFiniteSet(Units(counts, S))
    BY UnitsAreFinite
  <2> QED
    BY <1>3, <2>1, <2>2, <2>3, FS_AddElement DEF Total
<1>4. CASE k \notin S
  <2>1. \A i \in S : more[i] = counts[i]
    BY <1>1, <1>4
  <2>2. Units(more, S) = Units(counts, S)
    BY <2>1 DEF Units
  <2> QED
    BY <1>4, <2>2 DEF Total
<1> QED
  BY <1>3, <1>4

(* No counts, no units. *)
LEMMA NoUnits ==
  ASSUME NEW counts, NEW S, \A i \in S : counts[i] = 0
  PROVE  Total(counts, S) = 0
<1>1. Units(counts, S) = {}
  BY DEF Units
<1> QED
  BY <1>1, FS_EmptySet DEF Total

\* A valid response is in the buckets up to b when, and only when, it took at
\* most b milliseconds, and every answer is in a bucket or under a label.
Tallied ==
  /\ \A b \in 0 .. Last : Within(b) = TookAtMost(b)
  /\ Within(Overflow) = success /\ TookAtMost(Overflow) = success
  /\ completed = success + Total(errors, Labels)

LEMMA FiniteRanges ==
  /\ IsFiniteSet(Labels)
  /\ \A b \in 0 .. Overflow : /\ IsFiniteSet(0 .. b) /\ 0 .. b \subseteq 0 .. Overflow
                              /\ IsFiniteSet(0 .. 2 * b) /\ 0 .. 2 * b \subseteq Elapsed
<1>1. IsFiniteSet(Labels)
  <2> DEFINE Two(a, b) == {a} \cup {b}
  <2>1. \A a, b : IsFiniteSet(Two(a, b))
    BY FS_Singleton, FS_Union
  <2>2. Labels = Two("capacity", "timeout") \cup
                   (Two("transport", "http") \cup Two("invalid", "no_receipt"))
    BY DEF Labels
  <2> HIDE DEF Two
  <2>3. IsFiniteSet(Two("transport", "http") \cup Two("invalid", "no_receipt"))
    BY <2>1, FS_Union
  <2> QED
    BY <2>1, <2>2, <2>3, FS_Union
<1>2. ASSUME NEW b \in 0 .. Overflow
      PROVE  /\ IsFiniteSet(0 .. b) /\ 0 .. b \subseteq 0 .. Overflow
             /\ IsFiniteSet(0 .. 2 * b) /\ 0 .. 2 * b \subseteq Elapsed
  <2>1. b \in Nat /\ 2 * b \in Nat /\ Overflow \in Nat
    BY SeriesAssumption DEF Overflow
  <2>2. IsFiniteSet(0 .. b) /\ IsFiniteSet(0 .. 2 * b)
    BY <2>1, FS_Interval
  <2> QED
    BY <2>1, <2>2, SeriesAssumption DEF Overflow, Elapsed
<1> QED
  BY <1>1, <1>2

LEMMA CountingKeepsTally ==
  ASSUME SeriesOK, Tallied, NEW label \in Labels \cup {"valid"}, NEW e \in Elapsed, Add(label, e)
  PROVE  Tallied'
<1>1. CASE label = "valid"
  <2>1. /\ completed' = completed + 1 /\ success' = success + 1 /\ errors' = errors
        /\ buckets' = [buckets EXCEPT ![Bucket(e)] = @ + 1]
        /\ took' = [took EXCEPT ![e] = @ + 1]
    BY <1>1 DEF Add
  <2>2. Bucket(e) \in 0 .. Overflow /\ Overflow \in 0 .. Overflow /\ Last \in 0 .. Overflow
    BY SeriesAssumption DEF Bucket, Overflow, Elapsed
  <2>3. \A b \in 0 .. Last : Bucket(e) \in 0 .. b <=> e \in 0 .. 2 * b
    BY SeriesAssumption DEF Bucket, Overflow, Elapsed
  <2>4. e \in 0 .. 2 * Overflow
    BY SeriesAssumption DEF Overflow, Elapsed
  <2>5. \A b \in 0 .. Overflow :
          /\ Total(buckets', 0 .. b)
               = IF Bucket(e) \in 0 .. b THEN Total(buckets, 0 .. b) + 1 ELSE Total(buckets, 0 .. b)
          /\ Total(took', 0 .. 2 * b)
               = IF e \in 0 .. 2 * b THEN Total(took, 0 .. 2 * b) + 1 ELSE Total(took, 0 .. 2 * b)
    <3> SUFFICES ASSUME NEW b \in 0 .. Overflow
                 PROVE  /\ Total(buckets', 0 .. b) = IF Bucket(e) \in 0 .. b
                             THEN Total(buckets, 0 .. b) + 1 ELSE Total(buckets, 0 .. b)
                        /\ Total(took', 0 .. 2 * b) = IF e \in 0 .. 2 * b
                             THEN Total(took, 0 .. 2 * b) + 1 ELSE Total(took, 0 .. 2 * b)
      OBVIOUS
    <3>1. /\ IsFiniteSet(0 .. b) /\ 0 .. b \in SUBSET (0 .. Overflow)
          /\ IsFiniteSet(0 .. 2 * b) /\ 0 .. 2 * b \in SUBSET Elapsed
      BY FiniteRanges
    <3>2. buckets \in [0 .. Overflow -> Nat] /\ took \in [Elapsed -> Nat]
      BY DEF SeriesOK
    <3>3. Total(buckets', 0 .. b) = IF Bucket(e) \in 0 .. b
                             THEN Total(buckets, 0 .. b) + 1 ELSE Total(buckets, 0 .. b)
      <4>1. \A counts \in [0 .. Overflow -> Nat], k \in 0 .. Overflow :
              Total([counts EXCEPT ![k] = @ + 1], 0 .. b)
                = IF k \in 0 .. b THEN Total(counts, 0 .. b) + 1 ELSE Total(counts, 0 .. b)
        BY <3>1, OneMore
      <4> QED
        BY <2>1, <2>2, <3>2, <4>1
    <3>4. Total(took', 0 .. 2 * b) = IF e \in 0 .. 2 * b
                             THEN Total(took, 0 .. 2 * b) + 1 ELSE Total(took, 0 .. 2 * b)
      <4>1. \A counts \in [Elapsed -> Nat], k \in Elapsed :
              Total([counts EXCEPT ![k] = @ + 1], 0 .. 2 * b)
                = IF k \in 0 .. 2 * b THEN Total(counts, 0 .. 2 * b) + 1
                                      ELSE Total(counts, 0 .. 2 * b)
        <5> DEFINE ms == 0 .. 2 * b
        <5>1. IsFiniteSet(ms) /\ ms \in SUBSET Elapsed
          BY <3>1
        <5> HIDE DEF ms
        <5>2. \A counts \in [Elapsed -> Nat], k \in Elapsed :
                Total([counts EXCEPT ![k] = @ + 1], ms)
                  = IF k \in ms THEN Total(counts, ms) + 1 ELSE Total(counts, ms)
          BY <5>1, OneMore
        <5> QED
          BY <5>2 DEF ms
      <4> QED
        BY <2>1, <3>2, <4>1
    <3> QED
      BY <3>3, <3>4
  <2>6. \A b \in 0 .. Last : b \in 0 .. Overflow
    BY SeriesAssumption DEF Overflow
  <2>7. \A b \in 0 .. Last : Within(b)' = TookAtMost(b)'
    BY <2>3, <2>5, <2>6 DEF Tallied, Within, TookAtMost
  <2>8. Within(Overflow)' = success' /\ TookAtMost(Overflow)' = success'
    BY <2>1, <2>2, <2>4, <2>5 DEF Tallied, Within, TookAtMost
  <2>9. completed' = success' + Total(errors', Labels)
    <3>1. Total(errors, Labels) \in Nat /\ success \in Nat
      BY FiniteRanges, UnitsAreFinite DEF SeriesOK
    <3> QED
      BY <2>1, <3>1 DEF Tallied
  <2> QED
    BY <2>7, <2>8, <2>9 DEF Tallied
<1>2. CASE label # "valid"
  <2>1. /\ completed' = completed + 1 /\ UNCHANGED <<success, buckets, took>>
        /\ errors' = [errors EXCEPT ![label] = @ + 1] /\ label \in Labels
    BY <1>2 DEF Add
  <2>2. Total(errors', Labels) = Total(errors, Labels) + 1
    <3>1. IsFiniteSet(Labels) /\ Labels \in SUBSET Labels /\ errors \in [Labels -> Nat]
      BY FiniteRanges DEF SeriesOK
    <3> QED
      <4>1. \A counts \in [Labels -> Nat], k \in Labels :
              Total([counts EXCEPT ![k] = @ + 1], Labels) = Total(counts, Labels) + 1
        BY <3>1, OneMore
      <4> QED
        BY <2>1, <3>1, <4>1
  <2>3. Total(errors, Labels) \in Nat /\ success \in Nat
    <3>1. IsFiniteSet(Labels) /\ Labels \in SUBSET Labels /\ errors \in [Labels -> Nat]
      BY FiniteRanges DEF SeriesOK
    <3> QED
      BY <3>1, UnitsAreFinite DEF SeriesOK
  <2> QED
    BY <2>1, <2>2, <2>3 DEF Tallied, Within, TookAtMost
<1> QED
  BY <1>1, <1>2

-----------------------------------------------------------------------------
(* The quantiles. *)

(* n is at most w times d when, and only when, n divided by d and rounded up is
   at most w. *)
LEMMA RoundingUp ==
  ASSUME NEW n \in Nat, NEW d \in Nat, d > 0, NEW w \in Nat
  PROVE  w >= (n + d - 1) \div d <=> w * d >= n
<1> DEFINE q == (n + d - 1) \div d
<1>1. q \in Nat /\ q * d <= n + d - 1 /\ n + d - 1 < q * d + d
  OBVIOUS
<1> HIDE DEF q
<1>2. ASSUME w >= q PROVE w * d >= n
  <2>1. PICK k \in Nat : w = q + k
    BY <1>1, <1>2
  <2>2. w * d = q * d + k * d /\ k * d >= 0
    BY <1>1, <2>1
  <2> QED
    BY <1>1, <2>2
<1>3. ASSUME w < q PROVE w * d < n
  <2>1. PICK k \in Nat : q = w + 1 + k
    BY <1>1, <1>3
  <2>2. q * d = w * d + d + k * d /\ k * d >= 0
    BY <1>1, <2>1
  <2> QED
    BY <1>1, <2>2
<1> QED
  BY <1>1, <1>2, <1>3 DEF q

(* A set of naturals that is not empty has a least element, and Min is it. *)
LEMMA MinIsLeast ==
  ASSUME NEW S \in SUBSET Nat, S # {}
  PROVE  Min(S) \in S /\ \A x \in S : Min(S) <= x
<1>1. PICK x \in S : \A y \in S : ~(<<y, x>> \in OpToRel(<, Nat))
  BY NatLessThanWellFounded, WFMin
<1>3. \A y, z \in Nat : y < z => <<y, z>> \in OpToRel(<, Nat)
  BY DEF OpToRel
<1>2. ASSUME NEW y \in S PROVE x <= y
  <2>1. x \in Nat /\ y \in Nat
    OBVIOUS
  <2>2. ~(y < x)
    BY <1>1, <1>3, <2>1, Zenon
  <2> QED
    BY <2>1, <2>2
<1> QED
  BY <1>2 DEF Min

LEMMA TallyMakesTight == SeriesOK /\ Tallied => QuantilesAreTight
<1> SUFFICES ASSUME SeriesOK, Tallied, NEW f \in Fractions
             PROVE  LET valid == TookAtMost(Overflow)
                        Enough(ms) == TookAtMost(ms) * f[2] >= valid * f[1]
                        q == Quantile(f)
                    IN IF q = None
                         THEN valid = 0 \/ ~Enough(Last)
                         ELSE Enough(q) /\ (q > 0 => ~Enough(q - 1))
  BY DEF QuantilesAreTight
<1> DEFINE Enough(ms) == TookAtMost(ms) * f[2] >= success * f[1]
           reached == {b \in 0 .. Overflow : Within(b) >= Rank(f)}
<1>1. /\ f[1] \in Nat /\ f[2] \in Nat /\ 0 < f[1] /\ f[1] <= f[2]
      /\ success \in Nat /\ Last \in Nat /\ Overflow = Last + 1
  BY SeriesAssumption DEF SeriesOK, Overflow
<1>2. TookAtMost(Overflow) = success /\ Within(Overflow) = success
  BY DEF Tallied
<1>3. \A b \in 0 .. Overflow : Within(b) \in Nat
  BY FiniteRanges, UnitsAreFinite DEF SeriesOK, Within
<1>4. success * f[1] \in Nat
  BY <1>1
<1>5. \A b \in 0 .. Overflow : b \in reached <=> Within(b) * f[2] >= success * f[1]
  BY <1>1, <1>3, <1>4, RoundingUp DEF Rank
<1>6. \A b \in 0 .. Last : b \in reached <=> Enough(b)
  BY <1>1, <1>5 DEF Tallied
<1>7. Overflow \in reached
  <2>3. f[2] - f[1] \in Nat /\ f[2] = f[1] + (f[2] - f[1])
    BY <1>1
  <2>1. PICK k \in Nat : f[2] = f[1] + k
    BY <2>3
  <2>2. success * f[2] = success * f[1] + success * k /\ success * k >= 0
    BY <1>1, <2>1
  <2> QED
    BY <1>1, <1>2, <1>4, <1>5, <2>2
<1> DEFINE least == Min(reached)
<1>8. least \in 0 .. Overflow /\ least \in reached /\ \A b \in reached : least <= b
  BY <1>1, <1>7, MinIsLeast
<1> HIDE DEF reached, Enough
<1>9. Quantile(f) = IF success = 0 \/ least = Overflow THEN None ELSE least
  BY DEF Quantile, reached
<1> HIDE DEF least
<1>10. CASE success = 0
  BY <1>2, <1>9, <1>10
<1>11. CASE success # 0 /\ least = Overflow
  <2>1. Last \notin reached /\ Last \in 0 .. Last
    BY <1>1, <1>8, <1>11
  <2> QED
    BY <1>2, <1>6, <1>9, <1>11, <2>1 DEF Enough
<1>12. CASE success # 0 /\ least # Overflow
  <2>1. least \in 0 .. Last /\ Enough(least) /\ Quantile(f) = least /\ least # None
    BY <1>1, <1>6, <1>8, <1>9, <1>12 DEF None
  <2>2. ASSUME least > 0 PROVE ~Enough(least - 1)
    <3>1. least - 1 \in 0 .. Last /\ least - 1 \notin reached
      BY <1>1, <1>8, <2>1, <2>2
    <3> QED
      BY <1>6, <3>1
  <2> QED
    BY <1>2, <2>1, <2>2 DEF Enough
<1> QED
  BY <1>10, <1>11, <1>12

-----------------------------------------------------------------------------
(* The reports of a benchmark. *)

LEMMA TalliedInitially == ReportInit => Tallied
<1> SUFFICES ASSUME ReportInit PROVE Tallied
  OBVIOUS
<1>1. \A b \in 0 .. Overflow : Within(b) = 0 /\ TookAtMost(b) = 0
  BY FiniteRanges, NoUnits DEF ReportInit, Within, TookAtMost
<1>2. Total(errors, Labels) = 0
  BY NoUnits DEF ReportInit
<1>3. Overflow \in 0 .. Overflow /\ \A b \in 0 .. Last : b \in 0 .. Overflow
  BY SeriesAssumption DEF Overflow
<1> QED
  BY <1>1, <1>2, <1>3 DEF ReportInit, Tallied

LEMMA StepsKeepTally == TypeOK /\ SeriesOK /\ Tallied /\ [ReportNext]_reportVars => Tallied'
<1> SUFFICES ASSUME TypeOK, SeriesOK, Tallied, [ReportNext]_reportVars PROVE Tallied'
  OBVIOUS
<1>1. CASE UNCHANGED series
  BY <1>1 DEF series, Tallied, Within, TookAtMost
<1> QED
  BY <1>1, StepsAddAnswers, CountingKeepsTally

\* QuantilesAreTight for every number of buckets, every set of quantiles and
\* every run of responses: the number a report prints for a quantile is the
\* least whole millisecond within which that share of the valid responses
\* came, and no failed response moves it.
THEOREM QuantilesAreHonest == ReportSpec => []QuantilesAreTight
<1>1. IInv => TypeOK
  BY DEF IInv
<1>2. ReportInit => Init
  BY DEF ReportInit
<1> QED
  BY <1>1, <1>2, Initially, Inductive, SeriesOnlyWatches, SeriesTypeCorrect, TalliedInitially,
     StepsKeepTally, TallyMakesTight, PTL DEF ReportSpec

\* AnswersAddUp: the parts of a report are counts of different answers, and
\* none is missing, so that its rates and its errors can be compared.
THEOREM AnswersAreCounted == ReportSpec => []AnswersAddUp
<1>1. IInv => TypeOK
  BY DEF IInv
<1>2. ReportInit => Init
  BY DEF ReportInit
<1>3. Tallied => AnswersAddUp
  BY DEF Tallied, AnswersAddUp
<1> QED
  BY <1>1, <1>2, <1>3, Initially, Inductive, SeriesOnlyWatches, SeriesTypeCorrect,
     TalliedInitially, StepsKeepTally, PTL DEF ReportSpec
=============================================================================
