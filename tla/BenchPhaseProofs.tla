--------------------------- MODULE BenchPhaseProofs --------------------------
(***************************************************************************)
(* The safety properties of a measured phase for any actors, periods and   *)
(* durations.  The arithmetic of the schedule is that of whole periods:    *)
(* the slot an actor is at is its first plus as many periods as it has     *)
(* completed and missed.                                                   *)
(***************************************************************************)
EXTENDS BenchPhase, FiniteSetTheorems, TLAPS

Counted(a) == completed[a] + missed[a]

\* The schedule of one actor.  An actor that is over has passed the deadline;
\* the last slot it counted is before the deadline, or at it and missed.
Schedule(a) ==
  /\ due[a] = first[a] + Counted(a) * Every[a]
  /\ stage[a] \in {"sleep", "busy"} => due[a] < Deadline
  /\ stage[a] = "over" =>
       /\ due[a] >= Deadline
       /\ Counted(a) > 0 =>
            \/ due[a] - Every[a] < Deadline
            \/ due[a] - Every[a] = Deadline /\ missed[a] > 0

\* No operation begins later than Lag after its slot, none takes longer than
\* Longest.
Timing(a) ==
  stage[a] = "busy" => begun[a] <= due[a] + Lag /\ clock <= begun[a] + Longest

Latest(a) == stage[a] = "sleep" => clock <= due[a] + Lag

\* sampling_done is set when the load is over, and stays so.
Ending ==
  /\ sampled => AllOver \/ AnyRaised
  /\ sampler = "ended" => sampled
  /\ outcome = "done" => verified = receipts /\ AllOver

IInv ==
  /\ TypeOK
  /\ \A a \in Actors : Schedule(a) /\ Timing(a) /\ Latest(a)
  /\ clock <= Deadline + Lag + Longest
  /\ Ending

-----------------------------------------------------------------------------
(* Arithmetic of periods. *)

LEMMA Division ==
  ASSUME NEW x \in Nat, NEW e \in Nat \ {0}
  PROVE  /\ x \div e \in Nat
         /\ (x \div e) * e <= x
         /\ x < (x \div e) * e + e
  OBVIOUS

LEMMA Product ==
  ASSUME NEW i \in Nat, NEW e \in Nat
  PROVE  i * e \in Nat
  OBVIOUS

LEMMA Distributes ==
  ASSUME NEW i \in Int, NEW j \in Int, NEW e \in Nat
  PROVE  (i + j) * e = i * e + j * e
  OBVIOUS

LEMMA Successor ==
  ASSUME NEW i \in Nat, NEW e \in Nat
  PROVE  (1 + i) * e = i * e + e /\ i * e \in Nat /\ (1 + i) * e \in Nat
  OBVIOUS

LEMMA Predecessor ==
  ASSUME NEW i \in Nat, NEW e \in Nat
  PROVE  (i - 1) * e = i * e - e /\ i * e \in Nat
  OBVIOUS

LEMMA TwoMore ==
  ASSUME NEW i \in Nat, NEW e \in Nat
  PROVE  /\ i * e \in Nat
         /\ (i + 1) * e = i * e + e
         /\ (1 + (i + 1)) * e = i * e + e + e
  OBVIOUS

LEMMA Monotonic ==
  ASSUME NEW i \in Int, NEW j \in Int, NEW e \in Nat, i <= j
  PROVE  i * e <= j * e
  OBVIOUS

LEMMA Remainder ==
  ASSUME NEW i \in Int, NEW e \in Nat \ {0}
  PROVE  (i * e) % e = 0
  OBVIOUS

\* What the code skips: whole slots, none of them after the deadline, and all
\* that have passed.
LEMMA SkippedWhole ==
  ASSUME TypeOK, NEW a \in Actors
  PROVE  /\ Skipped(a) \in Nat
         /\ Skipped(a) > 0 => due[a] + Skipped(a) * Every[a] <= Deadline
         /\ due[a] + (1 + Skipped(a)) * Every[a] < Deadline
              => clock <= due[a] + (1 + Skipped(a)) * Every[a]
<1> DEFINE e == Every[a]
           next == due[a] + e
           last == IF clock < Deadline THEN clock ELSE Deadline
           q == (last - next) \div e
<1>1. e \in Nat \ {0} /\ next \in Nat /\ last \in Nat /\ last <= Deadline
  BY PhaseAssumption DEF TypeOK
<1>2. CASE clock > next /\ next < Deadline
  <2>1. last - next \in Nat
    BY <1>1, <1>2, PhaseAssumption DEF TypeOK
  <2>2. q \in Nat /\ q * e <= last - next /\ last - next < q * e + e
    BY <1>1, <2>1, Division
  <2>3. Skipped(a) = q + 1
    BY <1>2 DEF Skipped
  <2>4. (q + 1) * e = q * e + e /\ (1 + (q + 1)) * e = q * e + e + e /\ q * e \in Nat
    BY <1>1, <2>2, TwoMore
  <2>5. Skipped(a) * Every[a] = q * e + e /\ (1 + Skipped(a)) * Every[a] = q * e + e + e
    BY <2>3, <2>4
  <2> DEFINE r == q * e
  <2>6. r \in Nat /\ r <= last - next /\ last - next < r + e
    BY <2>2, <2>4
  <2>7. due[a] + (r + e) <= Deadline
    <3> HIDE DEF r, q
    <3> QED
      BY <1>1, <2>6, PhaseAssumption DEF TypeOK
  <2>8. due[a] + (r + e + e) > last
    <3> HIDE DEF r, q
    <3> QED
      BY <1>1, <2>6, PhaseAssumption DEF TypeOK
  <2>9. due[a] + (r + e + e) < Deadline => clock <= due[a] + (r + e + e)
    <3> HIDE DEF r, q
    <3> QED
      BY <1>1, <2>6, <2>8, PhaseAssumption DEF TypeOK
  <2> QED
    BY <2>2, <2>3, <2>5, <2>7, <2>9
<1>3. CASE ~(clock > next /\ next < Deadline)
  <2>1. Skipped(a) = 0 /\ (1 + 0) * e = e
    BY <1>1, <1>3 DEF Skipped
  <2> QED
    BY <1>1, <1>3, <2>1, PhaseAssumption DEF TypeOK
<1> QED
  BY <1>2, <1>3

\* The slots of the schedule are as many as the first one that is not before
\* the deadline.
LEMMA SlotCount ==
  ASSUME TypeOK, NEW a \in Actors, NEW n \in Nat,
         first[a] + n * Every[a] >= Deadline,
         n > 0 => first[a] + (n - 1) * Every[a] < Deadline
  PROVE  Cardinality(SlotsOf(a)) = n
<1> DEFINE e == Every[a]
<1>1. e \in Nat \ {0} /\ first[a] \in Nat /\ Deadline \in Nat
  BY PhaseAssumption DEF TypeOK
<1>2. ASSUME NEW k \in Nat, first[a] + k * e < Deadline PROVE k < n
  <2> SUFFICES ASSUME n <= k PROVE FALSE
    OBVIOUS
  <2>1. n * e <= k * e /\ n * e \in Nat /\ k * e \in Nat
    BY <1>1, Monotonic, Product
  <2> QED
    BY <1>1, <1>2, <2>1
<1>3. ASSUME NEW k \in 0 .. n - 1 PROVE first[a] + k * e < Deadline
  <2>1. k * e <= (n - 1) * e /\ k * e \in Nat /\ (n - 1) * e \in Nat
    BY <1>1, Monotonic, Product
  <2> QED
    BY <1>1, <2>1
<1>4. ASSUME NEW k \in 0 .. n - 1 PROVE k \in 0 .. Deadline
  <2>1. k * 1 <= k * e
    BY <1>1
  <2>2. k <= k * e /\ k * e \in Nat
    BY <1>1, <2>1, Product
  <2> QED
    BY <1>1, <1>3, <2>2
<1>5. SlotsOf(a) = 0 .. n - 1
  BY <1>1, <1>2, <1>3, <1>4 DEF SlotsOf
<1> QED
  BY <1>5, FS_Interval

\* So an actor that is over has counted each slot once.
LEMMA OverIsAccounted ==
  ASSUME TypeOK, NEW a \in Actors, Schedule(a), stage[a] = "over"
  PROVE  \/ Counted(a) = Cardinality(SlotsOf(a))
         \/ /\ SlotAtDeadline(a) /\ missed[a] > 0
            /\ Counted(a) = Cardinality(SlotsOf(a)) + 1
<1> DEFINE e == Every[a]
           n == Counted(a)
<1>1. e \in Nat \ {0} /\ first[a] \in Nat /\ Deadline \in Nat /\ n \in Nat /\ due[a] \in Nat
  BY PhaseAssumption DEF TypeOK, Counted
<1>2. due[a] = first[a] + n * e /\ due[a] >= Deadline
  BY DEF Schedule
<1>3. n > 0 => (n - 1) * e = n * e - e
  BY <1>1, Predecessor
<1>a. n * e \in Nat
  BY <1>1, Product
<1>4. CASE n > 0 => due[a] - e < Deadline
  <2>1. n > 0 => first[a] + (n - 1) * e < Deadline
    BY <1>1, <1>2, <1>3, <1>4, <1>a
  <2> HIDE DEF n
  <2>2. Cardinality(SlotsOf(a)) = n
    BY <1>1, <1>2, <2>1, SlotCount
  <2> QED
    BY <2>2 DEF n
<1>5. CASE n > 0 /\ due[a] - e = Deadline /\ missed[a] > 0
  <2>1. first[a] + (n - 1) * e = Deadline /\ n - 1 \in Nat
    BY <1>1, <1>2, <1>3, <1>5, <1>a
  <2>2. n - 1 > 0 => first[a] + (n - 1 - 1) * e < Deadline
    <3> SUFFICES ASSUME n - 1 > 0 PROVE first[a] + (n - 1 - 1) * e < Deadline
      OBVIOUS
    <3>1. (n - 1 - 1) * e = (n - 1) * e - e /\ (n - 1) * e \in Nat
      BY <1>1, <2>1, Predecessor
    <3> QED
      BY <1>1, <2>1, <3>1
  <2>3. Cardinality(SlotsOf(a)) = n - 1
    <3> DEFINE m == n - 1
    <3>1. m \in Nat /\ first[a] + m * e >= Deadline /\ (m > 0 => first[a] + (m - 1) * e < Deadline)
      BY <1>1, <2>1, <2>2
    <3> HIDE DEF m
    <3>2. Cardinality(SlotsOf(a)) = m
      BY <3>1, SlotCount
    <3> QED
      BY <3>2 DEF m
  <2>4. Deadline - first[a] = (n - 1) * e
    <3>1. (n - 1) * e \in Nat
      BY <1>1, <2>1, Product
    <3> QED
      BY <1>1, <2>1, <3>1
  <2>5. SlotAtDeadline(a)
    BY <1>1, <2>1, <2>4, Remainder DEF SlotAtDeadline
  <2> HIDE DEF n
  <2>6. n = Cardinality(SlotsOf(a)) + 1
    BY <1>1, <2>3
  <2> QED
    BY <1>5, <2>5, <2>6 DEF n
<1> QED
  BY <1>4, <1>5 DEF Schedule

-----------------------------------------------------------------------------
(* The phase. *)

LEMMA Initially == Init => IInv
<1> SUFFICES ASSUME Init PROVE IInv
  OBVIOUS
<1>1. first \in [Actors -> Nat] /\ due = first
  BY PhaseAssumption DEF Init, FirstSlots
<1>2. TypeOK
  BY <1>1 DEF Init, TypeOK
<1>3. ASSUME NEW a \in Actors PROVE Schedule(a) /\ Timing(a) /\ Latest(a)
  <2>1. Counted(a) = 0 /\ 0 * Every[a] = 0
    BY PhaseAssumption DEF Init, Counted
  <2>2. due[a] = first[a] + Counted(a) * Every[a]
    BY <1>1, <2>1
  <2> QED
    BY <1>1, <2>1, <2>2, PhaseAssumption DEF Init, Schedule, Timing, Latest
<1>4. clock <= Deadline + Lag + Longest /\ Ending
  BY PhaseAssumption DEF Init, Ending
<1> QED
  BY <1>2, <1>3, <1>4 DEF IInv

LEMMA Inductive == IInv /\ [Next]_vars => IInv'
<1> SUFFICES ASSUME IInv, [Next]_vars PROVE IInv'
  OBVIOUS
<1>1. ASSUME NEW a \in Actors, Begin(a) PROVE IInv'
  <2>1. TypeOK'
    BY <1>1 DEF Begin, IInv, TypeOK
  <2>2. \A b \in Actors : Schedule(b)'
    BY <1>1 DEF Begin, IInv, TypeOK, Schedule, Counted
  <2>3. \A b \in Actors : Timing(b)' /\ Latest(b)'
    BY <1>1, PhaseAssumption DEF Begin, IInv, TypeOK, Timing, Latest
  <2>4. Ending'
    BY <1>1 DEF Begin, IInv, TypeOK, Ending, AllOver, AnyRaised
  <2> QED
    BY <1>1, <2>1, <2>2, <2>3, <2>4 DEF Begin, IInv
<1>2. ASSUME NEW a \in Actors, NEW valid \in BOOLEAN, End(a, valid) PROVE IInv'
  <2> DEFINE s == Skipped(a)
             e == Every[a]
  <2>1. /\ s \in Nat /\ e \in Nat \ {0}
        /\ s > 0 => due[a] + s * e <= Deadline
        /\ due[a] + (1 + s) * e < Deadline => clock <= due[a] + (1 + s) * e
    BY SkippedWhole, PhaseAssumption DEF IInv
  <2>2. (1 + s) * e = s * e + e /\ s * e \in Nat /\ (1 + s) * e \in Nat
    BY <2>1, Successor
  <2>3. /\ stage[a] = "busy"
        /\ completed' = [completed EXCEPT ![a] = completed[a] + 1]
        /\ missed' = [missed EXCEPT ![a] = missed[a] + s]
        /\ due' = [due EXCEPT ![a] = due[a] + (1 + s) * e]
        /\ stage' = [stage EXCEPT ![a] = IF due'[a] < Deadline THEN "sleep" ELSE "over"]
        /\ receipts' \in {receipts, receipts + 1}
        /\ UNCHANGED <<first, begun, sampler, sampled, verified, outcome, clock>>
    BY <1>2 DEF End
  <2> HIDE DEF s, e
  <2>4. TypeOK'
    BY <2>1, <2>2, <2>3 DEF IInv, TypeOK
  <2>5. ASSUME NEW b \in Actors PROVE Schedule(b)'
    <3>1. CASE b # a
      BY <2>3, <3>1 DEF IInv, TypeOK, Schedule, Counted
    <3>2. CASE b = a
      <4>1. Counted(a)' = Counted(a) + (1 + s) /\ Counted(a) \in Nat
        BY <2>1, <2>3 DEF Counted, IInv, TypeOK
      <4>2. Counted(a)' * e = Counted(a) * e + (1 + s) * e
        BY <2>1, <4>1, Distributes
      <4>3. due[a] = first[a] + Counted(a) * e /\ due[a] < Deadline
        BY <2>3 DEF IInv, Schedule, e
      <4>4. due'[a] = due[a] + (1 + s) * e /\ due'[a] - e = due[a] + s * e
        BY <2>1, <2>2, <2>3 DEF IInv, TypeOK
      <4>5. due'[a] = first'[a] + Counted(a)' * Every[a]
        <5>1. Counted(a) * e \in Nat
          BY <2>1, <4>1, Product
        <5>2. first[a] \in Nat /\ first'[a] = first[a]
          BY <2>3 DEF IInv, TypeOK
        <5>3. due'[a] = first[a] + Counted(a)' * e
          BY <2>2, <4>2, <4>3, <4>4, <5>1, <5>2
        <5> QED
          BY <5>2, <5>3 DEF e
      <4>6. missed'[a] = missed[a] + s /\ missed[a] \in Nat
        BY <2>3 DEF IInv, TypeOK
      <4>7. /\ stage'[a] \in {"sleep", "busy"} => due'[a] < Deadline
            /\ stage'[a] = "over" => due'[a] >= Deadline
        BY <2>3, <2>4, PhaseAssumption DEF IInv, TypeOK
      <4>8. due'[a] - e < Deadline \/ (due'[a] - e = Deadline /\ missed'[a] > 0)
        <5>1. CASE s = 0
          <6>1. s * e = 0
            BY <2>1, <5>1
          <6> QED
            BY <4>3, <4>4, <6>1 DEF IInv, TypeOK
        <5>2. CASE s > 0
          <6>1. due'[a] - e <= Deadline /\ missed'[a] > 0
            BY <2>1, <4>4, <4>6, <5>2
          <6>2. due'[a] - e \in Int /\ Deadline \in Int
            BY <2>1, <2>4, PhaseAssumption DEF TypeOK
          <6> QED
            BY <6>1, <6>2
        <5> QED
          BY <2>1, <5>1, <5>2
      <4> QED
        BY <3>2, <4>5, <4>7, <4>8 DEF Schedule, e
    <3> QED
      BY <3>1, <3>2
  <2>6. \A b \in Actors : Timing(b)' /\ Latest(b)'
    BY <2>1, <2>2, <2>3, <2>4, PhaseAssumption DEF IInv, TypeOK, Timing, Latest
  <2>7. Ending'
    BY <1>2, <2>3 DEF End, IInv, TypeOK, Ending, AllOver, AnyRaised
  <2> QED
    BY <2>3, <2>4, <2>5, <2>6, <2>7 DEF IInv
<1>3. ASSUME NEW a \in Actors, Raise(a) PROVE IInv'
  <2>1. TypeOK' /\ \A b \in Actors : Schedule(b)' /\ Timing(b)' /\ Latest(b)'
    BY <1>3 DEF Raise, IInv, TypeOK, Schedule, Counted, Timing, Latest
  <2>2. Ending'
    BY <1>3 DEF Raise, IInv, TypeOK, Ending, AllOver, AnyRaised
  <2> QED
    BY <1>3, <2>1, <2>2 DEF Raise, IInv
<1>4. CASE Look \/ Sample \/ Rest \/ StopSampling \/ Conclude \/ Fail \/ UNCHANGED vars
  <2>1. UNCHANGED <<load, clock>>
    BY <1>4 DEF Look, Sample, Rest, StopSampling, Conclude, Fail, vars, load
  <2>2. TypeOK'
    BY <1>4, <2>1 DEF Look, Sample, Rest, StopSampling, Conclude, Fail, vars, load, IInv, TypeOK
  <2>3. \A b \in Actors : Schedule(b)' /\ Timing(b)' /\ Latest(b)'
    BY <2>1 DEF load, IInv, Schedule, Counted, Timing, Latest
  <2>4. AllOver' = AllOver /\ AnyRaised' = AnyRaised
    BY <2>1 DEF load, AllOver, AnyRaised
  <2>5. Ending'
    BY <1>4, <2>1, <2>4
    DEF Look, Sample, Rest, StopSampling, Gathered, Conclude, Fail, vars, load, IInv, TypeOK, Ending
  <2> QED
    BY <2>1, <2>2, <2>3, <2>5 DEF IInv
<1>5. CASE Tick
  <2>1. /\ clock' = clock + 1
        /\ UNCHANGED <<load, sampler, sampled, verified, outcome>>
    BY <1>5 DEF Tick
  <2>2. TypeOK'
    BY <2>1 DEF load, IInv, TypeOK
  <2>3. \A b \in Actors : Schedule(b)' /\ Timing(b)' /\ Latest(b)'
    BY <1>5, <2>1, PhaseAssumption DEF Tick, load, IInv, TypeOK, Schedule, Counted, Timing, Latest
  <2>4. PICK a \in Actors : stage[a] \in {"sleep", "busy"}
    BY <1>5 DEF Tick, Gathered, AllOver, AnyRaised, IInv, TypeOK
  <2>5. due[a] < Deadline
    BY <2>4 DEF IInv, Schedule
  <2>6. clock + 1 <= Deadline + Lag + Longest
    BY <1>5, <2>4, <2>5, PhaseAssumption DEF Tick, IInv, TypeOK, Timing
  <2>7. Ending'
    BY <2>1 DEF load, IInv, Ending, AllOver, AnyRaised
  <2> QED
    BY <2>1, <2>2, <2>3, <2>6, <2>7 DEF IInv
<1> QED
  BY <1>1, <1>2, <1>3, <1>4, <1>5 DEF Next

\* Type correctness of a phase: above all, no count of missed slots is ever
\* negative.
THEOREM PhaseTypeCorrect == Spec => []TypeOK
<1>1. IInv => TypeOK
  BY DEF IInv
<1> QED
  BY <1>1, Initially, Inductive, PTL DEF Spec

\* EverySlotAccounted for any actors, periods, deadline and operation times.
THEOREM SlotsAreAccounted == Spec => []EverySlotAccounted
<1>1. IInv => EverySlotAccounted
  BY OverIsAccounted DEF IInv, EverySlotAccounted, Counted
<1> QED
  BY <1>1, Initially, Inductive, PTL DEF Spec

\* LoadEndsInTime for any actors and durations.
THEOREM LoadIsOverInTime == Spec => []LoadEndsInTime
<1>1. IInv => LoadEndsInTime
  BY DEF IInv, LoadEndsInTime
<1> QED
  BY <1>1, Initially, Inductive, PTL DEF Spec

\* VerifiesEveryReceipt for any actors: nothing is acknowledged after the
\* verification has asked.
THEOREM ReceiptsAreVerified == Spec => []VerifiesEveryReceipt
<1>1. IInv => VerifiesEveryReceipt
  BY DEF IInv, Ending, AllOver, VerifiesEveryReceipt
<1> QED
  BY <1>1, Initially, Inductive, PTL DEF Spec
=============================================================================
