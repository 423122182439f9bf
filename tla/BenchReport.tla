----------------------------- MODULE BenchReport -----------------------------
(***************************************************************************)
(* The latency accounting of the benchmark: Series of                      *)
(* src/benchmarks/report.py, fed with what the shared client answers.  An  *)
(* operation of src/benchmarks/mixed.py awaits one request and adds its    *)
(* Response before it awaits anything else, so an answer of BenchClient    *)
(* and its entry in the series are one step.                               *)
(*                                                                         *)
(* Latencies are in half milliseconds: a bucket is a whole millisecond.    *)
(* Their sum and maximum, which summary only prints, are left out.         *)
(***************************************************************************)
EXTENDS BenchClient, FiniteSetsExt

CONSTANTS
  Last,          \* the last bucket that has a bound: 10000 ms
  Fractions,     \* the quantiles of a summary, <<numerator, denominator>>
  MaxResponses   \* bound on the responses that are followed

ASSUME SeriesAssumption ==
  /\ Last \in Nat \ {0}
  /\ \A f \in Fractions : f \in Nat \X Nat /\ 0 < f[1] /\ f[1] <= f[2]
  /\ MaxResponses \in Nat

VARIABLES
  buckets,     \* Series.buckets
  completed,   \* Series.completed
  success,     \* Series.success
  errors,      \* Series.errors
  took         \* how many valid responses took how long (history)

series == <<buckets, completed, success, errors, took>>
reportVars == <<vars, series>>

Overflow == Last + 1
Elapsed  == 0 .. 2 * Last + 2
Labels   == {"capacity", "timeout", "transport", "http", "invalid", "no_receipt"}

SeriesOK ==
  /\ buckets \in [0 .. Overflow -> Nat]
  /\ completed \in Nat
  /\ success \in Nat
  /\ errors \in [Labels -> Nat]
  /\ took \in [Elapsed -> Nat]

ReportInit ==
  /\ Init
  /\ buckets = [b \in 0 .. Overflow |-> 0]
  /\ completed = 0
  /\ success = 0
  /\ errors = [l \in Labels |-> 0]
  /\ took = [e \in Elapsed |-> 0]

-----------------------------------------------------------------------------
(* Series. *)

\* Mutant: the bucket is the millisecond the latency lies in, not its bound.
BucketBelow(e) == IF e \div 2 < Overflow THEN e \div 2 ELSE Overflow

\* min(10001, math.ceil(elapsed_ms))
Bucket(e) == IF (e + 1) \div 2 < Overflow THEN (e + 1) \div 2 ELSE Overflow

\* Mutant: every completed response is counted in the buckets.
AddToBuckets(label, e) ==
  /\ completed' = completed + 1
  /\ success' = success + 1
  /\ buckets' = [buckets EXCEPT ![Bucket(e)] = @ + 1]
  /\ IF label = "valid"
       THEN took' = [took EXCEPT ![e] = @ + 1] /\ UNCHANGED errors
       ELSE errors' = [errors EXCEPT ![label] = @ + 1] /\ UNCHANGED took

\* Series.add: a valid response to the buckets, any other to its label.
Add(label, e) ==
  /\ completed' = completed + 1
  /\ IF label = "valid"
       THEN /\ success' = success + 1
            /\ buckets' = [buckets EXCEPT ![Bucket(e)] = @ + 1]
            /\ took' = [took EXCEPT ![e] = @ + 1]
            /\ UNCHANGED errors
       ELSE /\ errors' = [errors EXCEPT ![label] = @ + 1]
            /\ UNCHANGED <<success, buckets, took>>

\* The sum of the counts of S: how many units they stand for.
Units(counts, S) == UNION {{<<i, n>> : n \in 1 .. counts[i]} : i \in S}
Total(counts, S) == Cardinality(Units(counts, S))

\* The running count of quantile, once bucket b is added.
Within(b) == Total(buckets, 0 .. b)

\* math.ceil(self.success * fraction)
Rank(f) == (success * f[1] + f[2] - 1) \div f[2]

None == -1

\* The first bucket the rank falls into, unless it is the overflow.
Quantile(f) ==
  LET reached == {b \in 0 .. Overflow : Within(b) >= Rank(f)}
  IN IF success = 0 \/ Min(reached) = Overflow THEN None ELSE Min(reached)

-----------------------------------------------------------------------------
(* The operations. *)

\* How the workload sees an answer: a response may be valid, of another
\* status, or a 200 whose body is not what was asked for.
LabelsOf(how) == IF how = "response" THEN {"valid", "http", "invalid"} ELSE {how}

\* The latency of a failure is not kept.
ElapsedOf(label) == IF label = "valid" THEN Elapsed ELSE {0}

\* The answer is added to the series; MaxResponses bounds what is followed.
Count(how) ==
  IF completed < MaxResponses
    THEN \E label \in LabelsOf(how) : \E e \in ElapsedOf(label) : Add(label, e)
    ELSE UNCHANGED series

\* request() returned a Response.
Answered(c) ==
  /\ stage'[c] = "idle"
  /\ Count(answer'[c])

\* request() awaits on, or ended in an exception, which the operation lets by.
Unanswered(c) ==
  /\ \/ stage'[c] # "idle"
     \/ answer'[c] \in {"refused", "escaped", "cancelled"}
  /\ UNCHANGED series

\* replaying makes its own Response while there is no score to ask for.
NoReceipt(c) ==
  /\ stage[c] = "idle"
  /\ completed < MaxResponses
  /\ Add("no_receipt", 0)
  /\ UNCHANGED vars

ReportNext ==
  \E c \in Callers :
    \/ (Full(c) \/ Length(c) \/ Chunk(c) \/ Stream(c) \/ Fail(c) \/ Expire(c))
         /\ Answered(c)
    \/ (Refuse(c) \/ Begin(c) \/ Connected(c) \/ Drained(c) \/ NoStatus(c)
          \/ Head(c) \/ Chunk(c) \/ Stream(c) \/ Cancel(c))
         /\ Unanswered(c)
    \/ NoReceipt(c)

ReportSpec ==
  /\ ReportInit /\ [][ReportNext]_reportVars
  /\ \A c \in Callers : WF_reportVars(Expire(c) /\ Answered(c))

-----------------------------------------------------------------------------
(* Properties. *)

\* How many valid responses really took at most so many milliseconds.
TookAtMost(ms) == Total(took, 0 .. 2 * ms)

\* "client percentiles count successful protocol responses, with a
\* one-millisecond upper-bound resolution through ten seconds. [...] a quick
\* error response cannot make the successful p99 look better"
\* (benchmarks/README.md): at least the quantile's share of the valid
\* responses took no longer than reported, one millisecond less would not do,
\* and no number is reported only when too many took longer than the last
\* bound, or none was valid.
QuantilesAreTight ==
  \A f \in Fractions :
    LET valid == TookAtMost(Overflow)
        Enough(ms) == TookAtMost(ms) * f[2] >= valid * f[1]
        q == Quantile(f)
    IN IF q = None
         THEN valid = 0 \/ ~Enough(Last)
         ELSE Enough(q) /\ (q > 0 => ~Enough(q - 1))

\* The parts of a report add up: every answer is in a bucket or under a label,
\* and in one of them only.
AnswersAddUp ==
  /\ completed = Within(Overflow) + Total(errors, Labels)
  /\ success = Within(Overflow)
=============================================================================
