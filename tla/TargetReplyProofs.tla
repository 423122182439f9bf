-------------------------- MODULE TargetReplyProofs --------------------------
(***************************************************************************)
(* Proofs about a target's reply, from the call to the decoded packets.    *)
(* TransportClient, for any number of calls and of variable versions: its  *)
(* type, its three safety invariants, and that its steps implement         *)
(* ClientPromise.  PacketFraming, for all limits, header sizes and lengths *)
(* of the stream: its type, and its three safety invariants.               *)
(***************************************************************************)
EXTENDS TransportClient, PacketFraming, Sequences, SequenceTheorems, TLAPS

Current(i)  == caller = "waiting" /\ i = made
Working(i)  == worker[i] \notin {"absent", "done"}

\* A call not made yet has left no trace; one that is refused leaves none.
Untouched ==
  \A i \in Calls : i > made \/ outcome[i] = "refused" =>
    worker[i] = "absent" /\ queue[i] = "empty" /\ wire[i] = "unsent"

\* Exactly the calls that have returned have an outcome.
ReturnedHaveOutcome ==
  \A i \in Calls : outcome[i] = "none" <=> i > made \/ Current(i)

\* A worker has put its result exactly when it is done, and a call that took
\* one is over.
QueueFollowsWorker ==
  \A i \in Calls :
    /\ queue[i] # "empty" <=> worker[i] = "done"
    /\ outcome[i] \in {"answered", "failed"} => worker[i] = "done"
    /\ outcome[i] = "answered" => queue[i] = "response"

\* The poison records the one expired call; everything after it is refused.
PoisonRecordsExpiry ==
  /\ poisoned <=> \E i \in Calls : outcome[i] = "expired"
  /\ poisoned => caller = "idle"
  /\ \A i, j \in Calls :
       i < j /\ j <= made /\ outcome[i] = "expired" => outcome[j] = "refused"

\* Until the caller gives up, the worker and the caller see one version.
SameVersion ==
  /\ caller = "waiting" => checked[made] = version
  /\ \A i \in Calls :
       /\ worker[i] \in {"render", "connect"} => wire[i] = "unsent"
       /\ worker[i] = "read" \/ queue[i] = "response" => wire[i] = "reached"
       /\ outcome[i] # "expired"
            /\ (worker[i] \in {"connect", "await", "read"} \/ queue[i] = "response")
          => rendered[i] = checked[i]

IInv ==
  /\ TypeOK
  /\ Untouched
  /\ ReturnedHaveOutcome
  /\ QueueFollowsWorker
  /\ PoisonRecordsExpiry
  /\ SameVersion

-----------------------------------------------------------------------------
(* The invariant holds initially. *)
LEMMA InitIInv == Init => IInv
<1> USE MaxCallsNat, MaxVersionNat
<1> SUFFICES ASSUME Init PROVE IInv
  OBVIOUS
<1>1. TypeOK
  <2>1. 0 \in Versions /\ 0 \in 0 .. MaxCalls
    BY DEF Versions
  <2> QED
    BY <2>1 DEF Init, TypeOK, Stages, Results, Journey, Outcomes
<1>2. Untouched /\ ReturnedHaveOutcome /\ QueueFollowsWorker
  BY DEF Init, Untouched, ReturnedHaveOutcome, QueueFollowsWorker, Current, Calls
<1>3. PoisonRecordsExpiry /\ SameVersion
  BY DEF Init, PoisonRecordsExpiry, SameVersion, Calls
<1> QED
  BY <1>1, <1>2, <1>3 DEF IInv

(* A refused call only takes the next outcome. *)
LEMMA RefuseKeepsIInv ==
  ASSUME IInv, Refuse
  PROVE  IInv'
<1> USE MaxCallsNat, MaxVersionNat DEF IInv, Refuse, Calls
<1>1. TypeOK'
  BY DEF TypeOK, Outcomes
<1>2. Untouched'
  BY DEF TypeOK, Untouched
<1>3. ReturnedHaveOutcome'
  BY DEF TypeOK, ReturnedHaveOutcome, Current
<1>4. QueueFollowsWorker'
  BY DEF QueueFollowsWorker
<1>5. PoisonRecordsExpiry'
  BY DEF TypeOK, ReturnedHaveOutcome, PoisonRecordsExpiry
<1>6. SameVersion'
  BY DEF TypeOK, ReturnedHaveOutcome, SameVersion
<1> QED
  BY <1>1, <1>2, <1>3, <1>4, <1>5, <1>6

(* A new call: not poisoned, so no call has expired before it. *)
LEMMA StartKeepsIInv ==
  ASSUME IInv, Start
  PROVE  IInv'
<1> USE MaxCallsNat, MaxVersionNat DEF IInv, Start, Calls
<1>1. TypeOK'
  BY DEF TypeOK, Stages
<1>2. Untouched'
  BY DEF TypeOK, Untouched, ReturnedHaveOutcome
<1>3. ReturnedHaveOutcome'
  BY DEF TypeOK, ReturnedHaveOutcome, Current
<1>4. QueueFollowsWorker'
  BY DEF TypeOK, Untouched, QueueFollowsWorker
<1>5. PoisonRecordsExpiry'
  BY DEF PoisonRecordsExpiry
<1>6. SameVersion'
  BY DEF TypeOK, Untouched, SameVersion
<1> QED
  BY <1>1, <1>2, <1>3, <1>4, <1>5, <1>6

(* The caller takes what its own worker put. *)
LEMMA TakeKeepsIInv ==
  ASSUME IInv, Take
  PROVE  IInv'
<1> USE MaxCallsNat, MaxVersionNat DEF IInv, Take, Calls
<1>1. TypeOK'
  BY DEF TypeOK, Outcomes
<1>2. Untouched'
  BY DEF Untouched
<1>3. ReturnedHaveOutcome'
  BY DEF TypeOK, ReturnedHaveOutcome, Current
<1>4. QueueFollowsWorker'
  BY DEF QueueFollowsWorker
<1>5. PoisonRecordsExpiry'
  BY DEF PoisonRecordsExpiry
<1>6. SameVersion'
  BY DEF PoisonRecordsExpiry, SameVersion
<1> QED
  BY <1>1, <1>2, <1>3, <1>4, <1>5, <1>6

(* The deadline: the last call begun is the one that expires. *)
LEMMA DeadlineKeepsIInv ==
  ASSUME IInv, Deadline
  PROVE  IInv'
<1> USE MaxCallsNat, MaxVersionNat DEF IInv, Deadline, Calls
<1>1. TypeOK'
  BY DEF TypeOK, Outcomes
<1>2. Untouched'
  BY DEF Untouched
<1>3. ReturnedHaveOutcome'
  BY DEF TypeOK, ReturnedHaveOutcome, Current
<1>4. QueueFollowsWorker'
  BY DEF QueueFollowsWorker
<1>5. PoisonRecordsExpiry'
  BY DEF TypeOK, PoisonRecordsExpiry
<1>6. SameVersion'
  BY DEF SameVersion
<1> QED
  BY <1>1, <1>2, <1>3, <1>4, <1>5, <1>6

(* The variables change only while nobody waits. *)
LEMMA ChangeVariablesKeepsIInv ==
  ASSUME IInv, ChangeVariables
  PROVE  IInv'
<1> USE MaxCallsNat, MaxVersionNat DEF IInv, ChangeVariables, Calls
<1>1. TypeOK'
  BY DEF TypeOK, Versions
<1>2. Untouched'
  BY DEF Untouched
<1>3. ReturnedHaveOutcome'
  BY DEF ReturnedHaveOutcome, Current
<1>4. QueueFollowsWorker'
  BY DEF QueueFollowsWorker
<1>5. PoisonRecordsExpiry'
  BY DEF PoisonRecordsExpiry
<1>6. SameVersion'
  BY DEF SameVersion
<1> QED
  BY <1>1, <1>2, <1>3, <1>4, <1>5, <1>6

(* The worker reads the variables of the moment. *)
LEMMA RenderKeepsIInv ==
  ASSUME IInv, NEW i \in Calls, Render(i)
  PROVE  IInv'
<1> USE MaxCallsNat, MaxVersionNat DEF IInv, Render, Calls
<1>1. TypeOK'
  BY DEF TypeOK, Stages
<1>2. Untouched'
  BY DEF Untouched
<1>3. ReturnedHaveOutcome'
  BY DEF ReturnedHaveOutcome, Current
<1>4. QueueFollowsWorker'
  BY DEF QueueFollowsWorker
<1>5. PoisonRecordsExpiry'
  BY DEF PoisonRecordsExpiry
<1>6. SameVersion'
  BY DEF TypeOK, Untouched, ReturnedHaveOutcome, Current, QueueFollowsWorker,
     SameVersion, Outcomes
<1> QED
  BY <1>1, <1>2, <1>3, <1>4, <1>5, <1>6

(* The worker ends before it sent anything. *)
LEMMA RenderFailsKeepsIInv ==
  ASSUME IInv, NEW i \in Calls, RenderFails(i)
  PROVE  IInv'
<1> USE MaxCallsNat, MaxVersionNat DEF IInv, RenderFails, Put, Calls
<1>1. TypeOK'
  BY DEF TypeOK, Stages, Results
<1>2. Untouched'
  BY DEF Untouched
<1>3. ReturnedHaveOutcome'
  BY DEF ReturnedHaveOutcome, Current
<1>4. QueueFollowsWorker'
  BY DEF TypeOK, QueueFollowsWorker
<1>5. PoisonRecordsExpiry'
  BY DEF PoisonRecordsExpiry
<1>6. SameVersion'
  BY DEF SameVersion
<1> QED
  BY <1>1, <1>2, <1>3, <1>4, <1>5, <1>6

(* The request goes out. *)
LEMMA SendKeepsIInv ==
  ASSUME IInv, NEW i \in Calls, Send(i)
  PROVE  IInv'
<1> USE MaxCallsNat, MaxVersionNat DEF IInv, Send, Calls
<1>1. TypeOK'
  BY DEF TypeOK, Stages, Journey
<1>2. Untouched'
  BY DEF Untouched
<1>3. ReturnedHaveOutcome'
  BY DEF ReturnedHaveOutcome, Current
<1>4. QueueFollowsWorker'
  BY DEF QueueFollowsWorker
<1>5. PoisonRecordsExpiry'
  BY DEF PoisonRecordsExpiry
<1>6. SameVersion'
  BY DEF TypeOK, SameVersion
<1> QED
  BY <1>1, <1>2, <1>3, <1>4, <1>5, <1>6

(* The reply to a request that arrived begins. *)
LEMMA HeadersKeepsIInv ==
  ASSUME IInv, NEW i \in Calls, Headers(i)
  PROVE  IInv'
<1> USE MaxCallsNat, MaxVersionNat DEF IInv, Headers, Calls
<1>1. TypeOK'
  BY DEF TypeOK, Stages
<1>2. Untouched'
  BY DEF Untouched
<1>3. ReturnedHaveOutcome'
  BY DEF ReturnedHaveOutcome, Current
<1>4. QueueFollowsWorker'
  BY DEF QueueFollowsWorker
<1>5. PoisonRecordsExpiry'
  BY DEF PoisonRecordsExpiry
<1>6. SameVersion'
  BY DEF SameVersion
<1> QED
  BY <1>1, <1>2, <1>3, <1>4, <1>5, <1>6

(* The worker puts its result. *)
LEMMA ReadBodyKeepsIInv ==
  ASSUME IInv, NEW i \in Calls, ReadBody(i)
  PROVE  IInv'
<1> USE MaxCallsNat, MaxVersionNat DEF IInv, ReadBody, Put, Calls
<1>1. TypeOK'
  BY DEF TypeOK, Stages, Results
<1>2. Untouched'
  BY DEF Untouched
<1>3. ReturnedHaveOutcome'
  BY DEF ReturnedHaveOutcome, Current
<1>4. QueueFollowsWorker'
  BY DEF TypeOK, QueueFollowsWorker
<1>5. PoisonRecordsExpiry'
  BY DEF PoisonRecordsExpiry
<1>6. SameVersion'
  BY DEF SameVersion
<1> QED
  BY <1>1, <1>2, <1>3, <1>4, <1>5, <1>6

(* The worker puts a transport error. *)
LEMMA SocketFailsKeepsIInv ==
  ASSUME IInv, NEW i \in Calls, SocketFails(i)
  PROVE  IInv'
<1> USE MaxCallsNat, MaxVersionNat DEF IInv, SocketFails, Put, Calls
<1>1. TypeOK'
  BY DEF TypeOK, Stages, Results
<1>2. Untouched'
  BY DEF Untouched
<1>3. ReturnedHaveOutcome'
  BY DEF ReturnedHaveOutcome, Current
<1>4. QueueFollowsWorker'
  BY DEF TypeOK, QueueFollowsWorker
<1>5. PoisonRecordsExpiry'
  BY DEF PoisonRecordsExpiry
<1>6. SameVersion'
  BY DEF SameVersion
<1> QED
  BY <1>1, <1>2, <1>3, <1>4, <1>5, <1>6

(* The network delivers. *)
LEMMA ArriveKeepsIInv ==
  ASSUME IInv, NEW i \in Calls, Arrive(i)
  PROVE  IInv'
<1> USE MaxCallsNat, MaxVersionNat DEF IInv, Arrive, Calls
<1>1. TypeOK'
  BY DEF TypeOK, Journey
<1>2. Untouched'
  BY DEF Untouched
<1>3. ReturnedHaveOutcome'
  BY DEF ReturnedHaveOutcome, Current
<1>4. QueueFollowsWorker'
  BY DEF QueueFollowsWorker
<1>5. PoisonRecordsExpiry'
  BY DEF PoisonRecordsExpiry
<1>6. SameVersion'
  BY DEF SameVersion
<1> QED
  BY <1>1, <1>2, <1>3, <1>4, <1>5, <1>6

(* Every step keeps the invariant. *)
LEMMA StepKeepsIInv ==
  ASSUME IInv, [Next]_vars
  PROVE  IInv'
<1>1. CASE Refuse
  BY <1>1, RefuseKeepsIInv
<1>2. CASE Start
  BY <1>2, StartKeepsIInv
<1>3. CASE Take
  BY <1>3, TakeKeepsIInv
<1>4. CASE Deadline
  BY <1>4, DeadlineKeepsIInv
<1>5. CASE ChangeVariables
  BY <1>5, ChangeVariablesKeepsIInv
<1>6. ASSUME NEW i \in Calls, Work(i)
      PROVE  IInv'
  BY <1>6, RenderKeepsIInv, RenderFailsKeepsIInv, SendKeepsIInv, HeadersKeepsIInv,
     ReadBodyKeepsIInv, SocketFailsKeepsIInv DEF Work
<1>7. ASSUME NEW i \in Calls, Arrive(i)
      PROVE  IInv'
  BY <1>7, ArriveKeepsIInv
<1>8. CASE UNCHANGED vars
  BY <1>8 DEF vars, IInv, TypeOK, Untouched, ReturnedHaveOutcome, Current,
     QueueFollowsWorker, PoisonRecordsExpiry, SameVersion
<1> QED
  BY <1>1, <1>2, <1>3, <1>4, <1>5, <1>6, <1>7, <1>8 DEF Next

LEMMA Invariance == Spec => []IInv
<1>1. IInv /\ [Next]_vars => IInv'
  BY StepKeepsIInv
<1> QED
  BY InitIInv, <1>1, PTL DEF Spec

-----------------------------------------------------------------------------
(* Every variable of the client keeps its type, however many calls are made *)
(* through it: TargetClient.request and its worker.                         *)
THEOREM TypeCorrect == Spec => []TypeOK
<1>1. IInv => TypeOK
  BY DEF IInv
<1> QED
  BY <1>1, Invariance, PTL

(* At most one worker thread of a client is alive, because the call that    *)
(* abandons its worker poisons the client.                                  *)
THEOREM AtMostOneWorker == Spec => []OneWorker
<1>1. ASSUME IInv, NEW i \in Calls, NEW j \in Calls, i < j, Working(i)
      PROVE  ~Working(j)
  \* A call before the last begun one has returned; if its worker still runs
  \* it has expired, and then every later call is refused or not yet made.
  <2> made \in Nat /\ i \in Nat /\ j \in Nat
    BY <1>1, MaxCallsNat DEF IInv, TypeOK, Calls
  <2>1. CASE j > made
    BY <1>1, <2>1 DEF IInv, Untouched, Working
  <2>2. CASE j <= made
    <3>1. ~(i > made) /\ i # made
      BY <1>1, <2>2
    <3>2. outcome[i] # "none"
      BY <1>1, <3>1 DEF IInv, ReturnedHaveOutcome, Current
    <3>3. outcome[i] = "expired"
      BY <1>1, <3>2 DEF IInv, TypeOK, Outcomes, Untouched, QueueFollowsWorker, Working
    <3> QED
      BY <1>1, <2>2, <3>3 DEF IInv, PoisonRecordsExpiry, Untouched, Working
  <2> QED
    BY <2>1, <2>2
<1>2. IInv => OneWorker
  BY <1>1 DEF OneWorker, Working, Calls
<1> QED
  BY <1>2, Invariance, PTL

(* Nothing goes on the wire through a client after a wall-deadline timeout. *)
THEOREM NoTrafficAfterExpiry == Spec => []ExpiredEndsTraffic
<1>1. IInv => ExpiredEndsTraffic
  BY MaxCallsNat DEF IInv, TypeOK, ExpiredEndsTraffic, PoisonRecordsExpiry, Untouched, Calls
<1> QED
  BY <1>1, Invariance, PTL

(* A reply the caller accepts answers the request it had validated, although *)
(* the worker renders that request from variables it reads without a lock.   *)
THEOREM AcceptedReplyIsToTheCheckedRequest == Spec => []AnswersTheCheckedRequest
<1>1. IInv => AnswersTheCheckedRequest
  BY DEF IInv, AnswersTheCheckedRequest, QueueFollowsWorker, SameVersion
<1> QED
  BY <1>1, Invariance, PTL

-----------------------------------------------------------------------------
(* The refinement: the call in progress has not happened yet in the promise. *)
Tell(i) == [outcome |-> outcome[i], reached |-> wire[i] = "reached"]
Told     == [i \in 1 .. Returned |-> Tell(i)]

LEMMA ReturnedType ==
  ASSUME TypeOK
  PROVE  Returned \in Nat /\ Returned <= made /\ made \in Nat /\ made <= MaxCalls
BY MaxCallsNat DEF TypeOK, Returned

(* What was told is a sequence, one entry for each call that has returned.   *)
LEMMA ToldIs ==
  ASSUME TypeOK
  PROVE  /\ \E S : Told \in Seq(S)
         /\ DOMAIN Told = 1 .. Returned /\ Len(Told) = Returned
         /\ \A i \in 1 .. Returned : Told[i] = Tell(i)
<1>1. Returned \in Nat
  BY ReturnedType
<1> DEFINE S == {Tell(i) : i \in 1 .. Returned}
<1>2. /\ Told \in [1 .. Returned -> S] /\ DOMAIN Told = 1 .. Returned
      /\ \A i \in 1 .. Returned : Told[i] = Tell(i)
  BY DEF Told
<1> HIDE DEF S
<1>3. Told \in Seq(S) /\ Len(Told) = Returned
  BY <1>1, <1>2
<1> QED
  BY <1>2, <1>3

(* The poison is the promise's closed state.                                 *)
LEMMA PoisonIsClosed ==
  ASSUME IInv
  PROVE  (\E i \in DOMAIN Told : Told[i].outcome = "expired") <=> poisoned
<1>0. TypeOK
  BY DEF IInv
<1>1. \A i \in 1 .. Returned : i \in Calls /\ Told[i].outcome = outcome[i]
  BY <1>0, ToldIs, ReturnedType, MaxCallsNat DEF Tell, Calls
<1>2. \A i \in Calls : outcome[i] = "expired" => i \in 1 .. Returned
  <2> SUFFICES ASSUME NEW i \in Calls, outcome[i] = "expired" PROVE i \in 1 .. Returned
    OBVIOUS
  <2>1. ~(i > made) /\ ~Current(i)
    BY DEF IInv, ReturnedHaveOutcome
  <2> QED
    BY <2>1, MaxCallsNat DEF IInv, TypeOK, Current, Returned, Calls
<1>3. (\E i \in 1 .. Returned : Told[i].outcome = "expired")
        <=> (\E i \in Calls : outcome[i] = "expired")
  BY <1>1, <1>2
<1> QED
  BY <1>0, <1>3, ToldIs DEF IInv, PoisonRecordsExpiry

(* A step that ends call n with outcome o is the promise's Return, with the  *)
(* arrival of the request as it stands on the wire.                          *)
LEMMA ReturnStep ==
  ASSUME TypeOK, TypeOK', NEW n \in Calls, NEW o, NEW arrived \in BOOLEAN,
         n = Returned + 1,
         Returned' = n,
         outcome' = [outcome EXCEPT ![n] = o],
         wire' = wire,
         arrived <=> wire[n] = "reached"
  PROVE  Told' = Append(Told, [outcome |-> o, reached |-> arrived])
<1> DEFINE e == [outcome |-> o, reached |-> arrived]
<1>0. Returned \in Nat
  BY ReturnedType
<1>1. PICK S : Told \in Seq(S)
  BY ToldIs
<1>2. \A i \in 1 .. Returned : Tell(i)' = Tell(i)
  BY <1>0 DEF Tell, TypeOK
<1>3. Tell(n)' = e
  <2>1. (wire'[n] = "reached") = arrived
    OBVIOUS
  <2>2. outcome'[n] = o
    BY DEF TypeOK
  <2> QED
    BY <2>1, <2>2 DEF Tell
<1>4. DOMAIN Told' = 1 .. Returned + 1 /\ \A i \in 1 .. Returned + 1 : Told'[i] = Tell(i)'
  BY DEF Told
<1> HIDE DEF e
<1>5. /\ Append(Told, e) \in Seq(S \cup {e}) /\ Len(Append(Told, e)) = Returned + 1
      /\ Append(Told, e)[Returned + 1] = e
      /\ \A i \in 1 .. Returned : Append(Told, e)[i] = Told[i]
  <2>1. Told \in Seq(S \cup {e}) /\ e \in S \cup {e} /\ Len(Told) = Returned
    BY <1>1, ToldIs
  <2> QED
    BY <1>0, <2>1, AppendProperties
<1>6. DOMAIN Append(Told, e) = 1 .. Returned + 1
  BY <1>5
<1>7. \A i \in 1 .. Returned + 1 : Told'[i] = Append(Told, e)[i]
  <2> SUFFICES ASSUME NEW i \in 1 .. Returned + 1 PROVE Told'[i] = Append(Told, e)[i]
    OBVIOUS
  <2>1. CASE i = Returned + 1
    BY <1>3, <1>4, <1>5, <2>1
  <2>2. CASE i # Returned + 1
    <3>1. i \in 1 .. Returned
      BY <1>0, <2>2
    <3>2. Told'[i] = Tell(i) /\ Append(Told, e)[i] = Told[i] /\ Told[i] = Tell(i)
      BY <1>2, <1>4, <1>5, <3>1, ToldIs
    <3> QED
      BY <3>2
  <2> QED
    BY <2>1, <2>2
<1>8. Told' \in Seq(S \cup {e}) /\ Len(Told') = Returned + 1
  <2>1. \A i \in 1 .. Returned + 1 : Append(Told, e)[i] \in S \cup {e}
    BY <1>5, <1>6
  <2>2. \A i \in 1 .. Returned + 1 : Tell(i)' \in S \cup {e}
    BY <1>4, <1>7, <2>1
  <2>3. Told' \in [1 .. Returned + 1 -> S \cup {e}]
    BY <2>2 DEF Told
  <2> QED
    BY <1>0, <2>3
<1>9. Told' = Append(Told, e)
  BY <1>5, <1>7, <1>8, SeqEqual
<1> QED
  BY <1>9 DEF e

\* Under the mapping the promise's variable is what was told.
LEMMA PromiseIs ==
  /\ Promise!vars = Told /\ (Promise!vars)' = Told'
  /\ Promise!Closed <=> \E i \in DOMAIN Told : Told[i].outcome = "expired"
  /\ \A o, arrived : Promise!Return(o, arrived) <=>
       Told' = Append(Told, [outcome |-> o, reached |-> arrived])
  /\ \A i : Promise!ArriveLate(i) <=>
       /\ Told[i].outcome \in {"failed", "expired"} /\ ~Told[i].reached
       /\ Told' = [Told EXCEPT ![i].reached = TRUE]
BY DEF Promise!vars, Promise!Closed, Promise!Return, Promise!ArriveLate, Told, Tell

LEMMA RefuseRefines ==
  ASSUME IInv, IInv', Refuse
  PROVE  Promise!Next
<1> DEFINE n == made + 1
<1>1. n \in Calls /\ n > made /\ n = Returned + 1 /\ Returned' = n
  BY MaxCallsNat DEF IInv, TypeOK, Refuse, Returned, Calls
<1>2. FALSE <=> wire[n] = "reached"
  BY <1>1 DEF IInv, Untouched
<1>3. outcome' = [outcome EXCEPT ![n] = "refused"] /\ wire' = wire /\ TypeOK /\ TypeOK'
  BY DEF IInv, Refuse
<1> HIDE DEF n
<1>4. Promise!Return("refused", FALSE)
  BY <1>1, <1>2, <1>3, ReturnStep, PromiseIs
<1> QED
  BY <1>4, PoisonIsClosed, PromiseIs DEF Promise!Next, Promise!Refuse, Refuse

LEMMA TakeRefines ==
  ASSUME IInv, IInv', Take
  PROVE  Promise!Next
<1>1. made \in Calls /\ made = Returned + 1 /\ Returned' = made
  BY MaxCallsNat DEF IInv, TypeOK, Take, Returned, Calls
<1>2. ~Promise!Closed
  BY PoisonIsClosed, PromiseIs DEF IInv, PoisonRecordsExpiry, Take
<1>3. CASE queue[made] = "response"
  <2>1. TRUE <=> wire[made] = "reached"
    BY <1>1, <1>3 DEF IInv, SameVersion
  <2>2. outcome' = [outcome EXCEPT ![made] = "answered"] /\ wire' = wire /\ TypeOK /\ TypeOK'
    BY <1>3 DEF IInv, Take
  <2>3. Promise!Return("answered", TRUE)
    BY <1>1, <2>1, <2>2, ReturnStep, PromiseIs
  <2> QED
    BY <1>2, <2>3 DEF Promise!Next, Promise!Answer
<1>4. CASE queue[made] # "response"
  <2>1. outcome' = [outcome EXCEPT ![made] = "failed"] /\ wire' = wire /\ TypeOK /\ TypeOK'
    BY <1>4 DEF IInv, Take
  <2>2. \E arrived \in BOOLEAN : Promise!Return("failed", arrived)
    <3> DEFINE arrived == wire[made] = "reached"
    <3>1. arrived \in BOOLEAN /\ (arrived <=> wire[made] = "reached")
      OBVIOUS
    <3> HIDE DEF arrived
    <3> QED
      BY <1>1, <2>1, <3>1, ReturnStep, PromiseIs
  <2> QED
    BY <1>2, <2>2 DEF Promise!Next, Promise!Fail
<1> QED
  BY <1>3, <1>4

LEMMA DeadlineRefines ==
  ASSUME IInv, IInv', Deadline
  PROVE  Promise!Next
<1>1. made \in Calls /\ made = Returned + 1 /\ Returned' = made
  BY MaxCallsNat DEF IInv, TypeOK, Deadline, Returned, Calls
<1>2. outcome' = [outcome EXCEPT ![made] = "expired"] /\ wire' = wire /\ TypeOK /\ TypeOK'
  BY DEF IInv, Deadline
<1>3. \E arrived \in BOOLEAN : Promise!Return("expired", arrived)
  <2> DEFINE arrived == wire[made] = "reached"
  <2>1. arrived \in BOOLEAN /\ (arrived <=> wire[made] = "reached")
    OBVIOUS
  <2> HIDE DEF arrived
  <2> QED
    BY <1>1, <1>2, <2>1, ReturnStep, PromiseIs
<1>4. ~Promise!Closed
  BY PoisonIsClosed, PromiseIs DEF IInv, PoisonRecordsExpiry, Deadline
<1> QED
  BY <1>3, <1>4 DEF Promise!Next, Promise!Expire

\* An entry whose request arrives.
LEMMA DeliveredRecord ==
  ASSUME NEW o, NEW b
  PROVE  [[outcome |-> o, reached |-> b] EXCEPT !.reached = TRUE]
           = [outcome |-> o, reached |-> TRUE]
<1> DEFINE r == [[outcome |-> o, reached |-> b] EXCEPT !.reached = TRUE]
<1>1. r \in [outcome : {o}, reached : {TRUE}]
  OBVIOUS
<1> HIDE DEF r
<1>2. r = [outcome |-> o, reached |-> TRUE]
  BY <1>1
<1> QED
  BY <1>2 DEF r

LEMMA ArriveRefines ==
  ASSUME IInv, NEW i \in Calls, Arrive(i)
  PROVE  [Promise!Next]_(Promise!vars)
<1>1. Returned' = Returned /\ outcome' = outcome /\ wire[i] = "sent"
  BY DEF Arrive, Returned
<1>2. CASE i <= Returned
  <2>1. outcome[i] \in {"failed", "expired"}
    <3>1. outcome[i] # "none"
      BY <1>2, MaxCallsNat DEF IInv, TypeOK, ReturnedHaveOutcome, Current, Returned, Calls
    <3>2. outcome[i] # "refused" /\ outcome[i] # "answered"
      BY <1>1 DEF IInv, Untouched, QueueFollowsWorker, SameVersion
    <3> QED
      BY <3>1, <3>2 DEF IInv, TypeOK, Outcomes
  <2>0. i \in DOMAIN Told /\ Told[i] = Tell(i) /\ Returned \in Nat
    BY <1>2, ToldIs, ReturnedType, MaxCallsNat DEF IInv, Calls
  <2>2. ~Told[i].reached /\ Told[i].outcome \in {"failed", "expired"}
    <3>1. Tell(i).reached = (wire[i] = "reached") /\ Tell(i).outcome = outcome[i]
      BY Zenon DEF Tell
    <3>2. wire[i] # "reached"
      BY <1>1
    <3> QED
      BY <2>0, <2>1, <3>1, <3>2, Zenon
  <2>3. ASSUME NEW j \in 1 .. Returned
        PROVE  Tell(j)' = IF j = i THEN [outcome |-> outcome[i], reached |-> TRUE] ELSE Tell(j)
    <3>1. wire'[j] = IF j = i THEN "reached" ELSE wire[j]
      BY <2>0, ReturnedType, MaxCallsNat DEF Arrive, IInv, TypeOK, Calls
    <3>2. CASE j = i
      <4>1. (wire'[j] = "reached") = TRUE /\ outcome'[j] = outcome[i]
        BY <1>1, <3>1, <3>2
      <4> QED
        BY <3>2, <4>1, Zenon DEF Tell
    <3>3. CASE j # i
      <4>1. wire'[j] = wire[j] /\ outcome'[j] = outcome[j]
        BY <1>1, <3>1, <3>3
      <4> QED
        BY <3>3, <4>1, Zenon DEF Tell
    <3> QED
      BY <3>2, <3>3
  <2>4. [Tell(i) EXCEPT !.reached = TRUE] = [outcome |-> outcome[i], reached |-> TRUE]
    <3>2. Tell(i) = [outcome |-> outcome[i], reached |-> wire[i] = "reached"]
      BY Zenon DEF Tell
    <3> QED
      BY <3>2, DeliveredRecord, Zenon
  <2>5. Told' = [Told EXCEPT ![i].reached = TRUE]
    BY <1>1, <2>0, <2>3, <2>4 DEF Told
  <2>6. Promise!ArriveLate(i)
    BY <2>2, <2>5, PromiseIs
  <2> QED
    BY <2>0, <2>6 DEF Promise!Next, Told, Tell
<1>3. CASE ~(i <= Returned)
  <2>1. \A j \in 1 .. Returned : Tell(j)' = Tell(j)
    BY <1>1, <1>3, ReturnedType, MaxCallsNat DEF Tell, Arrive, IInv, TypeOK, Calls
  <2>2. Told' = Told
    BY <1>1, <2>1 DEF Told
  <2> QED
    BY <2>2, PromiseIs
<1> QED
  BY <1>2, <1>3

LEMMA SilentRefines ==
  ASSUME IInv,
         \/ Start
         \/ ChangeVariables
         \/ \E i \in Calls : Work(i)
         \/ UNCHANGED vars
  PROVE  UNCHANGED Promise!vars
<1>1. Returned' = Returned /\ outcome' = outcome
  BY MaxCallsNat DEF IInv, TypeOK, Start, ChangeVariables, Work, Render, RenderFails, Send,
     Headers, ReadBody, SocketFails, Put, vars, Returned
<1>2. \A i \in Calls : wire'[i] = "reached" <=> wire[i] = "reached"
  BY DEF IInv, TypeOK, SameVersion, Start, ChangeVariables, Work, Render, RenderFails, Send,
     Headers, ReadBody, SocketFails, Put, vars
<1>3. \A i \in 1 .. Returned : Tell(i)' = Tell(i)
  BY <1>1, <1>2, ReturnedType, MaxCallsNat DEF Tell, IInv, Calls
<1>4. Told' = Told
  BY <1>1, <1>3 DEF Told
<1> QED
  BY <1>4, PromiseIs

(* The client with its worker threads, queues and sockets implements the     *)
(* promise the runner relies on: one outcome per call, an answer only to a   *)
(* request the server received, silence after a wall-deadline timeout.       *)
THEOREM ImplementsPromise == Spec => KeepsPromise
<1>1. Init => Promise!Init
  <2>1. Init => Returned = 0
    BY DEF Init, Returned
  <2>2. Returned = 0 =>
          [i \in 1 .. Returned |->
             [outcome |-> outcome[i], reached |-> wire[i] = "reached"]] = <<>>
    OBVIOUS
  <2> QED
    BY <2>1, <2>2 DEF Promise!Init
<1>2. IInv /\ IInv' /\ [Next]_vars => [Promise!Next]_(Promise!vars)
  BY RefuseRefines, TakeRefines, DeadlineRefines, ArriveRefines, SilentRefines DEF Next
<1> QED
  BY <1>1, <1>2, Invariance, PTL DEF Spec, KeepsPromise, Promise!Spec

-----------------------------------------------------------------------------
(* The framing of a body, and the semantic pass over it *)

\* Nothing is noted or decoded while every boundary can still be trusted; once
\* framing is over, either the data is used up or the first diagnostic says
\* where it stopped.
StopIsNoted ==
  /\ pc = "frame" => diagnostics = <<>> /\ normalized = <<>>
  /\ pc # "frame" /\ offset # size =>
       \E j \in DOMAIN diagnostics : diagnostics[j].severity = "error"

\* A payload that did not decode has left an error behind.
BrokenIsNoted ==
  \A i \in 1 .. Len(normalized) :
    packets[i].payload = "broken" =>
      \E j \in DOMAIN diagnostics : diagnostics[j].severity = "error"

\* The semantic pass stays within the framed packets, and they within the limit.
WithinLimits ==
  /\ Len(packets) <= MaxCount
  /\ Len(normalized) <= Len(packets)
  /\ pc = "done" => Len(normalized) = Len(packets)

FramingInv ==
  /\ FramingTypeOK
  /\ Tiling
  /\ StopIsNoted
  /\ BrokenIsNoted
  /\ WithinLimits
  /\ DiagnosticsPoint

-----------------------------------------------------------------------------
(* Appending keeps what was there, and puts the new element last. *)
LEMMA AppendKeeps ==
  ASSUME NEW S, NEW s \in Seq(S), NEW e \in S
  PROVE  /\ Append(s, e) \in Seq(S)
         /\ Len(Append(s, e)) = Len(s) + 1
         /\ DOMAIN Append(s, e) = 1 .. Len(s) + 1
         /\ DOMAIN s = 1 .. Len(s)
         /\ Append(s, e)[Len(s) + 1] = e
         /\ \A i \in 1 .. Len(s) : Append(s, e)[i] = s[i]
OBVIOUS

LEMMA InitFramingInv == FramingInit => FramingInv
BY SizesAssumption
   DEF FramingInit, FramingInv, FramingTypeOK, Tiling, StopIsNoted, BrokenIsNoted, WithinLimits,
       DiagnosticsPoint

(* Every way of stopping the framing notes one framing error that points
   between the first byte not framed and the end of the data. *)
LEMMA StopKeepsFraming ==
  ASSUME FramingInv, pc = "frame", NEW error \in FramingErrors, NEW at \in Nat,
         offset <= at, at <= size, Stop(error, at)
  PROVE  FramingInv'
<1> USE SizesAssumption DEF FramingInv, Stop, Note
<1> DEFINE d == [error |-> error, offset |-> at, index |-> Len(packets), severity |-> "error"]
<1>1. d \in Diagnostic
  BY DEF FramingTypeOK, WithinLimits, Diagnostic
<1>2. diagnostics = <<>> /\ normalized = <<>>
  BY DEF StopIsNoted
<1>3. /\ diagnostics' \in Seq(Diagnostic)
      /\ DOMAIN diagnostics' = 1 .. 1
      /\ diagnostics'[1] = d
  BY <1>1, <1>2
<1>4. FramingTypeOK'
  BY <1>3 DEF FramingTypeOK
<1>5. Tiling'
  BY DEF Tiling, EndOf
<1>6. StopIsNoted' /\ BrokenIsNoted'
  BY <1>2, <1>3 DEF StopIsNoted, BrokenIsNoted
<1>7. WithinLimits'
  BY <1>2 DEF WithinLimits, FramingTypeOK
<1>8. DiagnosticsPoint'
  BY <1>3 DEF DiagnosticsPoint
<1> QED
  BY <1>4, <1>5, <1>6, <1>7, <1>8

(* The next packet begins where the last one ended. *)
LEMMA PacketKeepsFraming ==
  ASSUME FramingInv, FramePacket
  PROVE  FramingInv'
<1> USE SizesAssumption DEF FramingInv, FramePacket, HasHeader, More, PayloadAt, Available
<1>1. PICK declared \in 0 .. MaxDeclared, payload \in Payloads :
        /\ declared <= MaxPayload /\ size - (offset + HeaderSize) >= declared
        /\ packets' = Append(packets,
             [offset |-> offset, length |-> declared, payload |-> payload])
        /\ offset' = offset + HeaderSize + declared
  OBVIOUS
<1> DEFINE p == [offset |-> offset, length |-> declared, payload |-> payload]
<1>2. p \in Packet
  BY <1>1 DEF FramingTypeOK, Packet
<1>3. /\ packets' \in Seq(Packet)
      /\ Len(packets') = Len(packets) + 1
      /\ DOMAIN packets' = 1 .. Len(packets) + 1
      /\ DOMAIN packets = 1 .. Len(packets)
      /\ packets'[Len(packets) + 1] = p
      /\ \A i \in 1 .. Len(packets) : packets'[i] = packets[i]
  BY <1>1, <1>2, AppendKeeps DEF FramingTypeOK
<1>4. diagnostics' = <<>> /\ normalized' = <<>>
  BY DEF StopIsNoted
<1>5. FramingTypeOK'
  BY <1>1, <1>3 DEF FramingTypeOK
<1>6. Tiling'
  <2>0. Len(packets) \in Nat /\ offset \in Nat /\ size \in Nat
    BY DEF FramingTypeOK
  <2>1. packets' # <<>> /\ offset' <= size'
    BY <1>1, <1>3, <2>0
  <2>3. offset' = EndOf(p)
    BY <1>1 DEF EndOf
  <2>2. ASSUME NEW i \in DOMAIN packets'
        PROVE  packets'[i].offset = IF i = 1 THEN 0 ELSE EndOf(packets'[i - 1])
    <3>1. CASE i = Len(packets) + 1
      <4>1. packets'[i].offset = offset
        BY <1>3, <3>1
      <4>2. i = 1 => packets = <<>>
        BY <2>0, <3>1, EmptySeq DEF FramingTypeOK
      <4>3. i # 1 => packets # <<>> /\ packets'[i - 1] = packets[Len(packets)]
        <5>1. i # 1 => Len(packets) \in 1 .. Len(packets) /\ i - 1 = Len(packets)
          BY <2>0, <3>1
        <5>2. i # 1 => packets # <<>>
          BY <2>0, <3>1, EmptySeq
        <5> QED
          BY <1>3, <5>1, <5>2
      <4> QED
        BY <4>1, <4>2, <4>3 DEF Tiling
    <3>2. CASE i \in 1 .. Len(packets)
      <4>1. packets'[i] = packets[i]
        BY <1>3, <3>2
      <4>2. i # 1 => packets'[i - 1] = packets[i - 1]
        BY <1>3, <2>0, <3>2
      <4>3. packets[i].offset = IF i = 1 THEN 0 ELSE EndOf(packets[i - 1])
        BY <1>3, <3>2 DEF Tiling
      <4> QED
        BY <4>1, <4>2, <4>3 DEF EndOf
    <3>3. i = Len(packets) + 1 \/ i \in 1 .. Len(packets)
      BY <1>3, <2>0
    <3> QED
      BY <3>1, <3>2, <3>3
  <2> QED
    BY <1>3, <2>1, <2>2, <2>3 DEF Tiling, EndOf
<1>7. StopIsNoted' /\ BrokenIsNoted' /\ DiagnosticsPoint'
  BY <1>4 DEF StopIsNoted, BrokenIsNoted, DiagnosticsPoint
<1>8. WithinLimits'
  BY <1>3, <1>4 DEF WithinLimits, FramingTypeOK
<1> QED
  BY <1>5, <1>6, <1>7, <1>8

(* The framing ends with the data. *)
LEMMA EndKeepsFraming ==
  ASSUME FramingInv, EndOfData
  PROVE  FramingInv'
<1> USE SizesAssumption DEF FramingInv, EndOfData
<1>1. FramingTypeOK' /\ Tiling'
  BY DEF FramingTypeOK, Tiling, EndOf
<1>2. StopIsNoted' /\ BrokenIsNoted' /\ WithinLimits' /\ DiagnosticsPoint'
  BY DEF FramingTypeOK, Tiling, StopIsNoted, BrokenIsNoted, WithinLimits, DiagnosticsPoint
<1> QED
  BY <1>1, <1>2

(* A packet whose payload is not broken: at most a warning into it. *)
LEMMA EntryKeepsFraming ==
  ASSUME FramingInv, Todo, NEW body \in {"payload", "payload_hex"}, PayloadEntry(body),
         \/ diagnostics' = diagnostics /\ packets[Index].payload # "broken"
         \/ \E e \in {"payload_error", "unsupported_compression"},
               at \in 1 .. HeaderSize + packets[Index].length,
               s \in {"error", "warning"} :
              /\ Note(e, packets[Index].offset + at, Index - 1, s)
              /\ s = "error" \/ packets[Index].payload # "broken"
  PROVE  FramingInv'
<1> USE SizesAssumption DEF FramingInv, Todo, PayloadEntry, Index
<1> DEFINE n == Len(normalized)
           packet == packets[n + 1]
<1>1. /\ n \in Nat /\ n + 1 \in 1 .. Len(packets) /\ packet \in Packet
      /\ normalized' \in Seq({"payload", "payload_hex"})
      /\ Len(normalized') = n + 1
  <2>1. n \in Nat /\ Len(packets) \in Nat
    BY DEF FramingTypeOK
  <2> QED
    BY <2>1, AppendKeeps, ElementOfSeq DEF FramingTypeOK
<1>2. Tiling'
  BY DEF Tiling, EndOf
<1>3. WithinLimits'
  BY <1>1 DEF WithinLimits
<1>4. CASE diagnostics' = diagnostics /\ packet.payload # "broken"
  <2>1. FramingTypeOK'
    BY <1>1, <1>4 DEF FramingTypeOK
  <2>2. StopIsNoted'
    BY <1>4 DEF StopIsNoted
  <2>3. BrokenIsNoted'
    BY <1>1, <1>4 DEF BrokenIsNoted
  <2>4. DiagnosticsPoint'
    BY <1>1, <1>4 DEF DiagnosticsPoint, EndOf
  <2> QED
    BY <1>2, <1>3, <2>1, <2>2, <2>3, <2>4
<1>5. CASE \E e \in {"payload_error", "unsupported_compression"},
              at \in 1 .. HeaderSize + packet.length,
              s \in {"error", "warning"} :
             /\ Note(e, packet.offset + at, n, s)
             /\ s = "error" \/ packet.payload # "broken"
  <2>1. PICK e \in {"payload_error", "unsupported_compression"},
             at \in 1 .. HeaderSize + packet.length,
             s \in {"error", "warning"} :
           /\ Note(e, packet.offset + at, n, s)
           /\ s = "error" \/ packet.payload # "broken"
    BY <1>5
  <2> DEFINE d == [error |-> e, offset |-> packet.offset + at, index |-> n, severity |-> s]
             k == Len(diagnostics)
  <2>2. packet.offset \in Nat /\ packet.length \in Nat /\ at \in Nat
    BY <1>1 DEF Packet
  <2>3. d \in Diagnostic
    BY <1>1, <2>2 DEF WithinLimits, Diagnostic, FramingTypeOK
  <2>4. diagnostics' = Append(diagnostics, d)
    BY <2>1 DEF Note
  <2>5. /\ k \in Nat
        /\ diagnostics' \in Seq(Diagnostic)
        /\ DOMAIN diagnostics = 1 .. k
        /\ DOMAIN diagnostics' = 1 .. k + 1
        /\ diagnostics'[k + 1] = d
        /\ \A i \in 1 .. k : diagnostics'[i] = diagnostics[i]
    BY <2>3, <2>4, AppendKeeps DEF FramingTypeOK
  <2>6. FramingTypeOK'
    BY <1>1, <2>5 DEF FramingTypeOK
  <2>7. StopIsNoted'
    BY <2>5 DEF StopIsNoted
  <2>8. BrokenIsNoted'
    <3> SUFFICES ASSUME NEW i \in 1 .. n + 1, packets[i].payload = "broken"
                 PROVE  \E j \in DOMAIN diagnostics' : diagnostics'[j].severity = "error"
      BY <1>1 DEF BrokenIsNoted
    <3>1. CASE i = n + 1
      <4>1. d.severity = "error"
        BY <2>1, <3>1
      <4>2. k + 1 \in DOMAIN diagnostics'
        BY <2>5
      <4>3. diagnostics'[k + 1].severity = "error"
        BY <2>5, <4>1
      <4> QED
        BY <4>2, <4>3
    <3>2. CASE i \in 1 .. n
      <4>1. PICK j \in 1 .. k : diagnostics[j].severity = "error"
        BY <2>5, <3>2 DEF BrokenIsNoted
      <4>2. j \in DOMAIN diagnostics' /\ diagnostics'[j] = diagnostics[j]
        BY <2>5
      <4> QED
        BY <4>1, <4>2
    <3> QED
      BY <1>1, <3>1, <3>2
  <2>9. DiagnosticsPoint'
    <3>1. ASSUME NEW i \in 1 .. k
          PROVE  LET c == diagnostics[i] IN
                   IF c.error \in FramingErrors
                     THEN i = 1 /\ c.index = Len(packets) /\ offset <= c.offset /\ c.offset <= size
                     ELSE /\ c.index + 1 \in 1 .. n + 1
                          /\ packets[c.index + 1].offset < c.offset
                          /\ c.offset <= EndOf(packets[c.index + 1])
      <4>0. diagnostics[i] \in Diagnostic
        BY <2>5, ElementOfSeq DEF FramingTypeOK
      <4>1. diagnostics[i].index \in Nat
        BY <4>0 DEF Diagnostic
      <4>2. LET c == diagnostics[i] IN
              IF c.error \in FramingErrors
                THEN i = 1 /\ c.index = Len(packets) /\ offset <= c.offset /\ c.offset <= size
                ELSE /\ c.index + 1 \in 1 .. n
                     /\ packets[c.index + 1].offset < c.offset
                     /\ c.offset <= EndOf(packets[c.index + 1])
        BY <2>5 DEF DiagnosticsPoint
      <4> QED
        BY <1>1, <4>1, <4>2
    <3>2. d.error \notin FramingErrors
      BY DEF FramingErrors
    <3>3. d.index + 1 \in 1 .. n + 1 /\ packet.offset < d.offset /\ d.offset <= EndOf(packet)
      BY <1>1, <2>2 DEF EndOf
    <3> QED
      BY <1>1, <2>5, <3>1, <3>2, <3>3 DEF DiagnosticsPoint, EndOf
  <2> QED
    BY <1>2, <1>3, <2>6, <2>7, <2>8, <2>9
<1> QED
  BY <1>4, <1>5

-----------------------------------------------------------------------------
LEMMA NextKeepsFraming == FramingInv /\ [FramingNext]_framingVars => FramingInv'
<1> SUFFICES ASSUME FramingInv, [FramingNext]_framingVars PROVE FramingInv'
  OBVIOUS
<1> USE SizesAssumption
<1>0. offset \in Nat /\ size \in Nat
  BY DEF FramingInv, FramingTypeOK
<1>1. CASE CountLimit
  BY <1>0, <1>1, StopKeepsFraming DEF CountLimit, More, FramingErrors
<1>2. CASE TruncatedHeader
  BY <1>0, <1>2, StopKeepsFraming DEF TruncatedHeader, More, FramingErrors
<1>3. CASE PayloadTooLarge
  <2>1. offset + 3 \in Nat /\ offset <= offset + 3 /\ offset + 3 <= size
    BY <1>0, <1>3 DEF PayloadTooLarge, HasHeader
  <2> QED
    BY <1>3, <2>1, StopKeepsFraming DEF PayloadTooLarge, HasHeader, More, FramingErrors
<1>4. CASE TruncatedPayload
  <2>1. PayloadAt + Available = size
    BY <1>0 DEF PayloadAt, Available
  <2>2. Stop("truncated_payload", size) /\ pc = "frame" /\ offset <= size
    BY <1>0, <1>4, <2>1 DEF TruncatedPayload, HasHeader, More
  <2> QED
    BY <1>0, <2>2, StopKeepsFraming DEF FramingErrors
<1>5. CASE FramePacket
  BY <1>5, PacketKeepsFraming
<1>6. CASE EndOfData
  BY <1>6, EndKeepsFraming
<1>7. CASE DecodeBroken
  <2> DEFINE packet == packets[Index]
  <2>1. packet \in Packet
    BY <1>7, ElementOfSeq DEF DecodeBroken, Todo, Index, FramingInv, FramingTypeOK
  <2>2. packet.length \in Nat /\ packet.offset \in Nat
    BY <2>1 DEF Packet
  <2>3. PICK at \in 0 .. packet.length :
          Note("payload_error", packet.offset + HeaderSize + at, Index - 1, "error")
    BY <1>7 DEF DecodeBroken
  <2>4. /\ HeaderSize + at \in 1 .. HeaderSize + packet.length
        /\ packet.offset + (HeaderSize + at) = packet.offset + HeaderSize + at
    BY <2>2
  <2>5. \E e \in {"payload_error", "unsupported_compression"},
           a \in 1 .. HeaderSize + packet.length, s \in {"error", "warning"} :
          /\ Note(e, packet.offset + a, Index - 1, s)
          /\ s = "error" \/ packet.payload # "broken"
    BY <2>3, <2>4
  <2> QED
    BY <1>7, <2>5, EntryKeepsFraming DEF DecodeBroken
<1>8. CASE DecodeCompressed
  <2> DEFINE packet == packets[Index]
  <2>1. packet \in Packet
    BY <1>8, ElementOfSeq DEF DecodeCompressed, Todo, Index, FramingInv, FramingTypeOK
  <2>2. 2 \in 1 .. HeaderSize + packet.length
    BY <2>1 DEF Packet
  <2>3. \E e \in {"payload_error", "unsupported_compression"},
           a \in 1 .. HeaderSize + packet.length, s \in {"error", "warning"} :
          /\ Note(e, packet.offset + a, Index - 1, s)
          /\ s = "error" \/ packet.payload # "broken"
    BY <1>8, <2>2 DEF DecodeCompressed
  <2> QED
    BY <1>8, <2>3, EntryKeepsFraming DEF DecodeCompressed
<1>9. CASE DecodeOpaque
  BY <1>9, EntryKeepsFraming DEF DecodeOpaque
<1>10. CASE DecodeSemantic
  BY <1>10, EntryKeepsFraming DEF DecodeSemantic
<1>11. CASE Finish
  <2>1. Len(normalized) = Len(packets)
    BY <1>11 DEF Finish, Index, FramingInv, FramingTypeOK, WithinLimits
  <2> QED
    BY <1>11, <2>1
       DEF Finish, FramingInv, FramingTypeOK, Tiling, StopIsNoted, BrokenIsNoted, WithinLimits,
           DiagnosticsPoint, EndOf
<1>12. CASE UNCHANGED framingVars
  BY <1>12
     DEF framingVars, FramingInv, FramingTypeOK, Tiling, StopIsNoted, BrokenIsNoted, WithinLimits,
         DiagnosticsPoint, EndOf
<1> QED
  BY <1>1, <1>2, <1>3, <1>4, <1>5, <1>6, <1>7, <1>8, <1>9, <1>10, <1>11, <1>12 DEF FramingNext

(* The inductive invariant holds throughout. *)
LEMMA AlwaysFraming == FramingSpec => []FramingInv
BY InitFramingInv, NextKeepsFraming, PTL DEF FramingSpec

(* Type correctness of the framing and of the semantic pass. *)
THEOREM FramingTypeCorrect == FramingSpec => []FramingTypeOK
BY AlwaysFraming, PTL DEF FramingInv

(* The framed packets tile the stream up to the remainder, whatever lengths
   the headers declare. *)
THEOREM FramingTiles == FramingSpec => []Tiling
BY AlwaysFraming, PTL DEF FramingInv

(* A body without an error diagnostic was framed to its last byte, and none of
   its payloads failed to decode. *)
THEOREM CompleteBodiesAreWhole == FramingSpec => []CompleteIsWhole
<1>1. FramingInv => CompleteIsWhole
  <2> SUFFICES ASSUME FramingInv, pc = "done", Complete
               PROVE  /\ offset = size
                      /\ Len(normalized) = Len(packets)
                      /\ \A i \in DOMAIN packets : packets[i].payload # "broken"
    BY DEF CompleteIsWhole
  <2>1. ~ \E j \in DOMAIN diagnostics : diagnostics[j].severity = "error"
    BY DEF Complete
  <2>2. offset = size
    BY <2>1 DEF FramingInv, StopIsNoted
  <2>3. Len(normalized) = Len(packets)
    BY DEF FramingInv, WithinLimits
  <2>4. \A i \in DOMAIN packets : packets[i].payload # "broken"
    BY <2>1, <2>3, LenProperties DEF FramingInv, FramingTypeOK, BrokenIsNoted
  <2> QED
    BY <2>2, <2>3, <2>4
<1> QED
  BY <1>1, AlwaysFraming, PTL

(* Every diagnostic points into the part of the stream it is about. *)
THEOREM DiagnosticsPointIntoTheirPart == FramingSpec => []DiagnosticsPoint
BY AlwaysFraming, PTL DEF FramingInv
=============================================================================
