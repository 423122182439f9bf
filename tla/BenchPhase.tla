------------------------------ MODULE BenchPhase -----------------------------
(***************************************************************************)
(* One measured phase of the benchmark, Workload.phase of                  *)
(* src/benchmarks/mixed.py: periodic actors that offer load on a fixed     *)
(* schedule until a deadline and account for the slots they were too slow  *)
(* for, a sampler beside them, and what is verified when the load is over. *)
(*                                                                         *)
(* Time is an integer; the first slot of an actor, a random fraction of    *)
(* its period, is any instant of the first period.                         *)
(***************************************************************************)
EXTENDS Integers, FiniteSets

CONSTANTS
  Actors,     \* the periodic coroutines
  Scorers,    \* those that submit scores
  Every,      \* each actor's period
  Deadline,   \* args.seconds
  Longest,    \* the longest an operation takes: its request times out
  Lag,        \* bound on how late the event loop resumes a sleeper
  Horizon     \* bound on the clock; LoadEndsInTime shows it is not reached

ASSUME PhaseAssumption ==
  /\ IsFiniteSet(Actors) /\ Scorers \subseteq Actors
  /\ Every \in [Actors -> Nat \ {0}]
  /\ Deadline \in Nat \ {0} /\ Longest \in Nat /\ Lag \in Nat
  /\ Horizon \in Nat

VARIABLES
  first,      \* each actor's first slot
  due,        \* the slot its operation is for
  stage,      \* "sleep"ing until it, "busy" with it, "over" or "raised"
  begun,      \* when the operation it is busy with began
  completed,  \* Series.completed of the actor
  missed,     \* Series.missed of the actor
  receipts,   \* score_checksums: the acknowledged scores
  sampler,    \* the sampling task
  sampled,    \* sampling_done is set
  verified,   \* how many scores verify_scores was asked about
  outcome,    \* what phase() came to
  clock

vars == <<first, due, stage, begun, completed, missed, receipts, sampler,
          sampled, verified, outcome, clock>>
load == <<first, due, stage, begun, completed, missed, receipts>>

TypeOK ==
  /\ first \in [Actors -> Nat]
  /\ due \in [Actors -> Nat]
  /\ stage \in [Actors -> {"sleep", "busy", "over", "raised"}]
  /\ begun \in [Actors -> Nat]
  /\ completed \in [Actors -> Nat]
  /\ missed \in [Actors -> Nat]
  /\ receipts \in Nat
  /\ sampler \in {"look", "scrape", "wait", "ended", "crashed"}
  /\ sampled \in BOOLEAN
  /\ verified \in Nat
  /\ outcome \in {"load", "done", "failed"}
  /\ clock \in Nat

\* Mutant: the first slots are drawn around the start of the phase.
FirstSlotsAround ==
  {f \in [Actors -> -1 .. Deadline + 1] : \A a \in Actors : f[a] < Every[a]}

\* rng.random() * period.  One instant after the deadline is like another.
FirstSlots ==
  {f \in [Actors -> 0 .. Deadline + 1] : \A a \in Actors : f[a] < Every[a]}

\* periodic begins by drawing its first slot; one beyond the deadline ends it.
Init ==
  /\ first \in FirstSlots
  /\ due = first
  /\ stage = [a \in Actors |-> IF first[a] < Deadline THEN "sleep" ELSE "over"]
  /\ begun = [a \in Actors |-> 0]
  /\ completed = [a \in Actors |-> 0]
  /\ missed = [a \in Actors |-> 0]
  /\ receipts = 0
  /\ sampler = "look"
  /\ sampled = FALSE
  /\ verified = 0
  /\ outcome = "load"
  /\ clock = 0

-----------------------------------------------------------------------------
(* The actors. *)

Begin(a) ==
  /\ outcome = "load"
  /\ stage[a] = "sleep"
  /\ clock >= due[a]
  /\ stage' = [stage EXCEPT ![a] = "busy"]
  /\ begun' = [begun EXCEPT ![a] = clock]
  /\ UNCHANGED <<first, due, completed, missed, receipts, sampler, sampled,
                 verified, outcome, clock>>

\* Mutant: the slots that passed after the deadline are counted with them.
SkippedBeyond(a) ==
  LET next == due[a] + Every[a]
  IN IF clock > next /\ next < Deadline
       THEN (clock - next) \div Every[a] + 1
       ELSE 0

\* The slots that passed while the operation ran, of those before the deadline.
Skipped(a) ==
  LET next == due[a] + Every[a]
      last == IF clock < Deadline THEN clock ELSE Deadline
  IN IF clock > next /\ next < Deadline
       THEN (last - next) \div Every[a] + 1
       ELSE 0

\* Mutant: an actor that is behind catches up on the slots it missed.
EndWithoutSkipping(a, valid) ==
  /\ outcome = "load"
  /\ stage[a] = "busy"
  /\ completed' = [completed EXCEPT ![a] = @ + 1]
  /\ due' = [due EXCEPT ![a] = @ + Every[a]]
  /\ stage' = [stage EXCEPT ![a] = IF due'[a] < Deadline THEN "sleep" ELSE "over"]
  /\ receipts' = IF valid /\ a \in Scorers THEN receipts + 1 ELSE receipts
  /\ UNCHANGED <<first, begun, missed, sampler, sampled, verified, outcome, clock>>

\* The operation returns: counted, with its receipt if it is a valid score,
\* and the schedule goes on at the first slot that has not passed.
End(a, valid) ==
  /\ outcome = "load"
  /\ stage[a] = "busy"
  /\ completed' = [completed EXCEPT ![a] = @ + 1]
  /\ missed' = [missed EXCEPT ![a] = @ + Skipped(a)]
  /\ due' = [due EXCEPT ![a] = @ + (1 + Skipped(a)) * Every[a]]
  /\ stage' = [stage EXCEPT ![a] = IF due'[a] < Deadline THEN "sleep" ELSE "over"]
  /\ receipts' = IF valid /\ a \in Scorers THEN receipts + 1 ELSE receipts
  /\ UNCHANGED <<first, begun, sampler, sampled, verified, outcome, clock>>

\* An exception of the operation (BenchClient!NoStatus, too many receipts)
\* ends the actor and the gather; the other actors go on.
Raise(a) ==
  /\ outcome = "load"
  /\ stage[a] = "busy"
  /\ stage' = [stage EXCEPT ![a] = "raised"]
  /\ UNCHANGED <<first, due, begun, completed, missed, receipts, sampler,
                 sampled, verified, outcome, clock>>

-----------------------------------------------------------------------------
(* The sampler and the end of the phase. *)

Look ==
  /\ outcome = "load"
  /\ sampler = "look"
  /\ sampler' = IF sampled THEN "ended" ELSE "scrape"
  /\ UNCHANGED <<load, sampled, verified, outcome, clock>>

\* The scrape's RuntimeError is caught, every other exception ends the task.
Sample ==
  /\ outcome = "load"
  /\ sampler = "scrape"
  /\ sampler' \in {"wait", "crashed"}
  /\ UNCHANGED <<load, sampled, verified, outcome, clock>>

\* Five seconds or sampling_done, whichever is first.
Rest ==
  /\ outcome = "load"
  /\ sampler = "wait"
  /\ sampler' = "look"
  /\ UNCHANGED <<load, sampled, verified, outcome, clock>>

AllOver  == \A a \in Actors : stage[a] = "over"
AnyRaised == \E a \in Actors : stage[a] = "raised"

\* Mutant: the first actor to end ends the load.
GatheredFirst == ~sampled /\ \E a \in Actors : stage[a] \in {"over", "raised"}

\* Mutant: sampling_done is set after the gather, not in the finally block.
GatheredWell == ~sampled /\ AllOver

Gathered == ~sampled /\ (AllOver \/ AnyRaised)

\* The gather returns or raises: the finally block ends the sampler.
StopSampling ==
  /\ outcome = "load"
  /\ Gathered
  /\ sampled' = TRUE
  /\ UNCHANGED <<load, sampler, verified, outcome, clock>>

\* The load was gathered without an exception, and so was the sampler.
Conclude ==
  /\ outcome = "load"
  /\ sampled
  /\ sampler = "ended"
  /\ ~AnyRaised
  /\ \/ outcome' = "done" /\ verified' = receipts
     \/ outcome' = "failed" /\ UNCHANGED verified      \* the last scrape
  /\ UNCHANGED <<load, sampler, sampled, clock>>

Fail ==
  /\ outcome = "load"
  /\ sampled
  /\ \/ sampler = "crashed"
     \/ sampler = "ended" /\ AnyRaised
  /\ outcome' = "failed"
  /\ UNCHANGED <<load, sampler, sampled, verified, clock>>

\* Time passes unless an actor is at its latest.  The sampler is not timed:
\* its wait and its scrape end at some instant.
Tick ==
  /\ outcome = "load"
  /\ ~sampled
  /\ ~Gathered
  /\ clock < Horizon
  /\ \A a \in Actors :
       /\ stage[a] = "sleep" => clock < due[a] + Lag
       /\ stage[a] = "busy" => clock < begun[a] + Longest
  /\ clock' = clock + 1
  /\ UNCHANGED <<load, sampler, sampled, verified, outcome>>

Next ==
  \/ \E a \in Actors : Begin(a) \/ Raise(a) \/ \E valid \in BOOLEAN : End(a, valid)
  \/ Look \/ Sample \/ Rest
  \/ StopSampling \/ Conclude \/ Fail
  \/ Tick

\* The event loop runs the actors' timers, the sampler's and the main task.
Spec ==
  /\ Init /\ [][Next]_vars
  /\ WF_vars(Tick)
  /\ WF_vars(Look) /\ WF_vars(Sample) /\ WF_vars(Rest)
  /\ WF_vars(StopSampling) /\ WF_vars(Conclude) /\ WF_vars(Fail)
  /\ \A a \in Actors :
       WF_vars(Begin(a)) /\ WF_vars(Raise(a) \/ End(a, TRUE) \/ End(a, FALSE))

-----------------------------------------------------------------------------
(* Properties. *)

SlotsOf(a)   == {k \in 0 .. Deadline : first[a] + k * Every[a] < Deadline}
SlotAtDeadline(a) == (Deadline - first[a]) % Every[a] = 0

\* "slow actors report missed slots instead of silently pretending a lower
\* offered rate was the target" (benchmarks/README.md): when an actor is over,
\* every slot of its schedule was served or reported as missed, once.  An
\* operation that runs over a deadline that falls exactly on a slot reports
\* that slot too, although the schedule does not offer it.
EverySlotAccounted ==
  \A a \in Actors : stage[a] = "over" =>
    LET counted == completed[a] + missed[a]
        slots == Cardinality(SlotsOf(a))
    IN counted = slots \/ (SlotAtDeadline(a) /\ missed[a] > 0 /\ counted = slots + 1)

\* The load stops: no actor, however slow its operations were, is still busy
\* later than one event loop lag and one operation after the deadline.
LoadEndsInTime == clock <= Deadline + Lag + Longest

\* The scores that are verified are all those the phase got a receipt for: no
\* actor can add one after the verification asked.
VerifiesEveryReceipt ==
  outcome = "done" =>
    /\ verified = receipts
    /\ \A a \in Actors : stage[a] = "over"

\* The phase ends, in a report or in a failure, with its sampler.
PhaseEnds == <>(outcome # "load" /\ sampler \in {"ended", "crashed"})
=============================================================================
