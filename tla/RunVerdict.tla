----------------------------- MODULE RunVerdict ------------------------------
(***************************************************************************)
(* What a run of the conformance runner promises whoever reads its exit    *)
(* code: cases are judged once each, in order; a failure stops the run     *)
(* unless it was told to go on; and the run passes only when nothing it    *)
(* judged failed and, in a complete proof, nothing was skipped.            *)
(***************************************************************************)
EXTENDS Naturals, Sequences

CONSTANT CaseCount       \* transcripts in the corpus

VARIABLES
  policy,    \* [strict: a complete proof, goOn: continue after a failure]
  doubt,     \* a preflight of the run failed
  judged,    \* verdict of each case judged so far
  exit       \* "running", then "passed", "failed" or "crashed"

vars == <<policy, doubt, judged, exit>>

Failed  == \E i \in DOMAIN judged : judged[i] = "failed"
Skipped == \E i \in DOMAIN judged : judged[i] = "skipped"
Stopped == judged # <<>> /\ judged[Len(judged)] = "failed" /\ ~policy.goOn

Init ==
  /\ policy \in [strict : BOOLEAN, goOn : BOOLEAN]
  /\ doubt = FALSE
  /\ judged = <<>>
  /\ exit = "running"

\* A doubt can only arise before the first case, and only in a complete proof.
Doubt ==
  /\ exit = "running" /\ judged = <<>> /\ policy.strict /\ ~doubt
  /\ doubt' = TRUE
  /\ UNCHANGED <<policy, judged, exit>>

Judge(verdict) ==
  /\ exit = "running" /\ Len(judged) < CaseCount /\ ~Stopped
  /\ doubt => policy.goOn
  /\ policy.strict => verdict # "skipped"
  /\ judged' = Append(judged, verdict)
  /\ UNCHANGED <<policy, doubt, exit>>

\* A complete proof that is not well founded judges nothing and fails.
Abort ==
  /\ exit = "running" /\ judged = <<>> /\ policy.strict
  /\ exit' = "failed"
  /\ UNCHANGED <<policy, doubt, judged>>

\* The fixture hook raises: the run ends without a report, and never passes.
Crash ==
  /\ exit = "running"
  /\ exit' \in {"failed", "crashed"}
  /\ UNCHANGED <<policy, doubt, judged>>

Conclude ==
  /\ exit = "running"
  /\ Stopped \/ Len(judged) = CaseCount
  /\ exit' = IF Failed \/ doubt \/ (policy.strict /\ Skipped) THEN "failed" ELSE "passed"
  /\ UNCHANGED <<policy, doubt, judged>>

Next ==
  \/ Doubt
  \/ \E verdict \in {"passed", "failed", "skipped"} : Judge(verdict)
  \/ Abort
  \/ Crash
  \/ Conclude

Spec == Init /\ [][Next]_vars
=============================================================================
