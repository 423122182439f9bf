--------------------------- MODULE ConformanceRun ----------------------------
(***************************************************************************)
(* run_transcripts of src/runner.py and what it calls: the complete-run    *)
(* dry validation, the session preflights, the fixture hook, the mutation  *)
(* gates, the steps of each case sent to both targets, the captures that   *)
(* flow into later requests, the comparison and the causal response        *)
(* groups, and the verdict src/run.py turns into an exit code.             *)
(*                                                                         *)
(* The runner is one thread; each target client behaves as ClientPromise   *)
(* says, so the request of a failed or expired call may still reach its    *)
(* server while the run goes on.  Reply contents are abstract: a body is   *)
(* its sequence of packets after normalisation, and `stage' says where the *)
(* step's own checks rejected the reply, if they did.                      *)
(***************************************************************************)
EXTENDS Naturals, Sequences, SequencesExt

CONSTANTS
  Order,       \* names of the selected targets, in the order of `states'
  Corpus,      \* the transcripts in run order
  Configs,     \* the configurations and options a run may start with
  Vars,        \* names of fixture variables and captures
  Nested,      \* the variables and session roles named by a dotted path
  Sessions,    \* session roles, each with a token per target
  Statuses,    \* HTTP statuses a target may answer with
  Bodies       \* packet sequences a target may answer with

ASSUME NestedAssumption == Nested \subseteq Vars \cup Sessions

ASSUME OrderAssumption ==
  Order \in {<<"zigcho">>, <<"reference">>,
             <<"zigcho", "reference">>, <<"reference", "zigcho">>}

\* A session's status request is answered with 200; the HTTP library gives the
\* client no status of fewer or more than three digits.
ASSUME StatusesAssumption == 200 \in Statuses /\ Statuses \subseteq 100 .. 999

Targets == {Order[i] : i \in DOMAIN Order}
Cases   == DOMAIN Corpus
Quality == {"absent", "good", "bad"}   \* bad: no valid request renders from it

\* A step sends one request for `session', rendered from `uses'; it saves
\* `captures' in order, normalises by `rules' that name the variables `masks',
\* and compares the fields `compares' in the way `judge' says (`allowed': the
\* statuses a policy matrix grants each target).
Step == [session : Sessions, uses : SUBSET Vars, captures : Seq(Vars),
         rules : BOOLEAN, masks : SUBSET Vars, compares : SUBSET {"status", "body"},
         judge : {"difference", "policy", "score"},
         allowed : [Targets -> SUBSET Statuses]]

\* `groups' holds the first step of each causal response group of two steps,
\* `groupRules' whether they normalise; `rotates' the sessions whose token the
\* fixture hook replaces before the case.
Transcript == [mutates : BOOLEAN, requires : SUBSET Vars, bindings : Seq(Sessions),
               steps : Seq(Step), groups : SUBSET Nat, groupRules : BOOLEAN,
               rotates : SUBSET Sessions]

\* `roles': every token and user id is well typed and belongs to one role.
Config == [allowMutating : BOOLEAN, requireAll : BOOLEAN, goOn : BOOLEAN,
           hook : BOOLEAN, roles : BOOLEAN, allows : [Targets -> BOOLEAN],
           fixture : [Targets -> [Vars -> Quality]]]

ASSUME CorpusAssumption ==
  /\ Corpus \in Seq(Transcript) /\ Corpus # <<>>
  /\ \A c \in Cases :
       LET steps == Corpus[c].steps
           saved == FlattenSeq([k \in DOMAIN steps |-> steps[k].captures])
       IN  /\ steps # <<>>
           /\ \A g \in Corpus[c].groups :
                /\ g > 0 /\ g + 1 \in DOMAIN steps /\ g + 1 \notin Corpus[c].groups
                /\ \A k \in {g, g + 1} : steps[k].judge = "difference"
           \* A capture name is saved once, shadows no requirement and is not
           \* used by a step at or before the one that saves it.
           /\ \A i, j \in DOMAIN saved : saved[i] = saved[j] => i = j
           /\ ToSet(saved) \cap Corpus[c].requires = {}
           /\ \A j, k \in DOMAIN steps :
                j <= k => steps[j].uses \cap ToSet(steps[k].captures) = {}
  /\ Configs \subseteq Config

VARIABLES
  config,      \* the run's options and configuration
  variables,   \* TargetState.variables of each target
  token,       \* version of each session's token at each target
  poisoned,    \* TargetClient._poisoned of each target's client
  log,         \* the calls made through each target's client, in order
  pc,          \* where the runner's thread is
  case,        \* transcript under way, 0 before the first
  binding,     \* session binding under way
  step,        \* step under way
  turn,        \* index in Order of the target whose turn it is
  canonical,   \* canonical reply of each target for the step under way
  errors,      \* targets whose reply to the step was rejected
  history,     \* canonical replies of the case's earlier steps
  preflights,  \* reports of the preflights made last
  cases,       \* verdict of each finished case
  exit         \* "running", then "passed", "failed" or "crashed"

targetVars  == <<variables, token, poisoned, log>>
controlVars == <<case, binding, step, turn, canonical, errors, history, preflights, cases>>
vars == <<config, targetVars, pc, controlVars, exit>>

None == [status |-> 0, body |-> <<>>]

-----------------------------------------------------------------------------
(* Helpers over the transcript under way. *)

This      == Corpus[case]
ThisStep  == This.steps[step]
Both      == Len(Order) = 2
Grouped   == step \in This.groups \/ step - 1 \in This.groups
EndsGroup == step - 1 \in This.groups

CapturedBefore(c, k) == UNION {ToSet(Corpus[c].steps[j].captures) : j \in 1 .. k - 1}

Present(t, v) == variables[t][v] # "absent"

\* prepare_request and the client packet check succeed on today's variables.
Renders(t, st) == \A v \in st.uses : variables[t][v] = "good"

\* Mutant: one willing target is enough.
GatesAny(c) == Corpus[c].mutates => config.allowMutating /\ \E t \in Targets : config.allows[t]

Gates(c) == Corpus[c].mutates => config.allowMutating /\ \A t \in Targets : config.allows[t]

\* The sessions seen, and after them those of some bindings not seen before.
Collected(seen, bindings) ==
  LET after[i \in 0 .. Len(bindings)] ==
        IF i = 0 THEN seen
        ELSE IF bindings[i] \in ToSet(after[i - 1]) THEN after[i - 1]
        ELSE Append(after[i - 1], bindings[i])
  IN  after[Len(bindings)]

\* Session bindings in order of first appearance over the whole corpus.
AllBindings ==
  LET collected[c \in 0 .. Len(Corpus)] ==
        IF c = 0 THEN <<>> ELSE Collected(collected[c - 1], Corpus[c].bindings)
  IN  collected[Len(Corpus)]

\* The bindings being challenged: the run's before the first case, else the case's.
Bindings == IF case = 0 THEN AllBindings ELSE This.bindings

-----------------------------------------------------------------------------
(* The dry validation of a complete run. *)

\* Mutant: the plan only asks whether the variables exist, not whether the
\* requests encode.
PlanRejectsAbsent(c, k, t) ==
  LET st     == Corpus[c].steps[k]
      before == CapturedBefore(c, k)
      after  == before \cup ToSet(st.captures)
  IN  \/ \E v \in st.uses : v \notin before /\ ~Present(t, v)
      \/ \E v \in ToSet(st.captures) : v \in before \/ Present(t, v)
      \/ \E v \in st.masks : v \notin after /\ ~Present(t, v)

\* _validate_complete_variable_plan for step k of case c at target t.
PlanRejects(c, k, t) ==
  LET st     == Corpus[c].steps[k]
      before == CapturedBefore(c, k)
      after  == before \cup ToSet(st.captures)
  IN  \/ \E v \in st.uses : v \notin before /\ variables[t][v] # "good"
      \/ \E v \in ToSet(st.captures) : v \in before \/ Present(t, v)
      \/ \E v \in st.masks : v \notin after /\ ~Present(t, v)

\* _validate_complete_run_requirements.
CompleteRunRejects ==
  \/ ~Both \/ ~config.roles
  \/ \E c \in Cases : ~Gates(c)
  \/ \E c \in Cases, t \in Targets : \E v \in Corpus[c].requires : ~Present(t, v)
  \/ \E c \in Cases, t \in Targets : \E k \in DOMAIN Corpus[c].steps : PlanRejects(c, k, t)

-----------------------------------------------------------------------------
TypeOK ==
  /\ config \in Config
  /\ variables \in [Targets -> [Vars -> Quality]]
  /\ token \in [Targets -> [Sessions -> Nat]]
  /\ poisoned \in [Targets -> BOOLEAN]
  /\ \A t \in Targets : \A i \in DOMAIN log[t] :
       /\ log[t][i].outcome \in {"answered", "failed", "expired", "refused"}
       /\ log[t][i].reached \in BOOLEAN
  /\ pc \in {"start", "preflight", "prepare", "case", "validate", "exchange",
             "judge", "group", "summary", "done"}
  /\ case \in 0 .. Len(Corpus)
  /\ binding \in Nat /\ step \in Nat /\ turn \in Nat
  /\ \A t \in Targets : canonical[t] \in [status : Statuses \cup {0}, body : Bodies \cup {<<>>}]
  /\ errors \subseteq Targets
  /\ preflights \in Seq([passed : BOOLEAN, verified : BOOLEAN])
  /\ cases \in Seq({"passed", "failed", "skipped"})
  /\ exit \in {"running", "passed", "failed", "crashed"}

Init ==
  /\ config \in Configs
  /\ variables = config.fixture
  /\ token = [t \in Targets |-> [s \in Sessions |-> 0]]
  /\ poisoned = [t \in Targets |-> FALSE]
  /\ log = [t \in Targets |-> <<>>]
  /\ pc = "start"
  /\ case = 0 /\ binding = 1 /\ step = 1 /\ turn = 1
  /\ canonical = [t \in Targets |-> None]
  /\ errors = {}
  /\ history = <<>>
  /\ preflights = <<>>
  /\ cases = <<>>
  /\ exit = "running"

-----------------------------------------------------------------------------
(* One call through a target's client (ClientPromise). *)

\* `at' is the step the call belongs to, 0 for a challenge of the session.
Call(t, at, session, outcome, arrived, reply) ==
  /\ log' = [log EXCEPT ![t] = Append(@,
       [case |-> case, step |-> at, session |-> session, token |-> token[t][session],
        outcome |-> outcome, reached |-> arrived, reply |-> reply])]
  /\ poisoned' = [poisoned EXCEPT ![t] = @ \/ outcome = "expired"]

\* TransportError: refused, failed, or the wall deadline.  Whether and when the
\* request of a failed or expired call reaches its server is left to ArriveLate.
CallFails(t, at, session) ==
  \/ poisoned[t] /\ Call(t, at, session, "refused", FALSE, None)
  \/ /\ ~poisoned[t]
     /\ \E outcome \in {"failed", "expired"} : Call(t, at, session, outcome, FALSE, None)

CallAnswers(t, at, session, reply) ==
  ~poisoned[t] /\ Call(t, at, session, "answered", TRUE, reply)

\* The request of a call that failed or was given up reaches its server, at once
\* or while the run goes on.
ArriveLate(t) ==
  /\ \E i \in DOMAIN log[t] :
       /\ log[t][i].outcome \in {"failed", "expired"}
       /\ ~log[t][i].reached
       /\ log' = [log EXCEPT ![t][i].reached = TRUE]
  /\ UNCHANGED <<config, variables, token, poisoned, pc, controlVars, exit>>

-----------------------------------------------------------------------------
(* The start of the run. *)

\* ConfigError out of run_transcripts: run.py reports it and fails.
RejectRun ==
  /\ pc = "start"
  /\ config.requireAll /\ CompleteRunRejects
  /\ pc' = "done" /\ exit' = "failed"
  /\ UNCHANGED <<config, targetVars, controlVars>>

StartRun ==
  /\ pc = "start"
  /\ ~(config.requireAll /\ CompleteRunRejects)
  /\ IF config.requireAll
       THEN pc' = "preflight" /\ UNCHANGED case
       ELSE pc' = "prepare" /\ case' = 1
  /\ UNCHANGED <<config, targetVars, binding, step, turn, canonical, errors, history,
                 preflights, cases, exit>>

-----------------------------------------------------------------------------
(* _run_session_preflights, for the run or for one case. *)

Report(passed, verified) ==
  /\ preflights' = Append(preflights, [passed |-> passed, verified |-> verified])
  /\ binding' = binding + 1
  /\ turn' = 1
  /\ canonical' = [t \in Targets |-> None]

\* The reply names the configured user: go on to the next target, or compare.
ChallengeAnswered ==
  /\ pc = "preflight" /\ binding <= Len(Bindings)
  /\ Bindings[binding] \notin Nested
  /\ LET t == Order[turn] IN
     \E body \in Bodies :
       LET reply == [status |-> 200, body |-> body] IN
       /\ CallAnswers(t, 0, Bindings[binding], reply)
       /\ IF turn < Len(Order)
            THEN /\ canonical' = [canonical EXCEPT ![t] = reply]
                 /\ turn' = turn + 1
                 /\ UNCHANGED <<preflights, binding>>
            ELSE Report(Both => canonical[Order[1]] = reply, TRUE)
  /\ UNCHANGED <<config, variables, token, pc, case, step, errors, history, cases, exit>>

\* A transport error, a reply that is not the configured user's status, or a
\* user id that cannot be masked: the binding fails at its first bad target,
\* the other one is not asked.
ChallengeFails ==
  /\ pc = "preflight" /\ binding <= Len(Bindings)
  /\ LET t == Order[turn] IN
       \/ CallFails(t, 0, Bindings[binding])
       \/ CallAnswers(t, 0, Bindings[binding], None)
  /\ Report(FALSE, FALSE)
  /\ UNCHANGED <<config, variables, token, pc, case, step, errors, history, cases, exit>>

AllPassed   == \A i \in DOMAIN preflights : preflights[i].passed
AllVerified == \A i \in DOMAIN preflights : preflights[i].verified

\* Mutant: --continue-on-failure alone carries the run past its preflights.
EndRunPreflightsAnyway ==
  /\ pc = "preflight" /\ case = 0 /\ binding > Len(Bindings)
  /\ IF AllPassed \/ config.goOn
       THEN pc' = "prepare" /\ case' = 1 /\ UNCHANGED exit
       ELSE pc' = "done" /\ exit' = "failed" /\ UNCHANGED case
  /\ UNCHANGED <<config, targetVars, binding, step, turn, canonical, errors, history,
                 preflights, cases>>

\* Mutant: no way on from a preflight that failed.
EndRunPreflightsWaits ==
  /\ pc = "preflight" /\ case = 0 /\ binding > Len(Bindings)
  /\ AllPassed \/ (config.goOn /\ AllVerified)
  /\ pc' = "prepare" /\ case' = 1
  /\ UNCHANGED <<config, targetVars, binding, step, turn, canonical, errors, history,
                 preflights, cases, exit>>

\* After the run's preflights: go on when all passed, or when the run was told
\* to and every identity was verified; else report one failure and no case.
EndRunPreflights ==
  /\ pc = "preflight" /\ case = 0 /\ binding > Len(Bindings)
  /\ IF AllPassed \/ (config.goOn /\ AllVerified)
       THEN pc' = "prepare" /\ case' = 1 /\ UNCHANGED exit
       ELSE pc' = "done" /\ exit' = "failed" /\ UNCHANGED case
  /\ UNCHANGED <<config, targetVars, binding, step, turn, canonical, errors, history,
                 preflights, cases>>

-----------------------------------------------------------------------------
(* The loop over the cases. *)

\* The fixture hook, when there is one: it may replace session tokens.
Prepare ==
  /\ pc = "prepare"
  /\ token' = [t \in Targets |-> [s \in Sessions |->
                 IF config.hook /\ s \in This.rotates THEN token[t][s] + 1 ELSE token[t][s]]]
  /\ pc' = "case"
  /\ UNCHANGED <<config, variables, poisoned, log, controlVars, exit>>

\* It raises when its own traffic fails.  run.py turns an OSError or ValueError
\* into a bare failure and lets any other exception through: either way the
\* reports of the cases already run are not written.
PrepareRaises ==
  /\ pc = "prepare"
  /\ config.hook
  /\ pc' = "done" /\ exit' \in {"failed", "crashed"}
  /\ UNCHANGED <<config, targetVars, controlVars>>

\* Mutant: the loop runs one case too many.
EndCaseTooLate(verdict) ==
  /\ cases' = Append(cases, verdict)
  /\ IF case > Len(Corpus) \/ (verdict = "failed" /\ ~config.goOn)
       THEN pc' = "summary" /\ UNCHANGED case
       ELSE pc' = "prepare" /\ case' = case + 1

\* Mutant: a failed case never stops the run.
EndCaseGoesOn(verdict) ==
  /\ cases' = Append(cases, verdict)
  /\ IF case = Len(Corpus)
       THEN pc' = "summary" /\ UNCHANGED case
       ELSE pc' = "prepare" /\ case' = case + 1

\* The end of a case: append its report, then the next case or the summary.
EndCase(verdict) ==
  /\ cases' = Append(cases, verdict)
  /\ IF case = Len(Corpus) \/ (verdict = "failed" /\ ~config.goOn)
       THEN pc' = "summary" /\ UNCHANGED case
       ELSE pc' = "prepare" /\ case' = case + 1

\* The mutation gates and the required variables.
Skips == ~Gates(case) \/ \E t \in Targets : \E v \in This.requires : ~Present(t, v)

SkipCase ==
  /\ pc = "case"
  /\ Skips
  /\ EndCase("skipped")
  /\ UNCHANGED <<config, targetVars, binding, step, turn, canonical, errors, history,
                 preflights, exit>>

\* Outside a complete run the case's own sessions are challenged first.
StartCase ==
  /\ pc = "case"
  /\ ~Skips
  /\ step' = 1 /\ turn' = 1
  /\ canonical' = [t \in Targets |-> None]
  /\ errors' = {}
  /\ history' = <<>>
  /\ IF config.requireAll
       THEN pc' = "validate" /\ UNCHANGED <<preflights, binding>>
       ELSE pc' = "preflight" /\ preflights' = <<>> /\ binding' = 1
  /\ UNCHANGED <<config, targetVars, case, cases, exit>>

EndCasePreflights ==
  /\ pc = "preflight" /\ case > 0 /\ binding > Len(Bindings)
  /\ IF AllPassed
       THEN pc' = "validate" /\ UNCHANGED <<case, cases>>
       ELSE EndCase("failed")
  /\ UNCHANGED <<config, targetVars, binding, step, turn, canonical, errors, history,
                 preflights, exit>>

-----------------------------------------------------------------------------
(* _run_step. *)

\* Mutant: each request is left to be rendered when it is sent; only the first
\* is checked here.
ValidateFirst ==
  /\ pc = "validate"
  /\ Renders(Order[1], ThisStep)
  /\ pc' = "exchange"
  /\ turn' = 1 /\ errors' = {}
  /\ canonical' = [t \in Targets |-> None]
  /\ UNCHANGED <<config, targetVars, case, binding, step, history, preflights, cases, exit>>

\* Both requests are rendered before either target is sent one.
Validate ==
  /\ pc = "validate"
  /\ \A t \in Targets : Renders(t, ThisStep)
  /\ pc' = "exchange"
  /\ turn' = 1 /\ errors' = {}
  /\ canonical' = [t \in Targets |-> None]
  /\ UNCHANGED <<config, targetVars, case, binding, step, history, preflights, cases, exit>>

ValidateFails ==
  /\ pc = "validate"
  /\ \E t \in Targets : ~Renders(t, ThisStep)
  /\ EndCase("failed")
  /\ UNCHANGED <<config, targetVars, binding, step, turn, canonical, errors, history,
                 preflights, exit>>

\* On to the other target whatever became of this one.
NextTurn ==
  IF turn < Len(Order) THEN turn' = turn + 1 /\ UNCHANGED pc
                       ELSE pc' = "judge" /\ UNCHANGED turn

\* _apply_captures saves the first n captures into this target's variables
\* (values good or bad for rendering) before the n+1st, if any, raises.
Capture(t, n) ==
  \E value \in [1 .. n -> {"good", "bad"}] :
    variables' = [variables EXCEPT ![t] = [v \in Vars |->
      IF \E i \in 1 .. n : ThisStep.captures[i] = v
        THEN value[CHOOSE i \in 1 .. n : ThisStep.captures[i] = v]
        ELSE variables[t][v]]]

\* The fields of the reply this step compares.
Project(reply) ==
  [status |-> IF "status" \in ThisStep.compares THEN reply.status ELSE 0,
   body   |-> IF "body" \in ThisStep.compares THEN reply.body ELSE <<>>]

\* The variables a rule names and does not find when the reply is masked: those
\* without a value by then, and those under a dotted path, because _replacement
\* looks the whole name up as one key.
Missed(t) == {v \in ThisStep.masks :
                v \in Nested \/ ~(Present(t, v) \/ v \in ToSet(ThisStep.captures))}

Maskable(t) == Missed(t) = {}

\* The reply passes the step's checks, its captures are saved, it is masked.
Accept ==
  /\ pc = "exchange"
  /\ LET t == Order[turn] IN
     \E status \in Statuses, body \in Bodies :
       /\ Maskable(t)
       /\ CallAnswers(t, step, ThisStep.session, [status |-> status, body |-> body])
       /\ Capture(t, Len(ThisStep.captures))
       /\ canonical' = [canonical EXCEPT ![t] = Project([status |-> status, body |-> body])]
  /\ NextTurn
  /\ UNCHANGED <<config, token, case, binding, step, errors, history, preflights, cases, exit>>

\* Mutant: a rejected reply ends the exchange.
RejectReplyStops ==
  /\ pc = "exchange"
  /\ LET t == Order[turn] IN
       /\ CallAnswers(t, step, ThisStep.session, None)
       /\ Capture(t, 0)
       /\ errors' = errors \cup {t}
  /\ pc' = "judge"
  /\ UNCHANGED <<config, token, case, binding, step, turn, canonical, history, preflights,
                 cases, exit>>

\* The reply is rejected: by decoding or an expectation (no capture saved), by
\* a capture (the earlier ones stay), or by a normalizer (all of them stay).
RejectReply ==
  /\ pc = "exchange"
  /\ LET t == Order[turn] IN
       /\ CallAnswers(t, step, ThisStep.session, None)
       /\ \E n \in 0 .. Len(ThisStep.captures) :
            /\ n = Len(ThisStep.captures) /\ n > 0 => ThisStep.rules
            /\ Capture(t, n)
       /\ errors' = errors \cup {t}
  /\ NextTurn
  /\ UNCHANGED <<config, token, case, binding, step, canonical, history, preflights, cases, exit>>

ExchangeFails ==
  /\ pc = "exchange"
  /\ LET t == Order[turn] IN
       /\ CallFails(t, step, ThisStep.session)
       /\ errors' = errors \cup {t}
  /\ NextTurn
  /\ UNCHANGED <<config, variables, token, case, binding, step, canonical, history, preflights,
                 cases, exit>>

-----------------------------------------------------------------------------
(* The comparison of the step's two replies. *)

Agree == Both => canonical[Order[1]] = canonical[Order[2]]

\* A policy matrix allows each target its own statuses; the rest of the matrix
\* is a check the replies may also fail.
PolicyHolds ==
  /\ Both
  /\ \A t \in Targets : Last(log[t]).reply.status \in ThisStep.allowed[t]

\* What is left of a reply when the step passes.  A score chart keeps only the
\* shared part, which must agree; a group's steps are compared later, together.
StepPasses ==
  /\ errors = {}
  /\ \/ ThisStep.judge = "policy" /\ PolicyHolds
     \/ ThisStep.judge = "difference" /\ (Grouped \/ Agree)
     \/ ThisStep.judge = "score" /\ Both /\ Agree

\* Where _check_policy_matrix or the score chart contract reads more of the
\* replies than this model keeps, they may reject what StepPasses accepts.
StepFails ==
  ~StepPasses \/ ThisStep.judge \in {"policy", "score"}

PassStep ==
  /\ pc = "judge"
  /\ StepPasses
  /\ history' = Append(history, canonical)
  /\ IF EndsGroup THEN pc' = "group" /\ UNCHANGED <<case, step, cases>>
     ELSE IF step < Len(This.steps)
       THEN pc' = "validate" /\ step' = step + 1 /\ UNCHANGED <<case, cases>>
       ELSE EndCase("passed") /\ UNCHANGED step
  /\ UNCHANGED <<config, targetVars, binding, turn, canonical, errors, preflights, exit>>

FailStep ==
  /\ pc = "judge"
  /\ StepFails
  /\ EndCase("failed")
  /\ UNCHANGED <<config, targetVars, binding, step, turn, canonical, errors, history,
                 preflights, exit>>

\* Mutant: only the drain is compared.
GroupBodyOfDrain(t) == history[step][t].body

\* _check_response_group: the two steps' packets, concatenated per target.
GroupBody(t) == history[step - 1][t].body \o history[step][t].body
GroupReads   == \A k \in {step - 1, step} : "body" \in This.steps[k].compares
GroupAgrees  == Both => GroupReads /\ GroupBody(Order[1]) = GroupBody(Order[2])

PassGroup ==
  /\ pc = "group"
  /\ GroupAgrees
  /\ IF step < Len(This.steps)
       THEN pc' = "validate" /\ step' = step + 1 /\ UNCHANGED <<case, cases>>
       ELSE EndCase("passed") /\ UNCHANGED step
  /\ UNCHANGED <<config, targetVars, binding, turn, canonical, errors, history, preflights, exit>>

FailGroup ==
  /\ pc = "group"
  /\ ~GroupAgrees \/ (Both /\ This.groupRules)
  /\ EndCase("failed")
  /\ UNCHANGED <<config, targetVars, binding, step, turn, canonical, errors, history,
                 preflights, exit>>

-----------------------------------------------------------------------------
(* The summary, and the exit code run.py makes of it. *)

RunPreflights == IF config.requireAll THEN preflights ELSE <<>>
InDoubt       == \E i \in DOMAIN RunPreflights : ~RunPreflights[i].passed
Count(verdict) == {i \in DOMAIN cases : cases[i] = verdict}

\* Mutant: the last case speaks for the run.
SummariseLast ==
  /\ pc = "summary"
  /\ pc' = "done"
  /\ exit' = IF Last(cases) # "passed" THEN "failed" ELSE "passed"
  /\ UNCHANGED <<config, targetVars, controlVars>>

Summarise ==
  /\ pc = "summary"
  /\ pc' = "done"
  /\ exit' = IF \/ Count("failed") # {}
                \/ InDoubt
                \/ config.requireAll /\ Count("skipped") # {}
               THEN "failed" ELSE "passed"
  /\ UNCHANGED <<config, targetVars, controlVars>>

Run ==
  \/ RejectRun \/ StartRun
  \/ ChallengeAnswered \/ ChallengeFails \/ EndRunPreflights
  \/ Prepare \/ PrepareRaises
  \/ SkipCase \/ StartCase \/ EndCasePreflights
  \/ Validate \/ ValidateFails
  \/ Accept \/ RejectReply \/ ExchangeFails
  \/ PassStep \/ FailStep \/ PassGroup \/ FailGroup
  \/ Summarise

Next == Run \/ \E t \in Targets : ArriveLate(t)

\* Every call of the runner returns (TransportClient's EveryCallReturns), so
\* its thread always takes its next step.
Spec == Init /\ [][Next]_vars /\ WF_vars(Run)

-----------------------------------------------------------------------------
(* Properties *)

\* The calls of target t that carried a transcript step, the steps they carried,
\* and that these follow the corpus: no step twice and none after a later one.
StepCalls(t)  == {i \in DOMAIN log[t] : log[t][i].step > 0}
Place(call)   == <<call.case, call.step>>
StepsAsked(t) == {Place(log[t][i]) : i \in StepCalls(t)}
InCorpusOrder(t) ==
  \A i, j \in StepCalls(t) : i < j =>
    \/ log[t][i].case < log[t][j].case
    \/ log[t][i].case = log[t][j].case /\ log[t][i].step < log[t][j].step

AllSteps == UNION {{<<c, k>> : k \in DOMAIN Corpus[c].steps} : c \in Cases}

\* The two isolated targets are asked the same steps in the same order: a
\* rejected reply, a failed capture or a dead client of the first target does
\* not keep the validated request from the second.
SameStepsToBoth ==
  /\ \A t \in Targets : InCorpusOrder(t)
  /\ pc # "exchange" => \A t, u \in Targets : StepsAsked(t) = StepsAsked(u)

\* Both requests are valid before either target can be mutated: while a step is
\* exchanged, the requests still to be sent render, on both targets' variables,
\* even after the first target's captures have been saved.
StillValid ==
  pc = "exchange" => \A i \in turn .. Len(Order) : Renders(Order[i], ThisStep)

\* The dry validation of a complete run is honoured at run time as far as its
\* lookup goes: a request can only fail to render on a value captured earlier in
\* the same case, and a rule can only miss a variable that it names by a dotted
\* path, which the plan follows and the rule does not.
DryRunHolds ==
  config.requireAll =>
    /\ pc = "validate" =>
         \A t \in Targets : \A v \in ThisStep.uses \ CapturedBefore(case, step) :
           variables[t][v] = "good"
    /\ pc = "exchange" => Missed(Order[turn]) \subseteq Nested

Verified(call) == call.outcome = "answered" /\ call.reply # None

\* No step of a case is sent before every session the case is bound to has
\* answered a challenge with its configured user, at both targets.
IdentityBeforeSteps ==
  \A t \in Targets : \A i \in DOMAIN log[t] : log[t][i].step > 0 =>
    \A u \in Targets : \A s \in ToSet(Corpus[log[t][i].case].bindings) :
      \E j \in DOMAIN log[u] :
        /\ log[u][j].step = 0 /\ log[u][j].session = s /\ Verified(log[u][j])
        /\ u = t => j < i

\* A step of a mutating transcript is sent only when the transcript, the
\* command line and every selected target agree to the mutation.
MutationNeedsEveryGate ==
  \A t \in Targets : \A i \in DOMAIN log[t] :
    log[t][i].step > 0 /\ Corpus[log[t][i].case].mutates =>
      config.allowMutating /\ \A u \in Targets : config.allows[u]

\* A complete proof that passes has put every step of every transcript to both
\* targets, once and in order, and each of them answered acceptably.
PassedProofIsComplete ==
  exit = "passed" /\ config.requireAll =>
    /\ Both
    /\ \A t \in Targets : /\ StepsAsked(t) = AllSteps /\ InCorpusOrder(t)
                          /\ \A i \in StepCalls(t) : Verified(log[t][i])

\* What target t replied to step k of case c, among the calls of one run.
ReplyTo(t, c, k) ==
  LET i == CHOOSE j \in DOMAIN log[t] : log[t][j].case = c /\ log[t][j].step = k
  IN  log[t][i].reply

Asked(c, k) == \A t \in Targets : \E j \in DOMAIN log[t] :
                 log[t][j].case = c /\ log[t][j].step = k

InGroup(c, k) == k \in Corpus[c].groups \/ k - 1 \in Corpus[c].groups

\* A run that passes, complete or not, has not seen a difference: wherever both
\* targets were asked a step outside every policy, their replies agreed on the
\* compared fields, or, for a response group, on the group's packets in order.
NoDifferenceLost ==
  exit = "passed" /\ Both =>
    \A c \in Cases : \A k \in DOMAIN Corpus[c].steps :
      LET st   == Corpus[c].steps[k]
          a(i) == ReplyTo(Order[1], c, i)
          b(i) == ReplyTo(Order[2], c, i)
      IN  Asked(c, k) /\ st.judge # "policy" =>
            /\ ~InGroup(c, k) => \A f \in st.compares : a(k)[f] = b(k)[f]
            /\ k \in Corpus[c].groups =>
                 a(k).body \o a(k + 1).body = b(k).body \o b(k + 1).body

\* Every run ends, whatever the targets do, with or without answers.
RunEnds == <>(pc = "done")

\* The run implements RunVerdict: its exit code says what was judged.
RunPolicy == [strict |-> config.requireAll, goOn |-> config.goOn]

Verdict == INSTANCE RunVerdict WITH
  CaseCount <- Len(Corpus),
  policy    <- RunPolicy,
  doubt     <- InDoubt,
  judged    <- cases

KeepsVerdict == Verdict!Spec

-----------------------------------------------------------------------------
(* Statements of the project's documents that the code does not keep. *)

\* README.md: "statuses, packet order, payload values and body delimiters
\* compare by default".
StatusesCompareByDefault ==
  exit = "passed" /\ Both =>
    \A c \in Cases : \A k \in DOMAIN Corpus[c].steps :
      LET st == Corpus[c].steps[k]
      IN  Asked(c, k) /\ st.judge = "difference" /\ "status" \in st.compares
            => ReplyTo(Order[1], c, k).status = ReplyTo(Order[2], c, k).status

\* README.md: a complete run "dry-validates every variable, request and identity
\* role before making a request", so no normalizer misses its variable later.
NormalizersDryValidated ==
  config.requireAll /\ pc = "exchange" => Maskable(Order[turn])

\* README.md: "every supplied session token is challenged with a status
\* request and must return the configured user id before its transcript can
\* run".
EveryTokenIsChallenged ==
  \A t \in Targets : \A i \in DOMAIN log[t] :
    log[t][i].step > 0 /\ log[t][i].session \in ToSet(Corpus[log[t][i].case].bindings) =>
      \E j \in 1 .. i - 1 :
        /\ log[t][j].step = 0 /\ Verified(log[t][j])
        /\ log[t][j].session = log[t][i].session
        /\ log[t][j].token = log[t][i].token
=============================================================================
