------------------------- MODULE ConformanceRunProofs ------------------------
(***************************************************************************)
(* Proofs about ConformanceRun for every corpus, configuration, set of     *)
(* variables, sessions and replies: its type, the mutation gates, that the *)
(* run implements RunVerdict, that the requests of a step stay valid, that *)
(* no difference is lost, who has been challenged before a step, and which *)
(* steps both targets are asked.                                           *)
(***************************************************************************)
EXTENDS ConformanceRun, SequenceTheorems, WellFoundedInduction, TLAPS

\* Where the runner is inside a case that has passed its gates.
InCase == case > 0 /\ pc \in {"preflight", "validate", "exchange", "judge", "group"}

\* The functions behind TypeOK's pointwise statements, and whose turn it can be.
Shape ==
  /\ turn \in 1 .. Len(Order)
  /\ DOMAIN canonical = Targets
  /\ \E S : log \in [Targets -> Seq(S)]

\* A case is under way only behind its gates.
GatesOpen == InCase => Gates(case)

\* The place of the thread, the number of the case and the verdicts agree: one
\* verdict for each case before this one, and no failure passed over unless the
\* run was told to go on.
Pace ==
  /\ exit = "running" <=> pc # "done"
  /\ pc = "start" => case = 0 /\ preflights = <<>>
  /\ case = 0 => cases = <<>> /\ pc \in {"start", "preflight", "done"}
  /\ case = 0 /\ pc # "start" => config.requireAll
  /\ pc = "preflight" /\ case > 0 => ~config.requireAll
  /\ case > 0 /\ pc \notin {"summary", "done"} =>
       /\ Len(cases) = case - 1
       /\ cases # <<>> /\ cases[Len(cases)] = "failed" => config.goOn
  /\ pc = "summary" =>
       /\ cases # <<>>
       /\ Len(cases) = Len(Corpus) \/ (cases[Len(cases)] = "failed" /\ ~config.goOn)

\* A complete run gets past its preflights only without doubt, or told to go on.
DoubtAllowed == config.requireAll /\ case > 0 => AllPassed \/ config.goOn

\* What the dry validation found stays so: no gate closes, and a variable once
\* present is never removed, so nothing is skipped.
NothingToSkip ==
  config.requireAll /\ pc \notin {"start", "done"} =>
    \A c \in Cases : Gates(c) /\ \A t \in Targets : \A v \in Corpus[c].requires : Present(t, v)

IInv ==
  /\ TypeOK
  /\ Shape
  /\ MutationNeedsEveryGate
  /\ GatesOpen
  /\ Pace
  /\ DoubtAllowed
  /\ NothingToSkip

-----------------------------------------------------------------------------
(* The sequences of the run. *)

(* Appending keeps what was there, and puts the new element last. *)
LEMMA AppendKeeps ==
  ASSUME NEW S, NEW s \in Seq(S), NEW e \in S
  PROVE  /\ Append(s, e) \in Seq(S)
         /\ Len(Append(s, e)) = Len(s) + 1
         /\ DOMAIN Append(s, e) = 1 .. Len(s) + 1
         /\ DOMAIN s = 1 .. Len(s)
         /\ Append(s, e)[Len(s) + 1] = e
         /\ \A i \in 1 .. Len(s) : Append(s, e)[i] = s[i]
OBVIOUS

(* One target or two. *)
LEMMA OrderType ==
  /\ Len(Order) \in {1, 2} /\ 1 \in 1 .. Len(Order)
  /\ \A i \in 1 .. Len(Order) : Order[i] \in Targets
<1>1. \A a, b : /\ Len(<<a>>) = 1 /\ DOMAIN <<a>> = 1 .. 1
               /\ Len(<<a, b>>) = 2 /\ DOMAIN <<a, b>> = 1 .. 2
  OBVIOUS
<1>2. Len(Order) \in {1, 2} /\ DOMAIN Order = 1 .. Len(Order)
  BY <1>1, OrderAssumption
<1> QED
  BY <1>2 DEF Targets

(* The corpus is a sequence of at least one transcript. *)
LEMMA CorpusType ==
  /\ Len(Corpus) \in Nat /\ Len(Corpus) > 0
  /\ Cases = 1 .. Len(Corpus)
  /\ \A c \in Cases : Corpus[c] \in Transcript /\ Corpus[c].requires \subseteq Vars
<1>1. Corpus \in Seq(Transcript) /\ Corpus # <<>>
  BY CorpusAssumption
<1>2. Len(Corpus) \in Nat /\ Len(Corpus) > 0 /\ Cases = 1 .. Len(Corpus)
  BY <1>1, LenProperties, EmptySeq DEF Cases
<1>3. ASSUME NEW c \in Cases
      PROVE  Corpus[c] \in Transcript
  BY <1>1, <1>2, <1>3, ElementOfSeq
<1> QED
  BY <1>2, <1>3 DEF Transcript

-----------------------------------------------------------------------------
(* A call adds one record to one log, or to none. *)
LEMMA RecordAdded ==
  ASSUME NEW t, NEW r, Shape, log' = [log EXCEPT ![t] = Append(log[t], r)]
  PROVE  /\ \E S : log' \in [Targets -> Seq(S)]
         /\ \A u \in Targets : \A i \in DOMAIN log'[u] :
              (i \in DOMAIN log[u] /\ log'[u][i] = log[u][i]) \/ log'[u][i] = r
<1>1. PICK S : log \in [Targets -> Seq(S)]
  BY DEF Shape
<1>2. log \in [Targets -> Seq(S \cup {r})]
  <2>1. \A u \in Targets : log[u] \in Seq(S \cup {r})
    BY <1>1, SeqMonotonic
  <2> QED
    BY <1>1, <2>1
<1>4. t \in Targets => Append(log[t], r) \in Seq(S \cup {r})
  BY <1>2, AppendKeeps
<1>5. log' \in [Targets -> Seq(S \cup {r})]
  BY <1>2, <1>4
<1>7. ASSUME NEW u \in Targets, NEW i \in DOMAIN log'[u]
      PROVE  (i \in DOMAIN log[u] /\ log'[u][i] = log[u][i]) \/ log'[u][i] = r
  <2>1. CASE u = t
    <3>1. log'[u] = Append(log[u], r)
      BY <1>2, <2>1
    <3>2. log[u] \in Seq(S \cup {r}) /\ Len(log[u]) \in Nat
      BY <1>2
    <3> QED
      BY <3>1, <3>2, AppendKeeps
  <2>2. CASE u # t
    BY <1>2, <2>2
  <2> QED
    BY <2>1, <2>2
<1> QED
  BY <1>5, <1>7

\* What a call of step `at' leaves behind, as far as types and gates go.
Recorded(at) ==
  /\ \E S : log' \in [Targets -> Seq(S)]
  /\ poisoned' \in [Targets -> BOOLEAN]
  /\ \A u \in Targets : \A i \in DOMAIN log'[u] :
       \/ i \in DOMAIN log[u] /\ log'[u][i] = log[u][i]
       \/ /\ log'[u][i].outcome \in {"answered", "failed", "expired", "refused"}
          /\ log'[u][i].reached \in BOOLEAN
          /\ log'[u][i].case = case /\ log'[u][i].step = at

(* A call that fails, and one that is answered. *)
LEMMA CallFailsRecorded ==
  ASSUME NEW t, NEW at, NEW session, TypeOK, Shape, CallFails(t, at, session)
  PROVE  Recorded(at)
<1>1. PICK outcome \in {"failed", "expired", "refused"} :
        Call(t, at, session, outcome, FALSE, None)
  BY DEF CallFails
<1> DEFINE r == [case |-> case, step |-> at, session |-> session, token |-> token[t][session],
                 outcome |-> outcome, reached |-> FALSE, reply |-> None]
<1>2. log' = [log EXCEPT ![t] = Append(log[t], r)] /\ poisoned' \in [Targets -> BOOLEAN]
  BY <1>1 DEF Call, TypeOK
<1>3. /\ r.outcome \in {"answered", "failed", "expired", "refused"} /\ r.reached \in BOOLEAN
      /\ r.case = case /\ r.step = at
  OBVIOUS
<1> HIDE DEF r
<1>4. /\ \E S : log' \in [Targets -> Seq(S)]
      /\ \A u \in Targets : \A i \in DOMAIN log'[u] :
           (i \in DOMAIN log[u] /\ log'[u][i] = log[u][i]) \/ log'[u][i] = r
  BY <1>2, RecordAdded
<1>5. ASSUME NEW u \in Targets, NEW i \in DOMAIN log'[u]
      PROVE  \/ i \in DOMAIN log[u] /\ log'[u][i] = log[u][i]
             \/ /\ log'[u][i].outcome \in {"answered", "failed", "expired", "refused"}
                /\ log'[u][i].reached \in BOOLEAN
                /\ log'[u][i].case = case /\ log'[u][i].step = at
  BY <1>3, <1>4, Zenon
<1> QED
  BY <1>2, <1>4, <1>5 DEF Recorded

LEMMA CallAnswersRecorded ==
  ASSUME NEW t, NEW at, NEW session, NEW reply, TypeOK, Shape,
         CallAnswers(t, at, session, reply)
  PROVE  Recorded(at)
<1> DEFINE r == [case |-> case, step |-> at, session |-> session, token |-> token[t][session],
                 outcome |-> "answered", reached |-> TRUE, reply |-> reply]
<1>2. log' = [log EXCEPT ![t] = Append(log[t], r)] /\ poisoned' \in [Targets -> BOOLEAN]
  BY DEF CallAnswers, Call, TypeOK
<1>3. /\ r.outcome \in {"answered", "failed", "expired", "refused"} /\ r.reached \in BOOLEAN
      /\ r.case = case /\ r.step = at
  OBVIOUS
<1> HIDE DEF r
<1>4. /\ \E S : log' \in [Targets -> Seq(S)]
      /\ \A u \in Targets : \A i \in DOMAIN log'[u] :
           (i \in DOMAIN log[u] /\ log'[u][i] = log[u][i]) \/ log'[u][i] = r
  BY <1>2, RecordAdded
<1>5. ASSUME NEW u \in Targets, NEW i \in DOMAIN log'[u]
      PROVE  \/ i \in DOMAIN log[u] /\ log'[u][i] = log[u][i]
             \/ /\ log'[u][i].outcome \in {"answered", "failed", "expired", "refused"}
                /\ log'[u][i].reached \in BOOLEAN
                /\ log'[u][i].case = case /\ log'[u][i].step = at
  BY <1>3, <1>4, Zenon
<1> QED
  BY <1>2, <1>4, <1>5 DEF Recorded

(* A late arrival changes one flag of one record. *)
LEMMA ArriveRecorded ==
  ASSUME NEW t \in Targets, TypeOK, Shape, ArriveLate(t)
  PROVE  /\ \E S : log' \in [Targets -> Seq(S)]
         /\ \A u \in Targets :
              /\ DOMAIN log'[u] = DOMAIN log[u]
              /\ \A i \in DOMAIN log[u] :
                   /\ log'[u][i].outcome = log[u][i].outcome
                   /\ log'[u][i].reached \in BOOLEAN
                   /\ log'[u][i].case = log[u][i].case
                   /\ log'[u][i].step = log[u][i].step
<1>1. PICK k \in DOMAIN log[t] : log' = [log EXCEPT ![t][k].reached = TRUE]
  BY DEF ArriveLate
<1>2. PICK S : log \in [Targets -> Seq(S)]
  BY DEF Shape
<1> DEFINE r == [log[t][k] EXCEPT !.reached = TRUE]
<1>3. log' = [log EXCEPT ![t] = [log[t] EXCEPT ![k] = r]]
  BY <1>1, <1>2
<1>4. \A u \in Targets : log[u] \in Seq(S \cup {r})
  BY <1>2, SeqMonotonic
<1>5. k \in 1 .. Len(log[t])
  BY <1>2
<1>6. [log[t] EXCEPT ![k] = r] \in Seq(S \cup {r})
  BY <1>4, <1>5, ExceptSeq
<1>7. log' \in [Targets -> Seq(S \cup {r})]
  BY <1>2, <1>3, <1>4, <1>6
<1>8. ASSUME NEW u \in Targets
      PROVE  /\ DOMAIN log'[u] = DOMAIN log[u]
             /\ \A i \in DOMAIN log[u] :
                   log'[u][i] = IF u = t /\ i = k THEN r ELSE log[u][i]
  BY <1>2, <1>3
<1>9. /\ r.outcome = log[t][k].outcome /\ r.case = log[t][k].case
      /\ r.step = log[t][k].step /\ r.reached = TRUE
  OBVIOUS
<1>10. ASSUME NEW u \in Targets, NEW i \in DOMAIN log[u]
       PROVE  /\ log'[u][i].outcome = log[u][i].outcome
              /\ log'[u][i].reached \in BOOLEAN
              /\ log'[u][i].case = log[u][i].case
              /\ log'[u][i].step = log[u][i].step
  <2>1. CASE u = t /\ i = k
    BY <1>8, <1>9, <2>1
  <2>2. CASE ~(u = t /\ i = k)
    BY <1>8, <2>2 DEF TypeOK
  <2> QED
    BY <2>1, <2>2
<1> QED
  BY <1>7, <1>8, <1>10, Zenon

-----------------------------------------------------------------------------
(* Type correctness of a step. *)

Verdicts == {"passed", "failed", "skipped"}
Reports  == [passed : BOOLEAN, verified : BOOLEAN]
Replies  == [status : Statuses \cup {0}, body : Bodies \cup {<<>>}]

(* The end of a case appends its verdict and moves on. *)
LEMMA EndCaseTypes ==
  ASSUME TypeOK, NEW verdict \in Verdicts, EndCase(verdict)
  PROVE  /\ cases' \in Seq(Verdicts)
         /\ case' \in 0 .. Len(Corpus)
         /\ pc' \in {"summary", "prepare"}
<1>1. cases \in Seq(Verdicts)
  BY DEF TypeOK, Verdicts
<1>2. cases' \in Seq(Verdicts)
  BY <1>1, AppendKeeps DEF EndCase
<1>3. case' \in 0 .. Len(Corpus)
  BY CorpusType DEF EndCase, TypeOK
<1> QED
  BY <1>2, <1>3 DEF EndCase

(* A report of a preflight. *)
LEMMA ReportTypes ==
  ASSUME TypeOK, NEW r \in Reports,
         preflights' = Append(preflights, r), binding' = binding + 1, turn' = 1
  PROVE  preflights' \in Seq(Reports) /\ binding' \in Nat /\ turn' \in Nat
<1>1. preflights \in Seq(Reports) /\ binding \in Nat
  BY DEF TypeOK, Reports
<1> QED
  BY <1>1, AppendKeeps

(* None, and every reply or part of one, is a reply. *)
LEMMA ReplyTypes ==
  /\ None \in Replies
  /\ \A body \in Bodies : [status |-> 200, body |-> body] \in Replies
  /\ \A status \in Statuses, body \in Bodies :
       Project([status |-> status, body |-> body]) \in Replies
<1>1. None \in Replies
  BY DEF None, Replies
<1>2. \A body \in Bodies : [status |-> 200, body |-> body] \in Replies
  BY StatusesAssumption DEF Replies
<1>3. \A status \in Statuses, body \in Bodies :
        Project([status |-> status, body |-> body]) \in Replies
  BY DEF Project, Replies
<1> QED
  BY <1>1, <1>2, <1>3

(* Captures turn variables into good or bad ones, and never into absent ones. *)
LEMMA CaptureTypes ==
  ASSUME TypeOK, NEW t, NEW n, Capture(t, n)
  PROVE  /\ variables' \in [Targets -> [Vars -> Quality]]
         /\ \A u \in Targets, v \in Vars : Present(u, v) => variables'[u][v] # "absent"
<1>1. PICK value \in [1 .. n -> {"good", "bad"}] :
        variables' = [variables EXCEPT ![t] = [v \in Vars |->
          IF \E i \in 1 .. n : ThisStep.captures[i] = v
            THEN value[CHOOSE i \in 1 .. n : ThisStep.captures[i] = v]
            ELSE variables[t][v]]]
  BY DEF Capture
<1> DEFINE saved(v) == \E i \in 1 .. n : ThisStep.captures[i] = v
           new(v) == value[CHOOSE i \in 1 .. n : ThisStep.captures[i] = v]
<1>2. ASSUME NEW v, saved(v)
      PROVE  new(v) \in {"good", "bad"}
  <2>1. (CHOOSE i \in 1 .. n : ThisStep.captures[i] = v) \in 1 .. n
    BY <1>2
  <2> QED
    BY <1>1, <2>1
<1> HIDE DEF saved, new
<1>3. variables' = [variables EXCEPT ![t] = [v \in Vars |->
        IF saved(v) THEN new(v) ELSE variables[t][v]]]
  BY <1>1 DEF saved, new
<1>4. variables \in [Targets -> [Vars -> Quality]]
  BY DEF TypeOK
<1>5. t \in Targets => [v \in Vars |-> IF saved(v) THEN new(v) ELSE variables[t][v]]
                        \in [Vars -> Quality]
  BY <1>2, <1>4 DEF Quality
<1>6. variables' \in [Targets -> [Vars -> Quality]]
  BY <1>3, <1>4, <1>5
<1>7. ASSUME NEW u \in Targets, NEW v \in Vars, Present(u, v)
      PROVE  variables'[u][v] # "absent"
  <2>1. CASE u = t
    <3>1. variables'[u][v] = IF saved(v) THEN new(v) ELSE variables[t][v]
      BY <1>3, <1>4, <2>1
    <3> QED
      BY <1>2, <1>7, <2>1, <3>1 DEF Present
  <2>2. CASE u # t
    BY <1>3, <1>4, <1>7, <2>2 DEF Present
  <2> QED
    BY <2>1, <2>2
<1> QED
  BY <1>6, <1>7

(* TypeOK in the terms of this module. *)
LEMMA TypeSplit ==
  TypeOK <=>
    /\ config \in Config
    /\ variables \in [Targets -> [Vars -> Quality]]
    /\ token \in [Targets -> [Sessions -> Nat]]
    /\ poisoned \in [Targets -> BOOLEAN]
    /\ \A t \in Targets : \A i \in DOMAIN log[t] :
         /\ log[t][i].outcome \in {"answered", "failed", "expired", "refused"}
         /\ log[t][i].reached \in BOOLEAN
    /\ pc \in {"start", "preflight", "prepare", "case", "validate", "exchange",
               "judge", "group", "summary", "done"}
    /\ case \in 0 .. Len(Corpus)
    /\ binding \in Nat /\ step \in Nat /\ turn \in Nat
    /\ \A t \in Targets : canonical[t] \in Replies
    /\ errors \subseteq Targets
    /\ preflights \in Seq(Reports)
    /\ cases \in Seq(Verdicts)
    /\ exit \in {"running", "passed", "failed", "crashed"}
BY DEF TypeOK, Replies, Reports, Verdicts

(* The initial state is well typed. *)
LEMMA TypeOKInit == Init => TypeOK /\ Shape
<1> SUFFICES ASSUME Init PROVE TypeOK /\ Shape
  OBVIOUS
<1>1. config \in Config
  BY CorpusAssumption DEF Init
<1>2. variables \in [Targets -> [Vars -> Quality]]
  BY <1>1 DEF Init, Config
<1>3. \A t \in Targets : log[t] = <<>> /\ canonical[t] = None
  BY DEF Init
<1>4. log \in [Targets -> Seq({})] /\ DOMAIN canonical = Targets
  BY DEF Init
<1>5. \A t \in Targets : DOMAIN log[t] = {}
  BY <1>3
<1>6. TypeOK
  BY <1>1, <1>2, <1>3, <1>5, TypeSplit, CorpusType, ReplyTypes DEF Init, Reports, Verdicts
<1> QED
  BY <1>4, <1>6, OrderType DEF Shape, Init

(* A step that leaves the targets alone and ends a case, or only moves on. *)
LEMMA EndCaseKeepsType ==
  ASSUME TypeOK, Shape, NEW verdict \in Verdicts, EndCase(verdict),
         UNCHANGED <<config, targetVars, binding, turn, canonical, errors, preflights, exit>>,
         step' \in Nat
  PROVE  TypeOK' /\ Shape'
<1>1. cases' \in Seq(Verdicts) /\ case' \in 0 .. Len(Corpus) /\ pc' \in {"summary", "prepare"}
  BY EndCaseTypes
<1> QED
  BY <1>1, TypeSplit DEF targetVars, Shape, Verdicts, Replies, Reports, TypeOK

(* A call made and reported keeps the types of the logs. *)
LEMMA RecordedTypes ==
  ASSUME TypeOK, NEW at, Recorded(at)
  PROVE  /\ \E S : log' \in [Targets -> Seq(S)]
         /\ poisoned' \in [Targets -> BOOLEAN]
         /\ \A t \in Targets : \A i \in DOMAIN log'[t] :
              /\ log'[t][i].outcome \in {"answered", "failed", "expired", "refused"}
              /\ log'[t][i].reached \in BOOLEAN
BY DEF Recorded, TypeOK

(* Each action keeps the types. *)
LEMMA ChallengeAnsweredKeepsType ==
  ASSUME TypeOK, Shape, ChallengeAnswered
  PROVE  TypeOK' /\ Shape'
<1> DEFINE t == Order[turn]
<1>1. PICK body \in Bodies :
        /\ CallAnswers(t, 0, Bindings[binding], [status |-> 200, body |-> body])
        /\ IF turn < Len(Order)
             THEN /\ canonical' = [canonical EXCEPT ![t] = [status |-> 200, body |-> body]]
                  /\ turn' = turn + 1
                  /\ UNCHANGED <<preflights, binding>>
             ELSE Report(Both => canonical[Order[1]] = [status |-> 200, body |-> body], TRUE)
  BY DEF ChallengeAnswered
<1>2. Recorded(0)
  BY <1>1, CallAnswersRecorded
<1>3. [status |-> 200, body |-> body] \in Replies
  BY ReplyTypes
<1>4. /\ preflights' \in Seq(Reports) /\ binding' \in Nat /\ turn' \in 1 .. Len(Order)
      /\ DOMAIN canonical' = Targets /\ \A u \in Targets : canonical'[u] \in Replies
  <2>1. CASE turn < Len(Order)
    <3>1. /\ canonical' = [canonical EXCEPT ![t] = [status |-> 200, body |-> body]]
          /\ turn' = turn + 1 /\ preflights' = preflights /\ binding' = binding
      BY <1>1, <2>1
    <3>2. DOMAIN canonical = Targets /\ \A u \in Targets : canonical[u] \in Replies
      BY TypeSplit DEF Shape
    <3>3. DOMAIN canonical' = Targets /\ \A u \in Targets : canonical'[u] \in Replies
      BY <1>3, <3>1, <3>2
    <3>4. preflights \in Seq(Reports) /\ binding \in Nat
      BY TypeSplit
    <3>5. turn' \in 1 .. Len(Order)
      BY <2>1, <3>1, OrderType DEF Shape
    <3> QED
      BY <3>1, <3>3, <3>4, <3>5
  <2>2. CASE ~(turn < Len(Order))
    <3> DEFINE same == Both => canonical[Order[1]] = [status |-> 200, body |-> body]
               r == [passed |-> same, verified |-> TRUE]
    <3>1. r \in Reports
      BY DEF Reports
    <3>2. /\ preflights' = Append(preflights, r) /\ binding' = binding + 1 /\ turn' = 1
          /\ canonical' = [u \in Targets |-> None]
      BY <1>1, <2>2 DEF Report
    <3> HIDE DEF r
    <3> QED
      BY <3>1, <3>2, ReportTypes, ReplyTypes, OrderType
  <2> QED
    BY <2>1, <2>2
<1>5. UNCHANGED <<config, variables, token, pc, case, step, errors, cases, exit>>
  BY DEF ChallengeAnswered
<1>6. TypeOK'
  BY <1>2, <1>4, <1>5, RecordedTypes, TypeSplit DEF TypeOK, Replies, Reports, Verdicts
<1> QED
  BY <1>2, <1>4, <1>6, RecordedTypes DEF Shape

LEMMA ChallengeFailsKeepsType ==
  ASSUME TypeOK, Shape, ChallengeFails
  PROVE  TypeOK' /\ Shape'
<1>1. Recorded(0)
  BY CallFailsRecorded, CallAnswersRecorded DEF ChallengeFails
<1> DEFINE r == [passed |-> FALSE, verified |-> FALSE]
<1>2. r \in Reports
  BY DEF Reports
<1>3. /\ preflights' = Append(preflights, r) /\ binding' = binding + 1 /\ turn' = 1
      /\ canonical' = [u \in Targets |-> None]
  BY DEF ChallengeFails, Report
<1> HIDE DEF r
<1>4. /\ preflights' \in Seq(Reports) /\ binding' \in Nat /\ turn' \in 1 .. Len(Order)
      /\ DOMAIN canonical' = Targets /\ \A u \in Targets : canonical'[u] \in Replies
  BY <1>2, <1>3, ReportTypes, ReplyTypes, OrderType
<1>5. UNCHANGED <<config, variables, token, pc, case, step, errors, cases, exit>>
  BY DEF ChallengeFails
<1>6. TypeOK'
  BY <1>1, <1>4, <1>5, RecordedTypes, TypeSplit DEF TypeOK, Replies, Reports, Verdicts
<1> QED
  BY <1>1, <1>4, <1>6, RecordedTypes DEF Shape

(* One turn of the exchange, whatever became of the call. *)
LEMMA ExchangeKeepsType ==
  ASSUME TypeOK, Shape, NEW at, Recorded(at),
         variables' \in [Targets -> [Vars -> Quality]],
         DOMAIN canonical' = Targets, \A t \in Targets : canonical'[t] \in Replies,
         errors' \subseteq Targets, NextTurn, pc = "exchange",
         UNCHANGED <<config, token, case, binding, step, preflights, cases, exit>>
  PROVE  TypeOK' /\ Shape'
<1>1. turn' \in 1 .. Len(Order) /\ pc' \in {"exchange", "judge"}
  BY OrderType DEF NextTurn, Shape
<1>2. TypeOK'
  BY <1>1, RecordedTypes, TypeSplit DEF TypeOK, Replies, Reports, Verdicts
<1> QED
  BY <1>1, <1>2, RecordedTypes DEF Shape

LEMMA AcceptKeepsType ==
  ASSUME TypeOK, Shape, Accept
  PROVE  TypeOK' /\ Shape'
<1>1. PICK status \in Statuses, body \in Bodies :
        LET t == Order[turn] IN
          /\ CallAnswers(t, step, ThisStep.session, [status |-> status, body |-> body])
          /\ Capture(t, Len(ThisStep.captures))
          /\ canonical' = [canonical EXCEPT ![t] = Project([status |-> status, body |-> body])]
  BY DEF Accept
<1>2. Recorded(step)
  BY <1>1, CallAnswersRecorded
<1>3. variables' \in [Targets -> [Vars -> Quality]]
  BY <1>1, CaptureTypes
<1>4. DOMAIN canonical' = Targets /\ \A u \in Targets : canonical'[u] \in Replies
  <2>1. DOMAIN canonical = Targets /\ \A u \in Targets : canonical[u] \in Replies
    BY TypeSplit DEF Shape
  <2>2. Project([status |-> status, body |-> body]) \in Replies
    BY ReplyTypes
  <2> QED
    BY <1>1, <2>1, <2>2
<1>5. errors' \subseteq Targets
  BY DEF Accept, TypeOK
<1> QED
  BY <1>2, <1>3, <1>4, <1>5, ExchangeKeepsType DEF Accept

LEMMA RejectReplyKeepsType ==
  ASSUME TypeOK, Shape, RejectReply
  PROVE  TypeOK' /\ Shape'
<1>1. Recorded(step)
  BY CallAnswersRecorded DEF RejectReply
<1>2. variables' \in [Targets -> [Vars -> Quality]]
  BY CaptureTypes DEF RejectReply
<1>3. DOMAIN canonical' = Targets /\ \A u \in Targets : canonical'[u] \in Replies
  BY TypeSplit DEF RejectReply, Shape
<1>4. errors' \subseteq Targets
  BY OrderType DEF RejectReply, TypeOK, Shape
<1> QED
  BY <1>1, <1>2, <1>3, <1>4, ExchangeKeepsType DEF RejectReply

LEMMA ExchangeFailsKeepsType ==
  ASSUME TypeOK, Shape, ExchangeFails
  PROVE  TypeOK' /\ Shape'
<1>1. Recorded(step)
  BY CallFailsRecorded DEF ExchangeFails
<1>2. errors' \subseteq Targets
  BY OrderType DEF ExchangeFails, TypeOK, Shape
<1>3. /\ variables' \in [Targets -> [Vars -> Quality]]
      /\ DOMAIN canonical' = Targets /\ \A u \in Targets : canonical'[u] \in Replies
  BY TypeSplit DEF ExchangeFails, Shape
<1> QED
  BY <1>1, <1>2, <1>3, ExchangeKeepsType DEF ExchangeFails

LEMMA PrepareKeepsType ==
  ASSUME TypeOK, Shape, Prepare
  PROVE  TypeOK' /\ Shape'
<1>1. token' \in [Targets -> [Sessions -> Nat]]
  BY DEF Prepare, TypeOK
<1>2. TypeOK'
  BY <1>1, TypeSplit DEF Prepare, controlVars, TypeOK, Replies, Reports, Verdicts
<1> QED
  BY <1>2 DEF Prepare, controlVars, Shape

LEMMA ArriveLateKeepsType ==
  ASSUME TypeOK, Shape, NEW t \in Targets, ArriveLate(t)
  PROVE  TypeOK' /\ Shape'
<1>1. /\ \E S : log' \in [Targets -> Seq(S)]
      /\ \A u \in Targets : \A i \in DOMAIN log'[u] :
           /\ log'[u][i].outcome \in {"answered", "failed", "expired", "refused"}
           /\ log'[u][i].reached \in BOOLEAN
  BY ArriveRecorded DEF TypeOK
<1>2. UNCHANGED <<config, variables, token, poisoned, pc, controlVars, exit>>
  BY DEF ArriveLate
<1>3. TypeOK'
  BY <1>1, <1>2, TypeSplit DEF controlVars, TypeOK, Replies, Reports, Verdicts
<1> QED
  BY <1>1, <1>2, <1>3 DEF controlVars, Shape

(* The actions that make no call and move the thread on. *)
LEMMA ControlKeepsType ==
  ASSUME TypeOK, Shape, UNCHANGED targetVars, config' = config,
         canonical' \in {canonical, [t \in Targets |-> None]},
         errors' \in {errors, {}}, preflights' \in {preflights, <<>>},
         cases' \in Seq(Verdicts), case' \in 0 .. Len(Corpus),
         pc' \in {"start", "preflight", "prepare", "case", "validate", "exchange",
                 "judge", "group", "summary", "done"},
         binding' \in Nat, step' \in Nat, turn' \in {turn, 1},
         exit' \in {"running", "passed", "failed", "crashed"}
  PROVE  TypeOK' /\ Shape'
<1>1. turn' \in 1 .. Len(Order)
  BY OrderType DEF Shape
<1>2. DOMAIN canonical' = Targets /\ \A t \in Targets : canonical'[t] \in Replies
  BY TypeSplit, ReplyTypes DEF Shape
<1>3. preflights' \in Seq(Reports)
  BY TypeSplit, EmptySeq
<1>4. TypeOK'
  BY <1>1, <1>2, <1>3, TypeSplit DEF targetVars, TypeOK, Replies, Reports, Verdicts
<1> QED
  BY <1>1, <1>2, <1>4 DEF targetVars, Shape

LEMMA NextKeepsType ==
  ASSUME TypeOK, Shape, [Next]_vars
  PROVE  TypeOK' /\ Shape'
<1> USE DEF controlVars
<1>0. /\ cases \in Seq(Verdicts) /\ case \in 0 .. Len(Corpus) /\ 1 \in 0 .. Len(Corpus)
      /\ binding \in Nat /\ step \in Nat
      /\ exit \in {"running", "passed", "failed", "crashed"}
  BY TypeSplit, CorpusType
<1>1. CASE RejectRun
  BY <1>0, <1>1, ControlKeepsType DEF RejectRun
<1>2. CASE StartRun
  BY <1>0, <1>2, ControlKeepsType DEF StartRun
<1>3. CASE EndRunPreflights
  BY <1>0, <1>3, ControlKeepsType DEF EndRunPreflights
<1>4. CASE PrepareRaises
  BY <1>0, <1>4, ControlKeepsType DEF PrepareRaises
<1>5. CASE StartCase
  BY <1>0, <1>5, ControlKeepsType DEF StartCase
<1>6. CASE Validate
  BY <1>0, <1>6, ControlKeepsType DEF Validate
<1>7. CASE Summarise
  BY <1>0, <1>7, ControlKeepsType DEF Summarise
<1>8. CASE SkipCase
  BY <1>0, <1>8, EndCaseKeepsType DEF SkipCase, Verdicts
<1>9. CASE ValidateFails
  BY <1>0, <1>9, EndCaseKeepsType DEF ValidateFails, Verdicts
<1>10. CASE FailStep
  BY <1>0, <1>10, EndCaseKeepsType DEF FailStep, Verdicts
<1>11. CASE FailGroup
  BY <1>0, <1>11, EndCaseKeepsType DEF FailGroup, Verdicts
<1>12. CASE EndCasePreflights
  <2>1. CASE AllPassed
    BY <1>0, <1>12, <2>1, ControlKeepsType DEF EndCasePreflights
  <2>2. CASE ~AllPassed
    BY <1>0, <1>12, <2>2, EndCaseKeepsType DEF EndCasePreflights, Verdicts
  <2> QED
    BY <2>1, <2>2
<1>13. CASE PassStep
  <2>1. CASE EndCase("passed") /\ UNCHANGED step
    BY <1>0, <1>13, <2>1, EndCaseKeepsType DEF PassStep, Verdicts
  <2>2. CASE ~(EndCase("passed") /\ UNCHANGED step)
    BY <1>0, <1>13, <2>2, ControlKeepsType DEF PassStep
  <2> QED
    BY <2>1, <2>2
<1>14. CASE PassGroup
  <2>1. CASE EndCase("passed") /\ UNCHANGED step
    BY <1>0, <1>14, <2>1, EndCaseKeepsType DEF PassGroup, Verdicts
  <2>2. CASE ~(EndCase("passed") /\ UNCHANGED step)
    BY <1>0, <1>14, <2>2, ControlKeepsType DEF PassGroup
  <2> QED
    BY <2>1, <2>2
<1>15. CASE UNCHANGED vars
  BY <1>0, <1>15, ControlKeepsType, TypeSplit DEF vars, targetVars
<1>16. CASE ChallengeAnswered \/ ChallengeFails
  BY <1>16, ChallengeAnsweredKeepsType, ChallengeFailsKeepsType
<1>17. CASE Prepare
  BY <1>17, PrepareKeepsType
<1>18. CASE Accept \/ RejectReply \/ ExchangeFails
  BY <1>18, AcceptKeepsType, RejectReplyKeepsType, ExchangeFailsKeepsType
<1>19. CASE \E t \in Targets : ArriveLate(t)
  BY <1>19, ArriveLateKeepsType
<1> QED
  BY <1>1, <1>2, <1>3, <1>4, <1>5, <1>6, <1>7, <1>8, <1>9, <1>10, <1>11, <1>12, <1>13, <1>14,
     <1>15, <1>16, <1>17, <1>18, <1>19 DEF Next, Run

-----------------------------------------------------------------------------
(* The mutation gates. *)

(* A step's call is made behind the gates of its case. *)
LEMMA RecordedBehindGates ==
  ASSUME MutationNeedsEveryGate, config' = config, NEW at, Recorded(at), at = 0 \/ Gates(case)
  PROVE  MutationNeedsEveryGate'
<1> SUFFICES ASSUME NEW t \in Targets, NEW i \in DOMAIN log'[t], log'[t][i].step > 0,
                    Corpus[log'[t][i].case].mutates
             PROVE  config.allowMutating /\ \A u \in Targets : config.allows[u]
  BY DEF MutationNeedsEveryGate
<1>1. CASE i \in DOMAIN log[t] /\ log'[t][i] = log[t][i]
  BY <1>1 DEF MutationNeedsEveryGate
<1>2. CASE log'[t][i].case = case /\ log'[t][i].step = at
  BY <1>2 DEF Gates
<1> QED
  BY <1>1, <1>2 DEF Recorded

(* No other action adds a call. *)
LEMMA SameCallsBehindGates ==
  ASSUME MutationNeedsEveryGate, config' = config, log' = log
  PROVE  MutationNeedsEveryGate'
BY DEF MutationNeedsEveryGate

(* A case's gates are checked when it starts, and only its own steps follow. *)
LEMMA NextKeepsGates ==
  ASSUME TypeOK, Shape, MutationNeedsEveryGate, GatesOpen, Pace, [Next]_vars
  PROVE  MutationNeedsEveryGate' /\ GatesOpen'
<1> USE DEF controlVars, targetVars, InCase
<1>0. config' = config
  BY DEF Next, Run, vars, RejectRun, StartRun, ChallengeAnswered, ChallengeFails,
     EndRunPreflights, Prepare, PrepareRaises, SkipCase, StartCase, EndCasePreflights,
     Validate, ValidateFails, Accept, RejectReply, ExchangeFails, PassStep, FailStep,
     PassGroup, FailGroup, Summarise, ArriveLate
<1>1. CASE RejectRun \/ StartRun \/ EndRunPreflights \/ Prepare \/ PrepareRaises \/ Summarise
  BY <1>0, <1>1, SameCallsBehindGates
     DEF RejectRun, StartRun, EndRunPreflights, Prepare, PrepareRaises, Summarise, GatesOpen, Pace
<1>2. CASE StartCase
  BY <1>0, <1>2, SameCallsBehindGates DEF StartCase, Skips, GatesOpen, Gates
<1>3. CASE SkipCase \/ ValidateFails \/ FailStep \/ FailGroup
  BY <1>0, <1>3, SameCallsBehindGates
     DEF SkipCase, ValidateFails, FailStep, FailGroup, EndCase, GatesOpen
<1>4. CASE EndCasePreflights \/ Validate \/ PassStep \/ PassGroup
  BY <1>0, <1>4, SameCallsBehindGates
     DEF EndCasePreflights, Validate, PassStep, PassGroup, EndCase, GatesOpen, Gates
<1>5. CASE ChallengeAnswered \/ ChallengeFails
  <2>1. Recorded(0)
    BY <1>5, CallFailsRecorded, CallAnswersRecorded DEF ChallengeAnswered, ChallengeFails
  <2>2. case' = case /\ pc' = pc
    BY <1>5 DEF ChallengeAnswered, ChallengeFails
  <2> QED
    BY <1>0, <2>1, <2>2, RecordedBehindGates DEF GatesOpen, Gates
<1>6. CASE Accept \/ RejectReply \/ ExchangeFails
  <2>1. Recorded(step)
    BY <1>6, CallFailsRecorded, CallAnswersRecorded DEF Accept, RejectReply, ExchangeFails
  <2>2. pc = "exchange" /\ case' = case
    BY <1>6 DEF Accept, RejectReply, ExchangeFails
  <2>3. Gates(case)
    BY <2>2, CorpusType DEF GatesOpen, Pace, TypeOK
  <2> QED
    BY <1>0, <2>1, <2>2, <2>3, RecordedBehindGates DEF GatesOpen, Gates
<1>7. CASE \E t \in Targets : ArriveLate(t)
  <2>1. \A u \in Targets :
          /\ DOMAIN log'[u] = DOMAIN log[u]
          /\ \A i \in DOMAIN log[u] :
               log'[u][i].case = log[u][i].case /\ log'[u][i].step = log[u][i].step
    BY <1>7, ArriveRecorded
  <2>2. case' = case /\ pc' = pc
    BY <1>7 DEF ArriveLate
  <2> QED
    BY <1>0, <2>1, <2>2 DEF MutationNeedsEveryGate, GatesOpen, Gates
<1>8. CASE UNCHANGED vars
  BY <1>0, <1>8, SameCallsBehindGates DEF vars, GatesOpen, Gates
<1> QED
  BY <1>1, <1>2, <1>3, <1>4, <1>5, <1>6, <1>7, <1>8 DEF Next, Run

-----------------------------------------------------------------------------
(* The pace of the run, its preflights and what the dry validation found. *)

(* Ending a case keeps one verdict for each case before the one under way. *)
LEMMA EndCaseKeepsPace ==
  ASSUME TypeOK, Pace, case > 0, pc \notin {"start", "summary", "done"},
         NEW verdict \in Verdicts, EndCase(verdict), UNCHANGED <<config, exit>>
  PROVE  Pace' /\ case' > 0
<1>1. /\ cases \in Seq(Verdicts) /\ case \in 1 .. Len(Corpus) /\ Len(Corpus) \in Nat
      /\ Len(cases) = case - 1
  BY CorpusType DEF TypeOK, Verdicts, Pace
<1>2. Len(cases') = case /\ cases' # <<>> /\ cases'[Len(cases')] = verdict
  <2>1. cases' = Append(cases, verdict)
    BY DEF EndCase
  <2>2. Len(cases') = Len(cases) + 1 /\ cases'[Len(cases) + 1] = verdict
    BY <1>1, <2>1, AppendKeeps
  <2>3. cases' # <<>>
    BY <1>1, <2>2, EmptySeq
  <2> QED
    BY <1>1, <2>2, <2>3
<1>3. CASE case = Len(Corpus) \/ (verdict = "failed" /\ ~config.goOn)
  <2>1. pc' = "summary" /\ case' = case
    BY <1>3 DEF EndCase
  <2> QED
    BY <1>1, <1>2, <1>3, <2>1 DEF Pace
<1>4. CASE ~(case = Len(Corpus) \/ (verdict = "failed" /\ ~config.goOn))
  <2>1. pc' = "prepare" /\ case' = case + 1
    BY <1>4 DEF EndCase
  <2> QED
    BY <1>1, <1>2, <1>4, <2>1 DEF Pace
<1> QED
  BY <1>3, <1>4

(* Going on within a case, or before the first. *)
LEMMA SameCaseKeepsPace ==
  ASSUME TypeOK, Pace, UNCHANGED <<config, case, cases, exit>>,
         pc \notin {"start", "summary", "done"}, pc' \notin {"start", "summary", "done"},
         case = 0 => pc' = "preflight",
         pc' = "preflight" /\ case > 0 => ~config.requireAll
  PROVE  Pace'
BY DEF Pace

LEMMA NextKeepsPace ==
  ASSUME TypeOK, Pace, [Next]_vars
  PROVE  Pace'
<1> USE DEF controlVars
<1>0. case \in Nat /\ config.requireAll \in BOOLEAN
  BY CorpusType DEF TypeOK, Config
<1>1. CASE RejectRun
  BY <1>1 DEF RejectRun, Pace
<1>2. CASE StartRun
  <2>1. Len(<<>>) = 0
    OBVIOUS
  <2> QED
    BY <1>0, <1>2, <2>1 DEF StartRun, Pace
<1>3. CASE EndRunPreflights
  <2>1. Len(<<>>) = 0
    OBVIOUS
  <2> QED
    BY <1>0, <1>3, <2>1 DEF EndRunPreflights, Pace
<1>4. CASE PrepareRaises
  BY <1>0, <1>4 DEF PrepareRaises, Pace
<1>5. CASE Summarise
  BY <1>0, <1>5 DEF Summarise, Pace
<1>6. CASE SkipCase \/ ValidateFails \/ FailStep \/ FailGroup
  <2>1. PICK verdict \in Verdicts : EndCase(verdict)
    BY <1>6 DEF SkipCase, ValidateFails, FailStep, FailGroup, Verdicts
  <2>2. case > 0 /\ pc \notin {"start", "summary", "done"} /\ UNCHANGED <<config, exit>>
    BY <1>0, <1>6 DEF SkipCase, ValidateFails, FailStep, FailGroup, Pace
  <2> QED
    BY <2>1, <2>2, EndCaseKeepsPace
<1>7. CASE EndCasePreflights
  <2>1. case > 0 /\ pc \notin {"start", "summary", "done"} /\ UNCHANGED <<config, exit>>
    BY <1>0, <1>7 DEF EndCasePreflights
  <2>2. CASE AllPassed
    BY <1>7, <2>1, <2>2, SameCaseKeepsPace DEF EndCasePreflights
  <2>3. CASE ~AllPassed
    BY <1>7, <2>1, <2>3, EndCaseKeepsPace DEF EndCasePreflights, Verdicts
  <2> QED
    BY <2>2, <2>3
<1>8. CASE PassStep \/ PassGroup
  <2>1. case > 0 /\ pc \notin {"start", "summary", "done"} /\ UNCHANGED <<config, exit>>
    BY <1>0, <1>8 DEF PassStep, PassGroup, Pace
  <2>2. CASE EndCase("passed")
    BY <2>1, <2>2, EndCaseKeepsPace DEF Verdicts
  <2>3. CASE pc' \in {"group", "validate"} /\ UNCHANGED <<case, cases>>
    BY <2>1, <2>3, SameCaseKeepsPace
  <2> QED
    BY <1>8, <2>2, <2>3 DEF PassStep, PassGroup
<1>9. CASE Prepare \/ StartCase \/ Validate
  BY <1>0, <1>9, SameCaseKeepsPace DEF Prepare, StartCase, Validate, Pace
<1>10. CASE ChallengeAnswered \/ ChallengeFails
  BY <1>0, <1>10, SameCaseKeepsPace DEF ChallengeAnswered, ChallengeFails, Pace
<1>11. CASE Accept \/ RejectReply \/ ExchangeFails
  BY <1>0, <1>11, SameCaseKeepsPace DEF Accept, RejectReply, ExchangeFails, NextTurn, Pace
<1>12. CASE \E t \in Targets : ArriveLate(t)
  BY <1>12 DEF ArriveLate, Pace
<1>13. CASE UNCHANGED vars
  BY <1>13 DEF vars, Pace
<1> QED
  BY <1>1, <1>2, <1>3, <1>4, <1>5, <1>6, <1>7, <1>8, <1>9, <1>10, <1>11, <1>12, <1>13
     DEF Next, Run

(* Once a complete run is past its preflights they are never taken again. *)
LEMMA NextKeepsDoubt ==
  ASSUME TypeOK, Pace, DoubtAllowed, [Next]_vars
  PROVE  DoubtAllowed'
<1> USE DEF controlVars
<1>0. case \in Nat /\ config.requireAll \in BOOLEAN
  BY CorpusType DEF TypeOK, Config
<1>1. CASE EndRunPreflights
  BY <1>0, <1>1 DEF EndRunPreflights, DoubtAllowed, AllPassed
<1>2. CASE StartRun
  BY <1>0, <1>2 DEF StartRun, Pace, DoubtAllowed, AllPassed
<1>3. CASE StartCase
  BY <1>0, <1>3 DEF StartCase, DoubtAllowed, AllPassed
<1>4. CASE ChallengeAnswered \/ ChallengeFails
  BY <1>0, <1>4 DEF ChallengeAnswered, ChallengeFails, Pace, DoubtAllowed
<1>5. CASE RejectRun \/ Prepare \/ PrepareRaises \/ Summarise
  BY <1>0, <1>5 DEF RejectRun, Prepare, PrepareRaises, Summarise, DoubtAllowed, AllPassed
<1>6. CASE SkipCase \/ ValidateFails \/ FailStep \/ FailGroup \/ EndCasePreflights
            \/ PassStep \/ PassGroup
  <2>1. case > 0 /\ UNCHANGED <<config, preflights>>
    BY <1>0, <1>6
       DEF SkipCase, ValidateFails, FailStep, FailGroup, EndCasePreflights, PassStep,
           PassGroup, Pace
  <2> QED
    BY <2>1 DEF DoubtAllowed, AllPassed
<1>7. CASE Validate \/ Accept \/ RejectReply \/ ExchangeFails
  BY <1>0, <1>7 DEF Validate, Accept, RejectReply, ExchangeFails, DoubtAllowed, AllPassed
<1>8. CASE (\E t \in Targets : ArriveLate(t)) \/ UNCHANGED vars
  BY <1>8 DEF ArriveLate, vars, DoubtAllowed, AllPassed
<1> QED
  BY <1>1, <1>2, <1>3, <1>4, <1>5, <1>6, <1>7, <1>8 DEF Next, Run

(* The configuration never changes, a present variable stays present. *)
LEMMA NextKeepsPresent ==
  ASSUME TypeOK, [Next]_vars
  PROVE  /\ config' = config
         /\ \A t \in Targets, v \in Vars : Present(t, v) => Present(t, v)'
<1> USE DEF controlVars, targetVars
<1>1. CASE Accept \/ RejectReply
  <2>1. \E t, n : Capture(t, n)
    BY <1>1 DEF Accept, RejectReply
  <2>2. config' = config
    BY <1>1 DEF Accept, RejectReply
  <2> QED
    BY <2>1, <2>2, CaptureTypes DEF Present
<1>2. CASE ~(Accept \/ RejectReply)
  <2>1. config' = config /\ variables' = variables
    BY <1>2
       DEF Next, Run, vars, RejectRun, StartRun, ChallengeAnswered, ChallengeFails,
           EndRunPreflights, Prepare, PrepareRaises, SkipCase, StartCase, EndCasePreflights,
           Validate, ValidateFails, ExchangeFails, PassStep, FailStep, PassGroup, FailGroup,
           Summarise, ArriveLate
  <2> QED
    BY <2>1 DEF Present
<1> QED
  BY <1>1, <1>2

LEMMA NextKeepsNothingToSkip ==
  ASSUME TypeOK, NothingToSkip, [Next]_vars
  PROVE  NothingToSkip'
<1>1. config' = config /\ \A t \in Targets, v \in Vars : Present(t, v) => Present(t, v)'
  BY NextKeepsPresent
<1>2. CASE config.requireAll /\ pc = "start" /\ pc' \notin {"start", "done"}
  <2>1. ~CompleteRunRejects
    BY <1>2
       DEF Next, Run, vars, controlVars, RejectRun, StartRun, ChallengeAnswered,
           ChallengeFails, EndRunPreflights, Prepare, PrepareRaises, SkipCase, StartCase,
           EndCasePreflights, Validate, ValidateFails, Accept, RejectReply, ExchangeFails,
           PassStep, FailStep, PassGroup, FailGroup, Summarise, ArriveLate
  <2>2. \A c \in Cases : Gates(c) /\ \A t \in Targets : \A v \in Corpus[c].requires : Present(t, v)
    BY <2>1 DEF CompleteRunRejects
  <2> QED
    BY <1>1, <2>2, CorpusType DEF NothingToSkip, Gates
<1>3. CASE config.requireAll /\ pc \notin {"start", "done"}
  <2>1. \A c \in Cases : Gates(c) /\ \A t \in Targets : \A v \in Corpus[c].requires : Present(t, v)
    BY <1>3 DEF NothingToSkip
  <2> QED
    BY <1>1, <2>1, CorpusType DEF NothingToSkip, Gates
<1>4. CASE pc = "done"
  <2>1. pc' = "done"
    BY <1>4
       DEF Next, Run, vars, controlVars, RejectRun, StartRun, ChallengeAnswered,
           ChallengeFails, EndRunPreflights, Prepare, PrepareRaises, SkipCase, StartCase,
           EndCasePreflights, Validate, ValidateFails, Accept, RejectReply, ExchangeFails,
           PassStep, FailStep, PassGroup, FailGroup, Summarise, ArriveLate
  <2> QED
    BY <2>1 DEF NothingToSkip
<1> QED
  BY <1>1, <1>2, <1>3, <1>4 DEF NothingToSkip

-----------------------------------------------------------------------------
(* The inductive invariant holds throughout. *)
LEMMA InitIInv == Init => IInv
<1> SUFFICES ASSUME Init PROVE IInv
  OBVIOUS
<1>1. TypeOK /\ Shape
  BY TypeOKInit
<1>2. \A t \in Targets : DOMAIN log[t] = {}
  BY DEF Init
<1>3. MutationNeedsEveryGate /\ GatesOpen
  BY <1>2 DEF Init, MutationNeedsEveryGate, GatesOpen, InCase
<1>4. Pace /\ DoubtAllowed /\ NothingToSkip
  BY DEF Init, Pace, DoubtAllowed, NothingToSkip
<1> QED
  BY <1>1, <1>3, <1>4 DEF IInv

LEMMA NextKeepsIInv == IInv /\ [Next]_vars => IInv'
BY NextKeepsType, NextKeepsGates, NextKeepsPace, NextKeepsDoubt, NextKeepsNothingToSkip DEF IInv

LEMMA AlwaysIInv == Spec => []IInv
BY InitIInv, NextKeepsIInv, PTL DEF Spec

(* Type correctness of the run. *)
THEOREM RunTypeCorrect == Spec => []TypeOK
BY AlwaysIInv, PTL DEF IInv

(* Whatever the corpus, the options and the targets' replies, no step of a
   mutating transcript is sent unless every gate is open. *)
THEOREM MutationsAreGated == Spec => []MutationNeedsEveryGate
BY AlwaysIInv, PTL DEF IInv

-----------------------------------------------------------------------------
(* The run implements RunVerdict. *)

(* A doubt is a failed report in a complete run. *)
LEMMA DoubtIsFailedReport ==
  ASSUME TypeOK
  PROVE  InDoubt <=> config.requireAll /\ ~AllPassed
<1>1. CASE config.requireAll
  BY <1>1 DEF InDoubt, RunPreflights, AllPassed
<1>2. CASE ~config.requireAll
  <2>1. DOMAIN RunPreflights = {}
    BY <1>2 DEF RunPreflights
  <2> QED
    BY <1>2, <2>1 DEF InDoubt
<1> QED
  BY <1>1, <1>2

\* The run's verdict, policy and doubt stay as they are.
Quiet == UNCHANGED <<config, InDoubt, cases, exit>>

LEMMA QuietStutters == Quiet => UNCHANGED Verdict!vars
BY DEF Quiet, Verdict!vars, RunPolicy

(* The end of a case is a judgement. *)
LEMMA EndCaseJudges ==
  ASSUME IInv, case > 0, pc \notin {"start", "summary", "done"},
         NEW verdict \in Verdicts, config.requireAll => verdict # "skipped",
         EndCase(verdict), UNCHANGED <<config, preflights, exit>>
  PROVE  Verdict!Judge(verdict)
<1>1. /\ exit = "running" /\ Len(cases) = case - 1
      /\ cases # <<>> /\ cases[Len(cases)] = "failed" => config.goOn
      /\ InDoubt => config.goOn
  BY DoubtIsFailedReport DEF IInv, Pace, DoubtAllowed
<1>2. Len(cases) < Len(Corpus)
  BY <1>1, CorpusType DEF IInv, TypeOK
<1>3. cases' = Append(cases, verdict)
  BY DEF EndCase
<1>4. UNCHANGED <<RunPolicy, InDoubt, exit>>
  BY DEF RunPolicy, InDoubt, RunPreflights
<1> QED
  BY <1>1, <1>2, <1>3, <1>4 DEF Verdict!Judge, Verdict!Stopped, RunPolicy

(* Every step of the run is a step of the verdict, or none. *)
LEMMA NextJudges ==
  ASSUME IInv, [Next]_vars
  PROVE  [Verdict!Next]_(Verdict!vars)
<1> USE DEF controlVars
<1>0. /\ TypeOK /\ case \in Nat /\ config.requireAll \in BOOLEAN
      /\ InDoubt <=> config.requireAll /\ ~AllPassed
  BY CorpusType, DoubtIsFailedReport DEF IInv, TypeOK, Config
<1>1. CASE RejectRun
  <2>1. /\ exit = "running" /\ cases = <<>> /\ RunPolicy.strict /\ exit' = "failed"
        /\ UNCHANGED <<RunPolicy, InDoubt, cases>>
    BY <1>1 DEF RejectRun, RunPolicy, InDoubt, RunPreflights, IInv, Pace
  <2> QED
    BY <2>1 DEF Verdict!Abort, Verdict!Next
<1>2. CASE EndRunPreflights
  <2>1. CASE AllPassed \/ (config.goOn /\ AllVerified)
    BY <1>2, <2>1, QuietStutters DEF EndRunPreflights, Quiet, InDoubt, RunPreflights
  <2>2. CASE ~(AllPassed \/ (config.goOn /\ AllVerified))
    <3>1. /\ exit = "running" /\ cases = <<>> /\ RunPolicy.strict /\ exit' = "failed"
          /\ UNCHANGED <<RunPolicy, InDoubt, cases>>
      BY <1>2, <2>2 DEF EndRunPreflights, RunPolicy, InDoubt, RunPreflights, IInv, Pace
    <3> QED
      BY <3>1 DEF Verdict!Abort, Verdict!Next
  <2> QED
    BY <2>1, <2>2
<1>3. CASE PrepareRaises
  <2>1. /\ exit = "running" /\ exit' \in {"failed", "crashed"}
        /\ UNCHANGED <<RunPolicy, InDoubt, cases>>
    BY <1>3 DEF PrepareRaises, RunPolicy, InDoubt, RunPreflights, IInv, Pace
  <2> QED
    BY <2>1 DEF Verdict!Crash, Verdict!Next
<1>4. CASE Summarise
  <2>1. /\ exit = "running" /\ UNCHANGED <<RunPolicy, InDoubt, cases>>
    BY <1>4 DEF Summarise, RunPolicy, InDoubt, RunPreflights, IInv, Pace
  <2>2. Verdict!Stopped \/ Len(cases) = Len(Corpus)
    BY <1>4 DEF Summarise, Verdict!Stopped, RunPolicy, IInv, Pace
  <2>3. exit' = IF Verdict!Failed \/ InDoubt \/ (RunPolicy.strict /\ Verdict!Skipped)
                  THEN "failed" ELSE "passed"
    BY <1>4 DEF Summarise, Count, Verdict!Failed, Verdict!Skipped, RunPolicy
  <2> QED
    BY <2>1, <2>2, <2>3 DEF Verdict!Conclude, Verdict!Next
<1>5. CASE SkipCase
  <2>1. case > 0 /\ case \in Cases
    BY <1>0, <1>5, CorpusType DEF SkipCase, IInv, Pace, TypeOK
  <2>2. ~config.requireAll
    BY <1>5, <2>1 DEF SkipCase, Skips, This, IInv, NothingToSkip
  <2>3. Verdict!Judge("skipped")
    BY <1>5, <2>1, <2>2, EndCaseJudges DEF SkipCase, Verdicts
  <2> QED
    BY <2>3 DEF Verdict!Next
<1>6. CASE ValidateFails \/ FailStep \/ FailGroup
  <2>1. case > 0
    BY <1>0, <1>6 DEF ValidateFails, FailStep, FailGroup, IInv, Pace
  <2>2. Verdict!Judge("failed")
    BY <1>6, <2>1, EndCaseJudges DEF ValidateFails, FailStep, FailGroup, Verdicts
  <2> QED
    BY <2>2 DEF Verdict!Next
<1>7. CASE EndCasePreflights
  <2>1. CASE AllPassed
    BY <1>7, <2>1, QuietStutters DEF EndCasePreflights, Quiet, InDoubt, RunPreflights
  <2>2. CASE ~AllPassed
    <3>1. Verdict!Judge("failed")
      BY <1>7, <2>2, EndCaseJudges DEF EndCasePreflights, Verdicts
    <3> QED
      BY <3>1 DEF Verdict!Next
  <2> QED
    BY <2>1, <2>2
<1>8. CASE PassStep \/ PassGroup
  <2>1. /\ case > 0 /\ pc \in {"judge", "group"}
        /\ UNCHANGED <<config, preflights, exit>>
    BY <1>0, <1>8 DEF PassStep, PassGroup, IInv, Pace
  <2>2. CASE EndCase("passed")
    <3>1. Verdict!Judge("passed")
      BY <2>1, <2>2, EndCaseJudges DEF Verdicts
    <3> QED
      BY <3>1 DEF Verdict!Next
  <2>3. CASE UNCHANGED cases
    BY <2>1, <2>3, QuietStutters DEF Quiet, InDoubt, RunPreflights
  <2> QED
    BY <1>8, <2>2, <2>3 DEF PassStep, PassGroup
<1>9. CASE ChallengeAnswered \/ ChallengeFails
  <2>1. UNCHANGED <<RunPolicy, cases, exit>> /\ config' = config /\ pc = "preflight"
    BY <1>9 DEF ChallengeAnswered, ChallengeFails, RunPolicy
  <2>2. CASE config.requireAll
    <3>1. case = 0 /\ cases = <<>> /\ exit = "running"
      BY <1>0, <2>1, <2>2 DEF IInv, Pace
    <3>2. preflights' = preflights \/ \E r \in Reports : preflights' = Append(preflights, r)
      <4>1. CASE preflights' = preflights
        BY <4>1
      <4>2. CASE \E passed, verified \in BOOLEAN : Report(passed, verified)
        BY <4>2 DEF Report, Reports
      <4> QED
        BY <1>9, <4>1, <4>2 DEF ChallengeAnswered, ChallengeFails
    <3>3. InDoubt => InDoubt'
      <4>1. preflights \in Seq(Reports)
        BY <1>0, TypeSplit
      <4>2. \A i \in DOMAIN preflights : i \in DOMAIN preflights' /\ preflights'[i] = preflights[i]
        BY <3>2, <4>1, AppendKeeps
      <4> QED
        BY <2>1, <2>2, <4>2 DEF InDoubt, RunPreflights
    <3>4. CASE InDoubt' /\ ~InDoubt
      BY <2>1, <2>2, <3>1, <3>4 DEF Verdict!Doubt, Verdict!Next, RunPolicy
    <3>5. CASE InDoubt' <=> InDoubt
      BY <2>1, <3>5, QuietStutters DEF Quiet, InDoubt
    <3> QED
      BY <3>3, <3>4, <3>5
  <2>3. CASE ~config.requireAll
    BY <2>1, <2>3, QuietStutters DEF Quiet, InDoubt, RunPreflights
  <2> QED
    BY <1>0, <2>2, <2>3
<1>10. CASE StartRun
  BY <1>10, QuietStutters DEF StartRun, Quiet, InDoubt, RunPreflights
<1>11. CASE StartCase
  <2>1. UNCHANGED <<config, RunPreflights, cases, exit>>
    BY <1>11 DEF StartCase, RunPreflights
  <2> QED
    BY <2>1, QuietStutters DEF Quiet, InDoubt
<1>12. CASE Prepare \/ Validate \/ Accept \/ RejectReply \/ ExchangeFails
             \/ (\E t \in Targets : ArriveLate(t)) \/ UNCHANGED vars
  <2>1. UNCHANGED <<config, preflights, cases, exit>>
    BY <1>12 DEF Prepare, Validate, Accept, RejectReply, ExchangeFails, ArriveLate, vars
  <2> QED
    BY <2>1, QuietStutters DEF Quiet, InDoubt, RunPreflights
<1> QED
  BY <1>1, <1>2, <1>3, <1>4, <1>5, <1>6, <1>7, <1>8, <1>9, <1>10, <1>11, <1>12 DEF Next, Run

LEMMA InitJudges == Init => Verdict!Init
<1> SUFFICES ASSUME Init PROVE Verdict!Init
  OBVIOUS
<1>1. config \in Config
  BY CorpusAssumption DEF Init
<1>2. RunPolicy \in [strict : BOOLEAN, goOn : BOOLEAN]
  BY <1>1 DEF RunPolicy, Config
<1>3. RunPreflights = <<>>
  BY DEF Init, RunPreflights
<1>4. InDoubt = FALSE
  BY <1>3 DEF InDoubt
<1> QED
  BY <1>2, <1>4 DEF Verdict!Init, Init

(* The exit code of every run says what was judged: the run implements
   RunVerdict under the mapping that keeps its policy, doubt and verdicts. *)
THEOREM ImplementsVerdict == Spec => KeepsVerdict
<1>1. Init => Verdict!Init
  BY InitJudges
<1>2. IInv /\ [Next]_vars => [Verdict!Next]_(Verdict!vars)
  BY NextJudges
<1> QED
  BY <1>1, <1>2, AlwaysIInv, PTL DEF Spec, KeepsVerdict, Verdict!Spec

-----------------------------------------------------------------------------
(***************************************************************************)
(* The steps: the requests of a step stay valid while it is exchanged, and *)
(* the dry validation of a complete run is honoured by what runs after it. *)
(* These proofs rest on the inductive invariant IInv above.                *)
(***************************************************************************)

\* A step under way is a step of its transcript.
StepPlace == InCase => step \in DOMAIN This.steps

\* What _validate_complete_variable_plan asks of the fixture for one step.
Planned(c, k, t) ==
  LET st     == Corpus[c].steps[k]
      before == CapturedBefore(c, k)
  IN  /\ \A v \in st.uses \ before : config.fixture[t][v] = "good"
      /\ \A v \in ToSet(st.captures) : config.fixture[t][v] = "absent"
      /\ \A v \in st.masks \ (before \cup ToSet(st.captures)) : config.fixture[t][v] # "absent"

\* In a complete run the plan was accepted, and no capture has replaced a
\* variable of the fixture.
FixtureKept ==
  /\ pc = "start" => variables = config.fixture
  /\ config.requireAll /\ pc \notin {"start", "done"} =>
       /\ \A c \in Cases, t \in Targets : \A k \in DOMAIN Corpus[c].steps : Planned(c, k, t)
       /\ \A t \in Targets, v \in Vars :
            config.fixture[t][v] # "absent" => variables[t][v] = config.fixture[t][v]

\* The captures of a step are in target t's variables.
Holds(t, st) == \A v \in ToSet(st.captures) : Present(t, v)

\* The captures of the case's earlier steps are in both targets' variables, and
\* those of the step under way at each target that has not rejected it.
Saved ==
  /\ InCase => \A t \in Targets, v \in CapturedBefore(case, step) : Present(t, v)
  /\ pc = "exchange" => \A i \in 1 .. turn - 1 : Order[i] \notin errors => Holds(Order[i], ThisStep)
  /\ pc = "judge" => \A t \in Targets \ errors : Holds(t, ThisStep)
  /\ pc = "group" => \A t \in Targets : Holds(t, ThisStep)

-----------------------------------------------------------------------------
(* The transcripts. *)

(* A case under way is a case, and a step of a case is a step. *)
LEMMA StepType ==
  ASSUME NEW c \in Cases
  PROVE  /\ Corpus[c].steps \in Seq(Step) /\ Len(Corpus[c].steps) \in Nat
         /\ DOMAIN Corpus[c].steps = 1 .. Len(Corpus[c].steps)
         /\ Len(Corpus[c].steps) > 0
         /\ \A k \in DOMAIN Corpus[c].steps : Corpus[c].steps[k] \in Step
<1>1. Corpus[c].steps \in Seq(Step)
  BY CorpusType DEF Transcript
<1>2. Corpus[c].steps # <<>>
  BY CorpusAssumption
<1> QED
  BY <1>1, <1>2, LenProperties, EmptySeq, ElementOfSeq

(* The captures of a step are named variables. *)
LEMMA CapturesType ==
  ASSUME NEW st \in Step
  PROVE  /\ st.captures \in Seq(Vars) /\ Len(st.captures) \in Nat
         /\ DOMAIN st.captures = 1 .. Len(st.captures)
         /\ ToSet(st.captures) \subseteq Vars
         /\ st.uses \subseteq Vars /\ st.masks \subseteq Vars
<1>1. st.captures \in Seq(Vars) /\ st.uses \subseteq Vars /\ st.masks \subseteq Vars
  BY DEF Step
<1>2. Len(st.captures) \in Nat /\ DOMAIN st.captures = 1 .. Len(st.captures)
  BY <1>1, LenProperties
<1>3. ToSet(st.captures) \subseteq Vars
  BY <1>1, <1>2, ElementOfSeq DEF ToSet
<1> QED
  BY <1>1, <1>2, <1>3

(* Two targets are two: no target has two turns. *)
LEMMA TurnsDiffer ==
  \A i, j \in 1 .. Len(Order) : Order[i] = Order[j] => i = j
<1>1. \A a : DOMAIN <<a>> = 1 .. 1 /\ Len(<<a>>) = 1
  OBVIOUS
<1>2. \A a, b : /\ DOMAIN <<a, b>> = 1 .. 2 /\ Len(<<a, b>>) = 2
               /\ <<a, b>>[1] = a /\ <<a, b>>[2] = b
  OBVIOUS
<1>3. CASE Len(Order) = 1
  BY <1>3
<1>4. CASE Len(Order) # 1
  <2>1. Order \in {<<"zigcho", "reference">>, <<"reference", "zigcho">>}
    BY <1>1, <1>4, OrderAssumption
  <2>2. Len(Order) = 2 /\ Order[1] # Order[2]
    BY <2>1, <1>2
  <2> QED
    BY <2>2
<1> QED
  BY <1>3, <1>4

(* Every target has its turn. *)
LEMMA EveryTargetHasATurn ==
  \A t \in Targets : \E i \in 1 .. Len(Order) : Order[i] = t
<1>1. \A a : DOMAIN <<a>> = 1 .. 1 /\ Len(<<a>>) = 1
  OBVIOUS
<1>2. \A a, b : DOMAIN <<a, b>> = 1 .. 2 /\ Len(<<a, b>>) = 2
  OBVIOUS
<1>3. DOMAIN Order = 1 .. Len(Order)
  BY <1>1, <1>2, OrderAssumption
<1> QED
  BY <1>3 DEF Targets

(* One more step adds its captures to those saved before. *)
LEMMA CapturedNext ==
  ASSUME NEW c, NEW k \in Nat \ {0}
  PROVE  CapturedBefore(c, k + 1) = CapturedBefore(c, k) \cup ToSet(Corpus[c].steps[k].captures)
<1>1. 1 .. (k + 1) - 1 = (1 .. k - 1) \cup {k}
  OBVIOUS
<1> QED
  BY <1>1 DEF CapturedBefore

LEMMA CapturedFirst == \A c : CapturedBefore(c, 1) = {}
<1>1. 1 .. 1 - 1 = {}
  OBVIOUS
<1> QED
  BY <1>1 DEF CapturedBefore

-----------------------------------------------------------------------------
(* Captures. *)

(* The first n captures of the step get a value, at one target; nothing else
   changes. *)
LEMMA CaptureEffect ==
  ASSUME TypeOK, ThisStep \in Step, NEW t \in Targets, NEW n \in 0 .. Len(ThisStep.captures),
         Capture(t, n)
  PROVE  /\ \A u \in Targets \ {t} : variables'[u] = variables[u]
         /\ \A v \in Vars \ ToSet(ThisStep.captures) : variables'[t][v] = variables[t][v]
         /\ n = Len(ThisStep.captures) =>
              \A v \in ToSet(ThisStep.captures) : variables'[t][v] # "absent"
<1> DEFINE saved(v) == \E i \in 1 .. n : ThisStep.captures[i] = v
<1>1. PICK value \in [1 .. n -> {"good", "bad"}] :
        variables' = [variables EXCEPT ![t] = [v \in Vars |->
          IF saved(v) THEN value[CHOOSE i \in 1 .. n : ThisStep.captures[i] = v]
                      ELSE variables[t][v]]]
  BY DEF Capture
<1>2. ASSUME NEW v, saved(v)
      PROVE  value[CHOOSE i \in 1 .. n : ThisStep.captures[i] = v] # "absent"
  <2>1. (CHOOSE i \in 1 .. n : ThisStep.captures[i] = v) \in 1 .. n
    BY <1>2
  <2> QED
    BY <1>1, <2>1
<1>3. variables \in [Targets -> [Vars -> Quality]]
  BY DEF TypeOK
<1>4. /\ n \in Nat /\ Len(ThisStep.captures) \in Nat /\ n <= Len(ThisStep.captures)
      /\ DOMAIN ThisStep.captures = 1 .. Len(ThisStep.captures)
      /\ ToSet(ThisStep.captures) \subseteq Vars
  BY CapturesType
<1>5. \A v \in Vars \ ToSet(ThisStep.captures) : ~saved(v)
  BY <1>4 DEF ToSet
<1>6. n = Len(ThisStep.captures) => \A v \in ToSet(ThisStep.captures) : saved(v)
  BY <1>4 DEF ToSet
<1> HIDE DEF saved
<1>7. \A u \in Targets \ {t} : variables'[u] = variables[u]
  BY <1>1, <1>3
<1>8. \A v \in Vars : saved(v) \/ variables'[t][v] = variables[t][v]
  BY <1>1, <1>3
<1>9. \A v \in Vars : saved(v) => variables'[t][v] # "absent"
  BY <1>1, <1>2, <1>3
<1> QED
  BY <1>4, <1>5, <1>6, <1>7, <1>8, <1>9

(* A reply saves some of the first captures of its step, an accepted one all. *)
LEMMA RepliesCapture ==
  ASSUME ThisStep \in Step
  PROVE  /\ Accept => Capture(Order[turn], Len(ThisStep.captures))
         /\ Accept \/ RejectReply => \E n \in 0 .. Len(ThisStep.captures) : Capture(Order[turn], n)
<1>1. Accept => Capture(Order[turn], Len(ThisStep.captures))
  BY DEF Accept
<1>2. Len(ThisStep.captures) \in 0 .. Len(ThisStep.captures)
  BY CapturesType
<1>3. RejectReply => \E n \in 0 .. Len(ThisStep.captures) : Capture(Order[turn], n)
  BY DEF RejectReply
<1> QED
  BY <1>1, <1>2, <1>3, Zenon

-----------------------------------------------------------------------------
(* The place of the thread in its transcript. *)

(* The actions that end a case, or are outside every case. *)
Leaves == pc' \in {"start", "prepare", "case", "summary", "done"}

(* The actions that keep the step under way and the variables. *)
StaysAtStep == UNCHANGED <<config, variables, case, step>>

(* Where each action leads, as far as the step under way is concerned. *)
LEMMA WhereNextLeads ==
  ASSUME IInv, [Next]_vars
  PROVE  \/ Leaves /\ UNCHANGED <<config, variables>> /\ pc # "start"
         \/ pc = "start" /\ RejectRun
         \/ pc = "start" /\ StartRun
         \/ pc = "case" /\ StartCase
         \/ pc = "preflight" /\ pc' \in {"preflight", "validate"} /\ StaysAtStep
         \/ Validate
         \/ Accept \/ RejectReply \/ ExchangeFails
         \/ PassStep /\ EndsGroup
         \/ (PassStep \/ PassGroup) /\ pc' = "validate" /\ step < Len(This.steps)
         \/ UNCHANGED <<config, variables, pc, case, step, turn, errors>>
<1> USE DEF controlVars, targetVars, Leaves, StaysAtStep
<1>1. CASE SkipCase \/ ValidateFails \/ FailStep \/ FailGroup
  BY <1>1 DEF SkipCase, ValidateFails, FailStep, FailGroup, EndCase
<1>2. CASE PrepareRaises \/ Summarise \/ Prepare \/ EndRunPreflights
  BY <1>2 DEF PrepareRaises, Summarise, Prepare, EndRunPreflights
<1>3. CASE RejectRun \/ StartRun \/ StartCase \/ Validate \/ Accept \/ RejectReply \/ ExchangeFails
  BY <1>3 DEF RejectRun, StartRun, StartCase
<1>4. CASE ChallengeAnswered \/ ChallengeFails
  BY <1>4 DEF ChallengeAnswered, ChallengeFails
<1>5. CASE EndCasePreflights
  BY <1>5 DEF EndCasePreflights, EndCase
<1>6. CASE PassStep
  <2>1. CASE EndsGroup
    BY <1>6, <2>1
  <2>2. CASE ~EndsGroup /\ step < Len(This.steps)
    BY <1>6, <2>2 DEF PassStep
  <2>3. CASE ~EndsGroup /\ ~(step < Len(This.steps))
    BY <1>6, <2>3 DEF PassStep, EndCase
  <2> QED
    BY <2>1, <2>2, <2>3
<1>7. CASE PassGroup
  BY <1>7 DEF PassGroup, EndCase
<1>8. CASE (\E t \in Targets : ArriveLate(t)) \/ UNCHANGED vars
  BY <1>8 DEF ArriveLate, vars
<1> QED
  BY <1>1, <1>2, <1>3, <1>4, <1>5, <1>6, <1>7, <1>8 DEF Next, Run

(* A case under way is a case of the corpus. *)
LEMMA CaseUnderWay ==
  ASSUME IInv, pc \in {"case", "validate", "exchange", "judge", "group"}
  PROVE  case \in Cases
BY CorpusType DEF IInv, TypeOK, Pace

LEMMA NextKeepsPlace ==
  ASSUME IInv, StepPlace, [Next]_vars
  PROVE  StepPlace'
<1> USE DEF controlVars, targetVars
<1>0. step \in Nat /\ case \in Nat
  BY CorpusType DEF IInv, TypeOK
<1>1. CASE Leaves
  BY <1>1 DEF Leaves, StepPlace, InCase
<1>2. CASE RejectRun \/ StartRun
  BY <1>2 DEF RejectRun, StartRun, StepPlace, InCase, IInv, Pace
<1>3. CASE StartCase
  <2>1. case \in Cases
    BY <1>3, CaseUnderWay DEF StartCase
  <2>2. step' = 1 /\ case' = case
    BY <1>3 DEF StartCase
  <2> QED
    BY <2>1, <2>2, StepType DEF StepPlace, This
<1>4. CASE pc = "preflight" /\ pc' \in {"preflight", "validate"} /\ StaysAtStep
  BY <1>4 DEF StaysAtStep, StepPlace, InCase, This
<1>5. CASE Validate \/ Accept \/ RejectReply \/ ExchangeFails
  <2>1. case' = case /\ step' = step /\ InCase
    <3>1. case \in Cases
      BY <1>5, CaseUnderWay DEF Validate, Accept, RejectReply, ExchangeFails
    <3> QED
      BY <1>5, <3>1, CorpusType
         DEF Validate, Accept, RejectReply, ExchangeFails, InCase
  <2> QED
    BY <2>1 DEF StepPlace, This
<1>6. CASE PassStep /\ EndsGroup
  <2>1. pc = "judge" /\ case' = case /\ step' = step
    BY <1>6 DEF PassStep
  <2>2. case \in Cases
    BY <2>1, CaseUnderWay
  <2> QED
    BY <2>1, <2>2, CorpusType DEF StepPlace, This, InCase
<1>7. CASE (PassStep \/ PassGroup) /\ pc' = "validate" /\ step < Len(This.steps)
  <2>1. pc \in {"judge", "group"} /\ case' = case /\ step' = step + 1
    <3>1. pc \in {"judge", "group"}
      BY <1>7 DEF PassStep, PassGroup
    <3>2. ~(pc' \in {"summary", "prepare", "group"})
      BY <1>7
    <3> QED
      BY <1>7, <3>1, <3>2 DEF PassStep, PassGroup, EndCase
  <2>2. case \in Cases
    BY <2>1, CaseUnderWay
  <2>3. step + 1 \in DOMAIN This.steps
    BY <1>0, <1>7, <2>2, StepType DEF This
  <2> QED
    BY <2>1, <2>3 DEF StepPlace, This
<1>8. CASE UNCHANGED <<config, variables, pc, case, step, turn, errors>>
  BY <1>8 DEF StepPlace, InCase, This
<1> QED
  BY <1>1, <1>2, <1>3, <1>4, <1>5, <1>6, <1>7, <1>8, WhereNextLeads

-----------------------------------------------------------------------------
(* The dry validation. *)

(* In a complete run a capture never replaces a variable of the fixture. *)
LEMMA NextKeepsFixture ==
  ASSUME IInv, StepPlace, FixtureKept, [Next]_vars
  PROVE  FixtureKept'
<1> USE DEF controlVars, targetVars
<1>0. TypeOK /\ config' = config
  BY NextKeepsPresent DEF IInv
<1>1. CASE variables' = variables /\ pc # "start" /\ pc' # "start"
  <2>1. CASE pc = "done"
    <3>1. pc' = "done"
      BY <1>1, <2>1, WhereNextLeads
         DEF Next, Run, vars, RejectRun, StartRun, ChallengeAnswered, ChallengeFails,
             EndRunPreflights, Prepare, PrepareRaises, SkipCase, StartCase, EndCasePreflights,
             Validate, ValidateFails, Accept, RejectReply, ExchangeFails, PassStep, FailStep,
             PassGroup, FailGroup, Summarise, ArriveLate
    <3> QED
      BY <3>1 DEF FixtureKept
  <2>2. CASE pc # "done"
    BY <1>0, <1>1, <2>2 DEF FixtureKept, Planned
  <2> QED
    BY <2>1, <2>2
<1>2. CASE RejectRun
  BY <1>2 DEF RejectRun, FixtureKept
<1>3. CASE StartRun
  <2>1. pc' # "start" /\ variables' = variables /\ variables = config.fixture
    BY <1>3 DEF StartRun, FixtureKept
  <2>2. ASSUME config.requireAll
        PROVE  \A c \in Cases, t \in Targets : \A k \in DOMAIN Corpus[c].steps : Planned(c, k, t)
    <3>1. ~CompleteRunRejects
      BY <1>3, <2>2 DEF StartRun
    <3>2. \A c \in Cases, t \in Targets : \A k \in DOMAIN Corpus[c].steps : ~PlanRejects(c, k, t)
      BY <3>1 DEF CompleteRunRejects
    <3> QED
      BY <2>1, <3>2 DEF PlanRejects, Planned, Present
  <2> QED
    BY <1>0, <2>1, <2>2 DEF FixtureKept, Planned
<1>4. CASE Accept \/ RejectReply
  <2>1. /\ pc = "exchange" /\ pc' \notin {"start", "done"}
        /\ Order[turn] \in Targets
    BY <1>4, OrderType DEF Accept, RejectReply, NextTurn, IInv, Shape
  <2>2. case \in Cases /\ step \in DOMAIN Corpus[case].steps
    BY <2>1, CaseUnderWay, CorpusType DEF StepPlace, InCase, This
  <2>3. ThisStep \in Step
    BY <2>2, StepType DEF ThisStep, This
  <2>4. PICK n \in 0 .. Len(ThisStep.captures) : Capture(Order[turn], n)
    BY <1>4, <2>3, RepliesCapture
  <2>5. ASSUME config.requireAll
        PROVE  \A t \in Targets, v \in Vars :
                 config.fixture[t][v] # "absent" => variables'[t][v] = config.fixture[t][v]
    <3>1. /\ \A u \in Targets \ {Order[turn]} : variables'[u] = variables[u]
          /\ \A v \in Vars \ ToSet(ThisStep.captures) :
               variables'[Order[turn]][v] = variables[Order[turn]][v]
      BY <1>0, <2>1, <2>3, <2>4, CaptureEffect
    <3>2. \A v \in ToSet(ThisStep.captures) : config.fixture[Order[turn]][v] = "absent"
      BY <2>1, <2>2, <2>5 DEF FixtureKept, Planned, ThisStep, This
    <3>3. \A t \in Targets, v \in Vars :
            config.fixture[t][v] # "absent" => variables[t][v] = config.fixture[t][v]
      BY <2>1, <2>5 DEF FixtureKept
    <3> QED
      BY <3>1, <3>2, <3>3
  <2> QED
    BY <1>0, <2>1, <2>5 DEF FixtureKept, Planned
<1>5. CASE ~(RejectRun \/ StartRun \/ Accept \/ RejectReply)
  <2>1. \/ variables' = variables /\ pc # "start" /\ pc' # "start"
        \/ variables' = variables /\ pc' = pc
    BY <1>5, WhereNextLeads
       DEF Leaves, StaysAtStep, StartCase, Validate, ExchangeFails, NextTurn, PassStep, PassGroup,
           EndCase, Next, Run, vars, ChallengeAnswered, ChallengeFails,
             EndRunPreflights, Prepare, PrepareRaises, SkipCase, EndCasePreflights,
             ValidateFails, FailStep, FailGroup, Summarise, ArriveLate
  <2> QED
    BY <1>0, <1>1, <2>1 DEF FixtureKept, Planned
<1> QED
  BY <1>2, <1>3, <1>4, <1>5

(* What is known of the step under way. *)
LEMMA StepUnderWay ==
  ASSUME IInv, StepPlace, pc \in {"validate", "exchange", "judge", "group"}
  PROVE  /\ case \in Cases /\ InCase /\ step \in Nat \ {0}
         /\ step \in DOMAIN Corpus[case].steps /\ ThisStep = Corpus[case].steps[step]
         /\ ThisStep \in Step
         /\ ToSet(ThisStep.captures) \subseteq Vars
         /\ CapturedBefore(case, step) \subseteq Vars
<1>1. case \in Cases /\ InCase
  BY CaseUnderWay, CorpusType DEF InCase
<1>2. /\ Len(Corpus[case].steps) \in Nat /\ step \in 1 .. Len(Corpus[case].steps)
      /\ DOMAIN Corpus[case].steps = 1 .. Len(Corpus[case].steps)
      /\ \A k \in DOMAIN Corpus[case].steps : Corpus[case].steps[k] \in Step
  BY <1>1, StepType DEF StepPlace, This
<1>3. ThisStep \in Step /\ ToSet(ThisStep.captures) \subseteq Vars
  BY <1>2, CapturesType DEF ThisStep, This
<1>4. \A k \in 1 .. step - 1 : ToSet(Corpus[case].steps[k].captures) \subseteq Vars
  BY <1>2, CapturesType
<1>5. CapturedBefore(case, step) \subseteq Vars
  BY <1>4 DEF CapturedBefore
<1> QED
  BY <1>1, <1>2, <1>3, <1>5 DEF ThisStep, This

(* What an exchange does: the target whose turn it was has rejected the step or
   holds its captures, and the next one, or the comparison, follows. *)
LEMMA ExchangeEffect ==
  ASSUME IInv, StepPlace, Accept \/ RejectReply \/ ExchangeFails
  PROVE  /\ pc = "exchange" /\ UNCHANGED <<config, case, step>>
         /\ errors \subseteq errors'
         /\ \/ Order[turn] \in errors'
            \/ \A v \in ToSet(ThisStep.captures) : variables'[Order[turn]][v] # "absent"
         /\ \/ pc' = "exchange" /\ turn' = turn + 1
            \/ pc' = "judge" /\ turn = Len(Order)
         /\ \A u \in Targets \ {Order[turn]} : variables'[u] = variables[u]
<1>0. TypeOK /\ turn \in 1 .. Len(Order) /\ Len(Order) \in {1, 2} /\ Order[turn] \in Targets
  BY OrderType DEF IInv, Shape
<1>1. /\ pc = "exchange" /\ UNCHANGED <<config, case, step>>
      /\ errors \subseteq errors'
  BY DEF Accept, RejectReply, ExchangeFails
<1>2. \/ pc' = "exchange" /\ turn' = turn + 1
      \/ pc' = "judge" /\ turn = Len(Order)
  BY <1>0, <1>1 DEF Accept, RejectReply, ExchangeFails, NextTurn
<1>3. ThisStep \in Step /\ ThisStep' = ThisStep
  BY <1>1, StepUnderWay DEF ThisStep, This
<1>4. CASE Accept
  <2>1. Capture(Order[turn], Len(ThisStep.captures))
    BY <1>3, <1>4, RepliesCapture
  <2>2. Len(ThisStep.captures) \in 0 .. Len(ThisStep.captures)
    BY <1>3, CapturesType
  <2>3. /\ \A u \in Targets \ {Order[turn]} : variables'[u] = variables[u]
        /\ \A v \in ToSet(ThisStep.captures) : variables'[Order[turn]][v] # "absent"
    BY <1>0, <1>3, <2>1, <2>2, CaptureEffect
  <2> QED
    BY <1>1, <1>2, <2>3
<1>5. CASE RejectReply
  <2>1. PICK n \in 0 .. Len(ThisStep.captures) : Capture(Order[turn], n)
    BY <1>3, <1>5, RepliesCapture
  <2>2. \A u \in Targets \ {Order[turn]} : variables'[u] = variables[u]
    BY <1>0, <1>3, <2>1, CaptureEffect
  <2>3. Order[turn] \in errors'
    BY <1>5 DEF RejectReply
  <2> QED
    BY <1>1, <1>2, <2>2, <2>3
<1>6. CASE ExchangeFails
  BY <1>0, <1>1, <1>2, <1>6 DEF ExchangeFails
<1> QED
  BY <1>4, <1>5, <1>6

(* The captures of the earlier steps are there, those of this one as the targets
   accept its replies. *)
LEMMA NextKeepsSaved ==
  ASSUME IInv, StepPlace, Saved, [Next]_vars
  PROVE  Saved'
<1> USE DEF controlVars, targetVars
<1>0. /\ step \in Nat /\ turn \in 1 .. Len(Order) /\ Len(Order) \in {1, 2}
      /\ \A t \in Targets, v \in Vars : Present(t, v) => Present(t, v)'
  BY NextKeepsPresent, OrderType DEF IInv, TypeOK, Shape
<1>1. CASE Leaves \/ RejectRun
  BY <1>1 DEF Leaves, RejectRun, Saved, InCase
<1>2. CASE StartRun
  BY <1>2 DEF StartRun, Saved, InCase, IInv, Pace
<1>3. CASE StartCase
  <2>1. pc' \in {"preflight", "validate"} /\ step' = 1 /\ case' = case
    BY <1>3 DEF StartCase
  <2> QED
    BY <2>1, CapturedFirst DEF Saved
<1>4. CASE pc = "preflight" /\ pc' \in {"preflight", "validate"} /\ StaysAtStep
  BY <1>4 DEF Saved, InCase, StaysAtStep, CapturedBefore, Present
<1>5. CASE Validate
  <2>1. /\ pc = "validate" /\ pc' = "exchange" /\ turn' = 1
        /\ UNCHANGED <<variables, case, step>>
    BY <1>5 DEF Validate
  <2>2. InCase
    BY <2>1, StepUnderWay
  <2> QED
    BY <2>1, <2>2 DEF Saved, CapturedBefore, Present
<1>6. CASE Accept \/ RejectReply \/ ExchangeFails
  <2>1. /\ pc = "exchange" /\ UNCHANGED <<config, case, step>>
        /\ errors \subseteq errors'
        /\ \/ Order[turn] \in errors'
           \/ \A v \in ToSet(ThisStep.captures) : variables'[Order[turn]][v] # "absent"
        /\ \/ pc' = "exchange" /\ turn' = turn + 1
           \/ pc' = "judge" /\ turn = Len(Order)
    BY <1>6, ExchangeEffect
  <2>2. /\ InCase /\ CapturedBefore(case, step) \subseteq Vars
        /\ ToSet(ThisStep.captures) \subseteq Vars
    BY <2>1, StepUnderWay
  <2>3. ThisStep' = ThisStep /\ CapturedBefore(case, step)' = CapturedBefore(case, step)
    BY <2>1 DEF ThisStep, This, CapturedBefore
  <2>4. \A t \in Targets, v \in CapturedBefore(case, step)' : Present(t, v)'
    BY <1>0, <2>2, <2>3 DEF Saved
  <2>5. ASSUME NEW i \in 1 .. turn
        PROVE  \/ Order[i] \in errors'
               \/ \A v \in ToSet(ThisStep.captures) : variables'[Order[i]][v] # "absent"
    <3>1. CASE i = turn
      BY <2>1, <3>1
    <3>2. CASE i < turn
      <4>1. i \in 1 .. turn - 1 /\ Order[i] \in Targets
        BY <1>0, <3>2, OrderType
      <4>2. Order[i] \in errors \/ Holds(Order[i], ThisStep)
        BY <2>1, <4>1 DEF Saved
      <4> QED
        BY <1>0, <2>1, <2>2, <4>1, <4>2 DEF Holds, Present
    <3> QED
      BY <1>0, <3>1, <3>2
  <2>6. CASE pc' = "exchange"
    <3>1. \A i \in 1 .. turn' - 1 : i \in 1 .. turn
      BY <1>0, <2>1, <2>6
    <3> QED
      BY <2>3, <2>4, <2>5, <2>6, <3>1 DEF Saved, Holds, Present
  <2>7. CASE pc' = "judge"
    <3>1. \A t \in Targets : \E i \in 1 .. turn : Order[i] = t
      BY <2>1, <2>7, EveryTargetHasATurn
    <3> QED
      BY <2>3, <2>4, <2>5, <2>7, <3>1 DEF Saved, Holds, Present
  <2> QED
    BY <2>1, <2>6, <2>7
<1>7. CASE PassStep /\ EndsGroup
  <2>1. /\ pc = "judge" /\ pc' = "group" /\ errors = {}
        /\ UNCHANGED <<variables, case, step>>
    BY <1>7 DEF PassStep, StepPasses
  <2>2. InCase
    BY <2>1, StepUnderWay
  <2> QED
    BY <2>1, <2>2 DEF Saved, CapturedBefore, Present, Holds, ThisStep, This
<1>8. CASE (PassStep \/ PassGroup) /\ pc' = "validate" /\ step < Len(This.steps)
  <2>1. /\ pc \in {"judge", "group"} /\ (pc = "judge" => errors = {})
        /\ UNCHANGED <<variables, case>> /\ step' = step + 1
    <3>1. ~(pc' \in {"summary", "prepare", "group"})
      BY <1>8
    <3> QED
      BY <1>8, <3>1 DEF PassStep, PassGroup, EndCase, StepPasses
  <2>2. InCase /\ step \in Nat \ {0} /\ ThisStep = Corpus[case].steps[step]
    BY <2>1, StepUnderWay
  <2>3. CapturedBefore(case, step)' = CapturedBefore(case, step) \cup ToSet(ThisStep.captures)
    <3>1. CapturedBefore(case, step)' = CapturedBefore(case, step + 1)
      BY <2>1 DEF CapturedBefore
    <3>2. CapturedBefore(case, step + 1) =
            CapturedBefore(case, step) \cup ToSet(Corpus[case].steps[step].captures)
      BY <2>2, CapturedNext
    <3> QED
      BY <2>2, <3>1, <3>2
  <2>4. \A t \in Targets : Holds(t, ThisStep)
    BY <2>1 DEF Saved
  <2> QED
    BY <1>8, <2>1, <2>2, <2>3, <2>4 DEF Saved, Holds, Present
<1>9. CASE UNCHANGED <<config, variables, pc, case, step, turn, errors>>
  BY <1>9 DEF Saved, InCase, CapturedBefore, Present, Holds, ThisStep, This
<1> QED
  BY <1>1, <1>2, <1>3, <1>4, <1>5, <1>6, <1>7, <1>8, <1>9, WhereNextLeads

(* A validated request stays valid: the captures of the first target are not
   the second one's. *)
LEMMA NextKeepsValid ==
  ASSUME IInv, StepPlace, StillValid, [Next]_vars
  PROVE  StillValid'
<1> USE DEF controlVars, targetVars
<1>0. turn \in 1 .. Len(Order) /\ Len(Order) \in {1, 2}
  BY OrderType DEF IInv, Shape
<1>1. CASE Validate
  <2>1. turn' = 1 /\ UNCHANGED <<variables, case, step>>
    BY <1>1 DEF Validate
  <2>2. \A i \in 1 .. Len(Order) : Renders(Order[i], ThisStep)
    BY <1>1, OrderType DEF Validate
  <2> QED
    BY <2>1, <2>2 DEF StillValid, Renders, ThisStep, This
<1>2. CASE Accept \/ RejectReply \/ ExchangeFails
  <2>1. /\ pc = "exchange" /\ UNCHANGED <<config, case, step>>
        /\ \/ pc' = "exchange" /\ turn' = turn + 1
           \/ pc' = "judge" /\ turn = Len(Order)
        /\ \A u \in Targets \ {Order[turn]} : variables'[u] = variables[u]
    BY <1>2, ExchangeEffect
  <2>2. CASE pc' = "judge"
    BY <2>2 DEF StillValid
  <2>3. CASE pc' = "exchange"
    <3>1. ASSUME NEW i \in turn' .. Len(Order)
          PROVE  variables'[Order[i]] = variables[Order[i]] /\ Renders(Order[i], ThisStep)
      <4>1. i \in turn .. Len(Order) /\ i \in 1 .. Len(Order) /\ i # turn
        BY <1>0, <2>1, <2>3
      <4>2. Order[i] \in Targets \ {Order[turn]}
        BY <1>0, <4>1, OrderType, TurnsDiffer
      <4> QED
        BY <2>1, <4>1, <4>2 DEF StillValid
    <3> QED
      BY <2>1, <3>1 DEF StillValid, Renders, ThisStep, This
  <2> QED
    BY <2>1, <2>2, <2>3
<1>3. CASE UNCHANGED <<config, variables, pc, case, step, turn, errors>>
  BY <1>3 DEF StillValid, Renders, ThisStep, This
<1>4. CASE ~(Validate \/ Accept \/ RejectReply \/ ExchangeFails)
  <2>1. \/ pc' # "exchange"
        \/ UNCHANGED <<config, variables, pc, case, step, turn, errors>>
    BY <1>4, WhereNextLeads
       DEF Leaves, RejectRun, StartRun, StartCase, PassStep
  <2> QED
    BY <1>3, <2>1 DEF StillValid
<1> QED
  BY <1>1, <1>2, <1>4

-----------------------------------------------------------------------------
(* The inductive invariant of the steps. *)
StepInv == IInv /\ StepPlace /\ FixtureKept /\ Saved /\ StillValid

LEMMA InitStepInv == Init => StepInv
<1> SUFFICES ASSUME Init PROVE StepInv
  OBVIOUS
<1>1. IInv
  BY InitIInv
<1>2. pc = "start" /\ variables = config.fixture
  BY DEF Init
<1> QED
  BY <1>1, <1>2 DEF StepInv, StepPlace, InCase, FixtureKept, Saved, StillValid

LEMMA NextKeepsStepInv == StepInv /\ [Next]_vars => StepInv'
BY NextKeepsIInv, NextKeepsPlace, NextKeepsFixture, NextKeepsSaved, NextKeepsValid DEF StepInv

LEMMA AlwaysStepInv == Spec => []StepInv
BY InitStepInv, NextKeepsStepInv, PTL DEF Spec

(* What the plan found, and what the steps before have saved, is what the dry
   validation promised. *)
LEMMA StepInvHolds == StepInv => DryRunHolds
<1> SUFFICES ASSUME StepInv, config.requireAll
             PROVE  /\ pc = "validate" =>
                         \A t \in Targets : \A v \in ThisStep.uses \ CapturedBefore(case, step) :
                           variables[t][v] = "good"
                    /\ pc = "exchange" => Missed(Order[turn]) \subseteq Nested
  BY DEF DryRunHolds
<1>0. IInv /\ StepPlace /\ FixtureKept /\ Saved
  BY DEF StepInv
<1>1. ASSUME pc \in {"validate", "exchange"}
      PROVE  /\ \A t \in Targets : Planned(case, step, t)
             /\ ThisStep = Corpus[case].steps[step] /\ ThisStep \in Step
             /\ \A t \in Targets, v \in Vars :
                  config.fixture[t][v] # "absent" => variables[t][v] = config.fixture[t][v]
             /\ \A t \in Targets, v \in CapturedBefore(case, step) : Present(t, v)
  BY <1>0, <1>1, StepUnderWay DEF FixtureKept, Saved
<1>2. ASSUME pc = "validate",
             NEW t \in Targets, NEW v \in ThisStep.uses \ CapturedBefore(case, step)
      PROVE  variables[t][v] = "good"
  <2>1. v \in Vars
    BY <1>1, <1>2, CapturesType
  <2> QED
    BY <1>1, <1>2, <2>1 DEF Planned
<1>3. ASSUME pc = "exchange"
      PROVE  Missed(Order[turn]) \subseteq Nested
  <2>1. Order[turn] \in Targets
    BY <1>0, OrderType DEF IInv, Shape
  <2>2. ASSUME NEW v \in ThisStep.masks, v \notin ToSet(ThisStep.captures)
        PROVE  Present(Order[turn], v)
    <3>1. v \in Vars
      BY <1>1, <1>3, CapturesType
    <3> QED
      BY <1>1, <1>3, <2>1, <2>2, <3>1 DEF Planned, Present
  <2> QED
    BY <2>2 DEF Missed
<1> QED
  BY <1>2, <1>3

(* While a step is exchanged, the requests still to be sent render, whatever the
   replies of the first target made of its variables. *)
THEOREM RequestsStayValid == Spec => []StillValid
BY AlwaysStepInv, PTL DEF StepInv

(* The dry validation of a complete run is honoured as far as its lookup goes: a
   request that was valid then depends only on values captured in its own case,
   and a rule misses no variable but one that it names by a dotted path. *)
THEOREM DryValidationIsHonoured == Spec => []DryRunHolds
BY AlwaysStepInv, StepInvHolds, PTL

-----------------------------------------------------------------------------
(* What the targets said. *)

\* Target t was asked step k of case c, and r is what came back (None when the
\* call failed or the reply was rejected).
Said(t, c, k, r) ==
  \E j \in DOMAIN log[t] :
    log[t][j].case = c /\ log[t][j].step = k /\ log[t][j].reply = r

\* Target t has named the configured user of session s.
Challenged(t, s) ==
  \E j \in DOMAIN log[t] :
    log[t][j].step = 0 /\ log[t][j].session = s /\ Verified(log[t][j])

(* A call adds one record at the end of one log. *)
LEMMA CallAdds ==
  ASSUME Shape, NEW t \in Targets, NEW at, NEW session, NEW outcome, NEW arrived, NEW reply,
         Call(t, at, session, outcome, arrived, reply)
  PROVE  /\ \A u \in Targets \ {t} : log'[u] = log[u]
         /\ \A u \in Targets : Len(log[u]) \in Nat /\ DOMAIN log[u] = 1 .. Len(log[u])
         /\ DOMAIN log'[t] = 1 .. Len(log[t]) + 1
         /\ \A i \in 1 .. Len(log[t]) : log'[t][i] = log[t][i]
         /\ LET new == log'[t][Len(log[t]) + 1]
            IN  /\ new.case = case /\ new.step = at /\ new.session = session
                /\ new.outcome = outcome /\ new.reply = reply
<1> DEFINE r == [case |-> case, step |-> at, session |-> session, token |-> token[t][session],
                 outcome |-> outcome, reached |-> arrived, reply |-> reply]
<1>1. PICK S : log \in [Targets -> Seq(S)]
  BY DEF Shape
<1>2. log' = [log EXCEPT ![t] = Append(log[t], r)]
  BY DEF Call
<1>3. /\ r.case = case /\ r.step = at /\ r.session = session
      /\ r.outcome = outcome /\ r.reply = reply
  OBVIOUS
<1> HIDE DEF r
<1>4. log[t] \in Seq(S \cup {r})
  BY <1>1, SeqMonotonic
<1>5. log'[t] = Append(log[t], r) /\ \A u \in Targets \ {t} : log'[u] = log[u]
  BY <1>1, <1>2
<1>6. /\ DOMAIN log'[t] = 1 .. Len(log[t]) + 1 /\ log'[t][Len(log[t]) + 1] = r
      /\ \A i \in 1 .. Len(log[t]) : log'[t][i] = log[t][i]
  BY <1>4, <1>5, AppendKeeps
<1>7. \A u \in Targets : Len(log[u]) \in Nat /\ DOMAIN log[u] = 1 .. Len(log[u])
  BY <1>1, LenProperties
<1> QED
  BY <1>3, <1>5, <1>6, <1>7

(* A late arrival changes nothing of what was said. *)
LEMMA ArriveSays ==
  ASSUME Shape, NEW t \in Targets, ArriveLate(t)
  PROVE  \A u \in Targets :
           /\ DOMAIN log'[u] = DOMAIN log[u]
           /\ \A i \in DOMAIN log[u] :
                /\ log'[u][i].case = log[u][i].case /\ log'[u][i].step = log[u][i].step
                /\ log'[u][i].session = log[u][i].session
                /\ log'[u][i].outcome = log[u][i].outcome
                /\ log'[u][i].reply = log[u][i].reply
<1>1. PICK k \in DOMAIN log[t] : log' = [log EXCEPT ![t][k].reached = TRUE]
  BY DEF ArriveLate
<1>2. PICK S : log \in [Targets -> Seq(S)]
  BY DEF Shape
<1> DEFINE r == [log[t][k] EXCEPT !.reached = TRUE]
<1>3. log' = [log EXCEPT ![t] = [log[t] EXCEPT ![k] = r]]
  BY <1>1, <1>2
<1>4. ASSUME NEW u \in Targets
      PROVE  /\ DOMAIN log'[u] = DOMAIN log[u]
             /\ \A i \in DOMAIN log[u] :
                   log'[u][i] = IF u = t /\ i = k THEN r ELSE log[u][i]
  BY <1>2, <1>3
<1>5. /\ r.case = log[t][k].case /\ r.step = log[t][k].step
      /\ r.session = log[t][k].session /\ r.outcome = log[t][k].outcome
      /\ r.reply = log[t][k].reply
  OBVIOUS
<1> HIDE DEF r
<1> QED
  BY <1>4, <1>5

\* A call of one target: at step k of the case under way, with this outcome.
Speaks(t, k, session, outcome, reply) ==
  \E arrived \in BOOLEAN : Call(t, k, session, outcome, arrived, reply)

(* A call adds what it was answered to what was said, and takes nothing away. *)
LEMMA CallSays ==
  ASSUME Shape, NEW t \in Targets, NEW at, NEW session, NEW outcome, NEW reply,
         Speaks(t, at, session, outcome, reply)
  PROVE  /\ \A u \in Targets : \A c, k, r :
              Said(u, c, k, r)' <=>
                Said(u, c, k, r) \/ (u = t /\ c = case /\ k = at /\ r = reply)
         /\ \A u \in Targets : \A s : Challenged(u, s) => Challenged(u, s)'
         /\ at = 0 /\ outcome = "answered" /\ reply # None => Challenged(t, session)'
<1> DEFINE new == log'[t][Len(log[t]) + 1]
<1>1. /\ \A u \in Targets \ {t} : log'[u] = log[u]
      /\ \A u \in Targets : Len(log[u]) \in Nat /\ DOMAIN log[u] = 1 .. Len(log[u])
      /\ DOMAIN log'[t] = 1 .. Len(log[t]) + 1
      /\ \A i \in 1 .. Len(log[t]) : log'[t][i] = log[t][i]
      /\ new.case = case /\ new.step = at /\ new.session = session
      /\ new.outcome = outcome /\ new.reply = reply
  BY CallAdds DEF Speaks
<1>2. DOMAIN log'[t] = DOMAIN log[t] \cup {Len(log[t]) + 1}
  BY <1>1
<1>3. ASSUME NEW c, NEW k, NEW r
      PROVE  Said(t, c, k, r)' <=> Said(t, c, k, r) \/ (c = case /\ k = at /\ r = reply)
  BY <1>1, <1>2 DEF Said
<1>4. ASSUME NEW u \in Targets \ {t}, NEW c, NEW k, NEW r
      PROVE  Said(u, c, k, r)' <=> Said(u, c, k, r)
  BY <1>1 DEF Said
<1>5. \A u \in Targets : \A s : Challenged(u, s) => Challenged(u, s)'
  BY <1>1, <1>2 DEF Challenged, Verified
<1>6. at = 0 /\ outcome = "answered" /\ reply # None => Challenged(t, session)'
  BY <1>1, <1>2 DEF Challenged, Verified
<1> QED
  BY <1>3, <1>4, <1>5, <1>6

(* Outside an exchange nothing is said of any step. *)
LEMMA SaidStays ==
  ASSUME IInv, [Next]_vars, ~(Accept \/ RejectReply \/ ExchangeFails)
  PROVE  /\ \A t \in Targets : \A c, r : \A k \in Nat \ {0} : Said(t, c, k, r)' <=> Said(t, c, k, r)
         /\ \A t \in Targets : \A s : Challenged(t, s) => Challenged(t, s)'
<1> USE DEF controlVars, targetVars
<1>0. Shape /\ Order[turn] \in Targets
  BY OrderType DEF IInv, Shape
<1>1. CASE ChallengeAnswered \/ ChallengeFails
  <2>1. PICK session, outcome, reply : Speaks(Order[turn], 0, session, outcome, reply)
    BY <1>1 DEF ChallengeAnswered, ChallengeFails, CallAnswers, CallFails, Speaks
  <2> QED
    BY <1>0, <2>1, CallSays
<1>2. CASE \E t \in Targets : ArriveLate(t)
  BY <1>0, <1>2, ArriveSays DEF Said, Challenged, Verified
<1>3. CASE log' = log
  BY <1>3 DEF Said, Challenged, Verified
<1> QED
  BY <1>1, <1>2, <1>3
     DEF Next, Run, vars, RejectRun, StartRun, EndRunPreflights, Prepare, PrepareRaises,
         SkipCase, StartCase, EndCasePreflights, Validate, ValidateFails, PassStep, FailStep,
         PassGroup, FailGroup, Summarise

(* An exchange says one thing, and an accepted reply is kept in part. *)
LEMMA ExchangeSays ==
  ASSUME IInv, Accept \/ RejectReply \/ ExchangeFails
  PROVE  /\ Order[turn] \in Targets
         /\ \E reply :
              /\ \A t \in Targets : \A c, k, r :
                   Said(t, c, k, r)' <=>
                     Said(t, c, k, r) \/ (t = Order[turn] /\ c = case /\ k = step /\ r = reply)
              /\ Order[turn] \notin errors' => canonical'[Order[turn]] = Project(reply)
         /\ \A t \in Targets \ {Order[turn]} : canonical'[t] = canonical[t]
         /\ \A t \in Targets : \A s : Challenged(t, s) => Challenged(t, s)'
<1>0. Shape /\ Order[turn] \in Targets /\ DOMAIN canonical = Targets
  BY OrderType DEF IInv, Shape
<1>1. CASE Accept
  <2>1. PICK status \in Statuses, body \in Bodies :
          /\ CallAnswers(Order[turn], step, ThisStep.session, [status |-> status, body |-> body])
          /\ canonical' = [canonical EXCEPT ![Order[turn]] =
                             Project([status |-> status, body |-> body])]
    BY <1>1 DEF Accept
  <2>2. Speaks(Order[turn], step, ThisStep.session, "answered", [status |-> status, body |-> body])
    BY <2>1 DEF CallAnswers, Speaks
  <2>3. /\ canonical'[Order[turn]] = Project([status |-> status, body |-> body])
        /\ \A t \in Targets \ {Order[turn]} : canonical'[t] = canonical[t]
    BY <1>0, <2>1
  <2> QED
    BY <1>0, <2>2, <2>3, CallSays
<1>2. CASE RejectReply \/ ExchangeFails
  <2>1. \E session, outcome : Speaks(Order[turn], step, session, outcome, None)
    BY <1>2 DEF RejectReply, ExchangeFails, CallAnswers, CallFails, Speaks
  <2>2. Order[turn] \in errors' /\ canonical' = canonical
    BY <1>2 DEF RejectReply, ExchangeFails
  <2> QED
    BY <1>0, <2>1, <2>2, CallSays
<1> QED
  BY <1>1, <1>2

-----------------------------------------------------------------------------
(* Each step is said once. *)

\* What has been said is of steps already put: of cases before the one under
\* way, or of its own steps up to the place of the thread.
Past ==
  \A t \in Targets, c \in Cases, k \in Nat \ {0} : \A r : Said(t, c, k, r) =>
    /\ c <= case
    /\ c = case =>
         /\ pc \notin {"prepare", "case", "preflight"}
         /\ pc = "validate" => k < step
         /\ pc = "exchange" => k < step \/ (k = step /\ \E i \in 1 .. turn - 1 : Order[i] = t)
         /\ pc \in {"judge", "group"} => k <= step

\* No target is asked a step twice.
Once ==
  \A t \in Targets, c \in Cases, k \in Nat \ {0} : \A a, b :
    Said(t, c, k, a) /\ Said(t, c, k, b) => a = b

(* Where each action leads, as far as the case under way is concerned. *)
LEMMA WhereCaseLeads ==
  ASSUME IInv, [Next]_vars
  PROVE  \/ pc' \in {"summary", "done"} /\ case' = case
         \/ pc' = "prepare" /\ case' = case + 1
         \/ pc = "prepare" /\ pc' = "case" /\ case' = case
         \/ pc = "case" /\ pc' \in {"preflight", "validate"} /\ case' = case
         \/ pc = "start" /\ pc' = "preflight" /\ case' = case
         \/ pc = "preflight" /\ pc' \in {"preflight", "validate"} /\ case' = case
         \/ pc = "validate" /\ pc' = "exchange" /\ UNCHANGED <<case, step>>
         \/ Accept \/ RejectReply \/ ExchangeFails
         \/ pc = "judge" /\ pc' = "group" /\ UNCHANGED <<case, step>>
         \/ pc \in {"judge", "group"} /\ pc' = "validate" /\ case' = case /\ step' = step + 1
         \/ UNCHANGED <<pc, case, step, turn>>
<1> USE DEF controlVars, targetVars
<1>1. CASE SkipCase \/ ValidateFails \/ FailStep \/ FailGroup \/ EndCasePreflights
  BY <1>1 DEF SkipCase, ValidateFails, FailStep, FailGroup, EndCasePreflights, EndCase
<1>2. CASE RejectRun \/ StartRun \/ EndRunPreflights
  BY <1>2 DEF RejectRun, StartRun, EndRunPreflights, IInv, Pace
<1>3. CASE Prepare \/ PrepareRaises \/ Summarise \/ StartCase \/ Validate
  BY <1>3 DEF Prepare, PrepareRaises, Summarise, StartCase, Validate
<1>4. CASE ChallengeAnswered \/ ChallengeFails
  BY <1>4 DEF ChallengeAnswered, ChallengeFails
<1>5. CASE PassStep \/ PassGroup
  BY <1>5 DEF PassStep, PassGroup, EndCase
<1>6. CASE (\E t \in Targets : ArriveLate(t)) \/ UNCHANGED vars
  BY <1>6 DEF ArriveLate, vars
<1> QED
  BY <1>1, <1>2, <1>3, <1>4, <1>5, <1>6 DEF Next, Run

LEMMA NextKeepsPast ==
  ASSUME IInv, StepPlace, Past, [Next]_vars
  PROVE  Past'
<1>0. /\ step \in Nat /\ case \in Nat /\ turn \in 1 .. Len(Order) /\ Len(Order) \in {1, 2}
      /\ \A c \in Cases : c \in Nat
  BY CorpusType, OrderType DEF IInv, TypeOK, Shape
<1>1. CASE Accept \/ RejectReply \/ ExchangeFails
  <2>1. /\ pc = "exchange" /\ UNCHANGED <<config, case, step>>
        /\ \/ pc' = "exchange" /\ turn' = turn + 1
           \/ pc' = "judge" /\ turn = Len(Order)
    BY <1>1, ExchangeEffect
  <2>2. ASSUME NEW t \in Targets, NEW c \in Cases, NEW k \in Nat \ {0}, NEW r,
               Said(t, c, k, r)'
        PROVE  /\ c <= case
               /\ c = case =>
                    k < step \/ (k = step /\ \E i \in 1 .. turn : Order[i] = t)
    <3>1. Said(t, c, k, r) \/ (t = Order[turn] /\ c = case /\ k = step)
      BY <1>1, <2>2, ExchangeSays
    <3>2. CASE Said(t, c, k, r)
      BY <1>0, <2>1, <3>2 DEF Past
    <3>3. CASE t = Order[turn] /\ c = case /\ k = step
      BY <1>0, <3>3
    <3> QED
      BY <3>1, <3>2, <3>3
  <2>3. pc' = "exchange" => 1 .. turn' - 1 = 1 .. turn
    BY <1>0, <2>1
  <2> QED
    BY <1>0, <2>1, <2>2, <2>3 DEF Past
<1>2. CASE ~(Accept \/ RejectReply \/ ExchangeFails)
  <2>1. \A t \in Targets : \A c, r : \A k \in Nat \ {0} : Said(t, c, k, r)' <=> Said(t, c, k, r)
    BY <1>2, SaidStays
  <2>2. ASSUME NEW t \in Targets, NEW c \in Cases, NEW k \in Nat \ {0}, NEW r,
               Said(t, c, k, r)
        PROVE  /\ c <= case'
               /\ c = case' =>
                    /\ pc' \notin {"prepare", "case", "preflight"}
                    /\ pc' = "validate" => k < step'
                    /\ pc' = "exchange" =>
                         k < step' \/ (k = step' /\ \E i \in 1 .. turn' - 1 : Order[i] = t)
                    /\ pc' \in {"judge", "group"} => k <= step'
    <3>1. /\ c <= case
          /\ c = case =>
               /\ pc \notin {"prepare", "case", "preflight"}
               /\ pc = "validate" => k < step
               /\ pc = "exchange" => k < step \/ (k = step /\ \E i \in 1 .. turn - 1 : Order[i] = t)
               /\ pc \in {"judge", "group"} => k <= step
      BY <2>2 DEF Past
    <3>2. c \in Nat /\ (pc = "start" => case = 0) /\ c # 0
      BY CorpusType, <1>0 DEF IInv, Pace
    <3>3. CASE UNCHANGED <<pc, case, step, turn>>
      BY <3>1, <3>3
    <3>4. CASE \/ pc = "judge" /\ pc' = "group" /\ UNCHANGED <<case, step>>
               \/ pc \in {"judge", "group"} /\ pc' = "validate" /\ case' = case /\ step' = step + 1
               \/ pc = "validate" /\ pc' = "exchange" /\ UNCHANGED <<case, step>>
      BY <1>0, <3>1, <3>4
    <3>5. CASE \/ pc' \in {"summary", "done"} /\ case' = case
               \/ pc' = "prepare" /\ case' = case + 1
               \/ pc = "prepare" /\ pc' = "case" /\ case' = case
               \/ pc = "case" /\ pc' \in {"preflight", "validate"} /\ case' = case
               \/ pc = "start" /\ pc' = "preflight" /\ case' = case
               \/ pc = "preflight" /\ pc' \in {"preflight", "validate"} /\ case' = case
      BY <1>0, <3>1, <3>2, <3>5
    <3> QED
      BY <1>2, <3>3, <3>4, <3>5, WhereCaseLeads
  <2> QED
    BY <2>1, <2>2 DEF Past
<1> QED
  BY <1>1, <1>2

LEMMA NextKeepsOnce ==
  ASSUME IInv, Past, Once, [Next]_vars
  PROVE  Once'
<1>1. CASE Accept \/ RejectReply \/ ExchangeFails
  <2>0. /\ pc = "exchange" /\ turn \in 1 .. Len(Order) /\ Len(Order) \in {1, 2} /\ step \in Nat
    BY <1>1, OrderType DEF Accept, RejectReply, ExchangeFails, IInv, Shape, TypeOK
  <2>1. PICK reply :
          \A t \in Targets : \A c, k, r :
            Said(t, c, k, r)' <=>
              Said(t, c, k, r) \/ (t = Order[turn] /\ c = case /\ k = step /\ r = reply)
    BY <1>1, ExchangeSays
  <2>2. ASSUME NEW t \in Targets, NEW c \in Cases, NEW k \in Nat \ {0}, NEW r, Said(t, c, k, r)
        PROVE  ~(t = Order[turn] /\ c = case /\ k = step)
    <3>1. c = case => k < step \/ \E i \in 1 .. turn - 1 : Order[i] = t
      BY <2>0, <2>2 DEF Past
    <3>2. \A i \in 1 .. turn - 1 : Order[i] # Order[turn]
      BY <2>0, TurnsDiffer
    <3> QED
      BY <2>0, <3>1, <3>2
  <2> QED
    BY <2>1, <2>2 DEF Once
<1>2. CASE ~(Accept \/ RejectReply \/ ExchangeFails)
  BY <1>2, SaidStays DEF Once
<1> QED
  BY <1>1, <1>2

-----------------------------------------------------------------------------
(* What the case under way remembers of what was said. *)

\* The step under way keeps the compared part of the reply it has accepted.
Keeps(t) == \E r : Said(t, case, step, r) /\ canonical[t] = Project(r)

Current ==
  /\ pc = "exchange" => \A i \in 1 .. turn - 1 : Order[i] \notin errors => Keeps(Order[i])
  /\ pc = "judge" => \A t \in Targets \ errors : Keeps(t)

\* What step k of case c compares of a reply.
Kept(c, k, r) ==
  [status |-> IF "status" \in Corpus[c].steps[k].compares THEN r.status ELSE 0,
   body   |-> IF "body" \in Corpus[c].steps[k].compares THEN r.body ELSE <<>>]

GroupsReadBodies(c, g) == \A k \in {g, g + 1} : "body" \in Corpus[c].steps[k].compares

\* h keeps of each of the first n steps of case c what each target said of it.
Told(c, h, n) ==
  \A m \in 1 .. n, t \in Targets : \E r : Said(t, c, m, r) /\ h[m][t] = Kept(c, m, r)

\* The n entries of h show no difference outside a policy, nor between the
\* groups other than the one that ends at `pending'.
Alike(c, h, n, pending) ==
  /\ (\E S : h \in Seq(S)) /\ Len(h) = n
  /\ Both => \A m \in 1 .. n :
       Corpus[c].steps[m].judge # "policy" /\ ~InGroup(c, m) => h[m][Order[1]] = h[m][Order[2]]
  /\ Both => \A g \in Corpus[c].groups : g + 1 <= n /\ g + 1 # pending =>
       /\ GroupsReadBodies(c, g)
       /\ h[g][Order[1]].body \o h[g + 1][Order[1]].body
            = h[g][Order[2]].body \o h[g + 1][Order[2]].body

\* The case under way remembers its steps, the one whose group is compared too.
Remembered ==
  InCase => \A c, h, n : c = case /\ h = history /\ n = (IF pc = "group" THEN step ELSE step - 1)
              => Told(c, h, n) /\ Alike(c, h, n, IF pc = "group" THEN step ELSE 0)

LEMMA NextKeepsCurrent ==
  ASSUME IInv, StepPlace, Current, [Next]_vars
  PROVE  Current'
<1>0. /\ step \in Nat /\ turn \in 1 .. Len(Order) /\ Len(Order) \in {1, 2}
      /\ \A i \in 1 .. Len(Order) : Order[i] \in Targets
  BY OrderType DEF IInv, TypeOK, Shape
<1>1. CASE Accept \/ RejectReply \/ ExchangeFails
  <2>1. /\ pc = "exchange" /\ UNCHANGED <<config, case, step>>
        /\ errors \subseteq errors'
        /\ \/ pc' = "exchange" /\ turn' = turn + 1
           \/ pc' = "judge" /\ turn = Len(Order)
    BY <1>1, ExchangeEffect
  <2>2. step \in Nat \ {0}
    BY <2>1, StepUnderWay
  <2>3. PICK reply :
          /\ \A t \in Targets : \A c, k, r :
               Said(t, c, k, r)' <=>
                 Said(t, c, k, r) \/ (t = Order[turn] /\ c = case /\ k = step /\ r = reply)
          /\ Order[turn] \notin errors' => canonical'[Order[turn]] = Project(reply)
    BY <1>1, ExchangeSays
  <2>5. ASSUME NEW t \in Targets, NEW c, NEW k, NEW r,
               c = case, k = step, Said(t, c, k, r)', canonical'[t] = Project(r)
        PROVE  Keeps(t)'
    BY <2>1, <2>5 DEF Keeps, Said, Project, ThisStep, This
  <2>6. ASSUME NEW i \in 1 .. turn, Order[i] \notin errors'
        PROVE  Keeps(Order[i])'
    <3>1. CASE i = turn
      <4>1. canonical'[Order[i]] = Project(reply)
        BY <2>3, <2>6, <3>1
      <4>2. \A c, k : c = case /\ k = step => Said(Order[i], c, k, reply)'
        BY <1>0, <2>3, <3>1
      <4> QED
        BY <1>0, <2>5, <4>1, <4>2
    <3>2. CASE i < turn
      <4>1. i \in 1 .. turn - 1 /\ Order[i] # Order[turn] /\ Order[i] \in Targets
        BY <1>0, <3>2, TurnsDiffer
      <4>2. canonical'[Order[i]] = canonical[Order[i]]
        BY <1>0, <1>1, <4>1, ExchangeSays
      <4>3. PICK r : Said(Order[i], case, step, r) /\ canonical[Order[i]] = Project(r)
        BY <2>1, <2>6, <4>1 DEF Current, Keeps
      <4>4. \A c, k : c = case /\ k = step => Said(Order[i], c, k, r)'
        BY <2>3, <4>1, <4>3
      <4> QED
        BY <2>5, <4>1, <4>2, <4>3, <4>4
    <3> QED
      BY <1>0, <3>1, <3>2
  <2>7. CASE pc' = "exchange"
    <3>1. \A i \in 1 .. turn' - 1 : i \in 1 .. turn
      BY <1>0, <2>1, <2>7
    <3> QED
      BY <2>6, <2>7, <3>1 DEF Current
  <2>8. CASE pc' = "judge"
    <3>1. \A t \in Targets : \E i \in 1 .. turn : Order[i] = t
      BY <2>1, <2>8, EveryTargetHasATurn
    <3> QED
      BY <2>6, <2>8, <3>1 DEF Current
  <2> QED
    BY <2>1, <2>7, <2>8
<1>2. CASE Validate
  BY <1>2 DEF Validate, Current
<1>3. CASE ~(Validate \/ Accept \/ RejectReply \/ ExchangeFails)
  <2>1. \/ pc' \notin {"exchange", "judge"}
        \/ UNCHANGED <<variables, pc, case, step, turn, errors, canonical>>
    BY <1>3
       DEF Next, Run, vars, controlVars, targetVars, RejectRun, StartRun, ChallengeAnswered,
           ChallengeFails, EndRunPreflights, Prepare, PrepareRaises, SkipCase, StartCase,
           EndCasePreflights, ValidateFails, PassStep, FailStep, PassGroup, FailGroup,
           Summarise, ArriveLate, EndCase
  <2>2. CASE pc' \notin {"exchange", "judge"}
    BY <2>2 DEF Current
  <2>3. CASE /\ pc \in {"exchange", "judge"}
             /\ UNCHANGED <<variables, pc, case, step, turn, errors, canonical>>
    <3>1. ASSUME NEW t \in Targets, Keeps(t)
          PROVE  Keeps(t)'
      <4>1. step \in Nat \ {0}
        BY <2>3, StepUnderWay
      <4>2. PICK r : Said(t, case, step, r) /\ canonical[t] = Project(r)
        BY <3>1 DEF Keeps
      <4>3. \A c, k : c = case /\ k = step => Said(t, c, k, r)'
        BY <1>3, <4>1, <4>2, SaidStays
      <4> QED
        BY <2>3, <4>2, <4>3 DEF Keeps, Said, Project, ThisStep, This
    <3> QED
      BY <1>0, <2>3, <3>1 DEF Current
  <2> QED
    BY <2>1, <2>2, <2>3
<1> QED
  BY <1>1, <1>2, <1>3

(* What was said and is remembered stays so. *)
LEMMA ToldStays ==
  ASSUME IInv, [Next]_vars, NEW c, NEW h, NEW n \in Nat, Told(c, h, n)
  PROVE  Told(c, h, n)'
<1>1. \A t \in Targets : \A r : \A k \in Nat \ {0} : Said(t, c, k, r) => Said(t, c, k, r)'
  <2>1. CASE Accept \/ RejectReply \/ ExchangeFails
    BY <2>1, ExchangeSays
  <2>2. CASE ~(Accept \/ RejectReply \/ ExchangeFails)
    BY <2>2, SaidStays
  <2> QED
    BY <2>1, <2>2
<1> QED
  BY <1>1 DEF Told, Kept

(* The step that passes is remembered, and shows no difference unless its group
   is still to be compared. *)
LEMMA PassStepRemembers ==
  ASSUME IInv, StepPlace, Current, Remembered, PassStep
  PROVE  /\ Told(case, history', step)
         /\ Alike(case, history', step, IF EndsGroup THEN step ELSE 0)
<1>0. pc = "judge" /\ errors = {} /\ history' = Append(history, canonical)
  BY DEF PassStep, StepPasses
<1>1. /\ InCase /\ step \in Nat \ {0} /\ case \in Cases
      /\ ThisStep = Corpus[case].steps[step]
  BY <1>0, StepUnderWay
<1>2. Told(case, history, step - 1) /\ Alike(case, history, step - 1, 0)
  BY <1>0, <1>1 DEF Remembered
<1>3. PICK S : history \in Seq(S)
  BY <1>2 DEF Alike
<1>4. Len(history) = step - 1
  BY <1>2 DEF Alike
<1>5. /\ Append(history, canonical) \in Seq(S \cup {canonical})
      /\ Len(Append(history, canonical)) = step
      /\ Append(history, canonical)[step] = canonical
      /\ \A m \in 1 .. step - 1 : Append(history, canonical)[m] = history[m]
  <2>1. history \in Seq(S \cup {canonical})
    BY <1>3, SeqMonotonic
  <2> QED
    BY <1>1, <1>4, <2>1, AppendKeeps
<1>6. /\ history'[step] = canonical /\ \A m \in 1 .. step - 1 : history'[m] = history[m]
      /\ \E T : history' \in Seq(T)
      /\ Len(history') = step
  BY <1>0, <1>5
<1>7. \A m \in 1 .. step : m = step \/ m \in 1 .. step - 1
  BY <1>1
<1>8. \A r : Project(r) = Kept(case, step, r)
  BY <1>1 DEF Project, Kept
<1>9. \A t \in Targets : \E r : Said(t, case, step, r) /\ canonical[t] = Kept(case, step, r)
  BY <1>0, <1>8 DEF Current, Keeps
<1>10. Told(case, history', step)
  BY <1>2, <1>6, <1>7, <1>9 DEF Told
<1>11. ASSUME Both, NEW m \in 1 .. step,
              Corpus[case].steps[m].judge # "policy", ~InGroup(case, m)
       PROVE  history'[m][Order[1]] = history'[m][Order[2]]
  <2>1. CASE m = step
    <3>1. Agree
      BY <1>1, <1>11, <2>1 DEF PassStep, StepPasses, Grouped, InGroup, This
    <3> QED
      BY <1>6, <1>11, <2>1, <3>1 DEF Agree
  <2>2. CASE m \in 1 .. step - 1
    BY <1>2, <1>6, <1>11, <2>2 DEF Alike
  <2> QED
    BY <1>7, <2>1, <2>2
<1>12. ASSUME Both, NEW g \in Corpus[case].groups, g + 1 <= step,
              g + 1 # (IF EndsGroup THEN step ELSE 0)
       PROVE  /\ GroupsReadBodies(case, g)
              /\ history'[g][Order[1]].body \o history'[g + 1][Order[1]].body
                   = history'[g][Order[2]].body \o history'[g + 1][Order[2]].body
  <2>1. g \in Nat /\ g > 0
    BY <1>1, CorpusAssumption, CorpusType DEF Transcript
  <2>2. g + 1 # step
    <3>1. CASE EndsGroup
      BY <1>12, <3>1
    <3>2. CASE ~EndsGroup
      BY <1>1, <1>12, <2>1, <3>2 DEF EndsGroup, This
    <3> QED
      BY <3>1, <3>2
  <2>3. g \in 1 .. step - 1 /\ g + 1 \in 1 .. step - 1 /\ g + 1 <= step - 1 /\ g + 1 # 0
    BY <1>1, <1>12, <2>1, <2>2
  <2> QED
    BY <1>2, <1>6, <1>12, <2>3 DEF Alike
<1>13. Alike(case, history', step, IF EndsGroup THEN step ELSE 0)
  BY <1>6, <1>11, <1>12 DEF Alike
<1> QED
  BY <1>10, <1>13

(* A group that passes shows no difference between its two steps. *)
LEMMA PassGroupRemembers ==
  ASSUME IInv, StepPlace, Remembered, PassGroup
  PROVE  Told(case, history, step) /\ Alike(case, history, step, 0)
<1>0. pc = "group" /\ GroupAgrees
  BY DEF PassGroup
<1>1. InCase /\ step \in Nat \ {0} /\ case \in Cases
  BY <1>0, StepUnderWay
<1>2. Told(case, history, step) /\ Alike(case, history, step, step)
  BY <1>0, <1>1 DEF Remembered
<1>3. ASSUME Both, NEW g \in Corpus[case].groups, g + 1 <= step
      PROVE  /\ GroupsReadBodies(case, g)
             /\ history[g][Order[1]].body \o history[g + 1][Order[1]].body
                  = history[g][Order[2]].body \o history[g + 1][Order[2]].body
  <2>1. g \in Nat
    BY <1>1, CorpusType DEF Transcript
  <2>2. CASE g + 1 # step
    BY <1>2, <1>3, <2>2 DEF Alike
  <2>3. CASE g + 1 = step
    <3>1. g = step - 1
      BY <1>1, <2>1, <2>3
    <3> QED
      BY <1>0, <1>3, <2>3, <3>1 DEF GroupAgrees, GroupReads, GroupBody, GroupsReadBodies, This
  <2> QED
    BY <2>2, <2>3
<1>4. Alike(case, history, step, 0)
  BY <1>2, <1>3 DEF Alike
<1> QED
  BY <1>2, <1>4

LEMMA NextKeepsRemembered ==
  ASSUME IInv, StepPlace, Current, Remembered, [Next]_vars
  PROVE  Remembered'
<1> USE DEF controlVars, targetVars
<1>0. step \in Nat /\ \A c, h : \A n \in Nat : Told(c, h, n) => Told(c, h, n)'
  BY ToldStays DEF IInv, TypeOK
<1>1. CASE Leaves \/ RejectRun
  BY <1>1 DEF Leaves, RejectRun, Remembered, InCase
<1>2. CASE StartRun
  BY <1>2 DEF StartRun, Remembered, InCase, IInv, Pace
<1>3. CASE StartCase
  <2>1. pc' \in {"preflight", "validate"} /\ step' = 1 /\ case' = case /\ history' = <<>>
    BY <1>3 DEF StartCase
  <2>2. case \in Cases
    BY <1>3, CaseUnderWay DEF StartCase
  <2>3. \A c : Told(c, <<>>, 0)'
    BY DEF Told
  <2>4. Alike(case, <<>>, 0, 0)
    <3>1. (\E S : <<>> \in Seq(S)) /\ Len(<<>>) = 0
      OBVIOUS
    <3>2. \A g \in Corpus[case].groups : ~(g + 1 <= 0)
      BY <2>2, CorpusType DEF Transcript
    <3>3. \A m : m \notin 1 .. 0
      OBVIOUS
    <3> QED
      BY <3>1, <3>2, <3>3 DEF Alike
  <2> QED
    BY <2>1, <2>3, <2>4 DEF Remembered
<1>4. CASE /\ UNCHANGED <<case, step, history>> /\ InCase
           /\ pc # "group" /\ pc' # "group"
  <2>1. Told(case, history, step - 1) /\ Alike(case, history, step - 1, 0)
    BY <1>4 DEF Remembered
  <2>2. step \in Nat \ {0}
    <3>1. case \in Cases
      BY <1>4, CorpusType DEF InCase, IInv, TypeOK
    <3> QED
      BY <1>0, <1>4, <3>1, StepType DEF StepPlace, This
  <2>3. \A c, h, n : c = case /\ h = history /\ n = step - 1 => Told(c, h, n)'
    BY <1>0, <2>1, <2>2
  <2> QED
    BY <1>4, <2>1, <2>3 DEF Remembered
<1>5. CASE UNCHANGED <<case, step, history>> /\ InCase /\ pc = "group" /\ pc' = "group"
  <2>1. Told(case, history, step) /\ Alike(case, history, step, step)
    BY <1>5 DEF Remembered
  <2>2. \A c, h, n : c = case /\ h = history /\ n = step => Told(c, h, n)'
    BY <1>0, <2>1
  <2> QED
    BY <1>5, <2>1, <2>2 DEF Remembered
<1>6. CASE PassStep /\ EndsGroup
  <2>1. pc' = "group" /\ UNCHANGED <<case, step>>
    BY <1>6 DEF PassStep
  <2>2. Told(case, history', step) /\ Alike(case, history', step, step)
    BY <1>6, PassStepRemembers
  <2>3. \A c, h, n : c = case /\ h = history' /\ n = step => Told(c, h, n)'
    BY <1>0, <2>2
  <2> QED
    BY <2>1, <2>2, <2>3 DEF Remembered
<1>7. CASE (PassStep \/ PassGroup) /\ pc' = "validate" /\ step < Len(This.steps)
  <2>1. case' = case /\ step' = step + 1 /\ (PassStep => ~EndsGroup)
    <3>1. ~(pc' \in {"summary", "prepare", "group"})
      BY <1>7
    <3> QED
      BY <1>7, <3>1 DEF PassStep, PassGroup, EndCase
  <2>2. PassGroup => history' = history
    BY DEF PassGroup
  <2>3. Told(case, history', step) /\ Alike(case, history', step, 0)
    BY <1>7, <2>1, <2>2, PassStepRemembers, PassGroupRemembers
  <2>4. \A c, h, n : c = case /\ h = history' /\ n = step => Told(c, h, n)'
    BY <1>0, <2>3
  <2>5. step' - 1 = step
    BY <1>0, <2>1
  <2> QED
    BY <1>7, <2>1, <2>3, <2>4, <2>5 DEF Remembered
<1>8. CASE Validate \/ Accept \/ RejectReply \/ ExchangeFails
  <2>1. /\ pc \in {"validate", "exchange"} /\ pc' # "group"
        /\ UNCHANGED <<case, step, history>>
    BY <1>8 DEF Validate, Accept, RejectReply, ExchangeFails, NextTurn
  <2> QED
    BY <1>4, <2>1, StepUnderWay
<1>9. CASE pc = "preflight" /\ pc' \in {"preflight", "validate"} /\ StaysAtStep
  <2>1. history' = history /\ case' = case /\ step' = step
    BY <1>9
       DEF Next, Run, vars, StaysAtStep, RejectRun, StartRun, ChallengeAnswered,
           ChallengeFails, EndRunPreflights, Prepare, PrepareRaises, SkipCase, StartCase,
           EndCasePreflights, Validate, ValidateFails, Accept, RejectReply, ExchangeFails,
           PassStep, FailStep, PassGroup, FailGroup, Summarise, ArriveLate
  <2>2. CASE case > 0
    BY <1>4, <1>9, <2>1, <2>2 DEF InCase
  <2>3. CASE ~(case > 0)
    BY <2>1, <2>3 DEF Remembered, InCase
  <2> QED
    BY <2>2, <2>3
<1>10. CASE UNCHANGED vars \/ \E t \in Targets : ArriveLate(t)
  <2>1. UNCHANGED <<pc, case, step, history>>
    BY <1>10 DEF vars, ArriveLate
  <2>2. CASE InCase
    BY <1>4, <1>5, <2>1, <2>2
  <2>3. CASE ~InCase
    BY <2>1, <2>3 DEF Remembered, InCase
  <2> QED
    BY <2>2, <2>3
<1>11. CASE Run
  <2>1. CASE \/ RejectRun \/ StartRun \/ StartCase \/ Validate \/ Accept \/ RejectReply
             \/ ExchangeFails \/ ((PassStep \/ PassGroup) /\ ~Leaves)
    <3>1. (PassStep \/ PassGroup) /\ ~Leaves =>
            \/ PassStep /\ EndsGroup
            \/ (PassStep \/ PassGroup) /\ pc' = "validate" /\ step < Len(This.steps)
      BY DEF PassStep, PassGroup, Leaves, EndCase
    <3> QED
      BY <1>1, <1>2, <1>3, <1>6, <1>7, <1>8, <2>1, <3>1
  <2>2. CASE Leaves
    BY <1>1, <2>2
  <2>3. CASE ChallengeAnswered \/ ChallengeFails \/ (EndCasePreflights /\ ~Leaves)
    <3>1. pc = "preflight" /\ pc' \in {"preflight", "validate"} /\ StaysAtStep
      BY <2>3
         DEF ChallengeAnswered, ChallengeFails, EndCasePreflights, EndCase, Leaves, StaysAtStep
    <3> QED
      BY <1>9, <3>1
  <2>4. EndRunPreflights \/ Prepare \/ PrepareRaises \/ SkipCase \/ ValidateFails \/ FailStep
          \/ FailGroup \/ Summarise => Leaves
    BY DEF EndRunPreflights, Prepare, PrepareRaises, SkipCase, ValidateFails, FailStep,
           FailGroup, Summarise, EndCase, Leaves
  <2> QED
    BY <1>11, <2>1, <2>2, <2>3, <2>4 DEF Run
<1> QED
  BY <1>10, <1>11 DEF Next

-----------------------------------------------------------------------------
(* What the verdicts of the cases rest on. *)

\* The packets of two replies, one after the other.
Joined(a, b) == a.body \o b.body

\* Both targets said something of every step of case c, without a difference.
CaseAgrees(c) ==
  /\ \A k \in DOMAIN Corpus[c].steps, t \in Targets : \E r : Said(t, c, k, r)
  /\ \A k \in DOMAIN Corpus[c].steps : \A a, b :
       /\ Said(Order[1], c, k, a) /\ Said(Order[2], c, k, b)
       /\ Corpus[c].steps[k].judge # "policy" /\ ~InGroup(c, k)
       => \A f \in Corpus[c].steps[k].compares : a[f] = b[f]
  /\ \A g \in Corpus[c].groups : \A a, b, x, y :
       /\ Said(Order[1], c, g, a) /\ Said(Order[2], c, g, b)
       /\ Said(Order[1], c, g + 1, x) /\ Said(Order[2], c, g + 1, y)
       => Joined(a, x) = Joined(b, y)

\* A passed case agrees; of a skipped one nothing was said.
Settled ==
  \A c \in Cases : c \in DOMAIN cases =>
    /\ cases[c] = "passed" /\ Both => CaseAgrees(c)
    /\ cases[c] = "skipped" => \A t \in Targets, k \in Nat \ {0} : \A r : ~Said(t, c, k, r)

\* A run that passed has a verdict for every case, and none of them is a failure.
Outcome ==
  exit = "passed" =>
    Len(cases) = Len(Corpus) /\ \A c \in DOMAIN cases : cases[c] # "failed"

(* A case whose memory shows no difference has none in what was said. *)
LEMMA AlikeCaseAgrees ==
  ASSUME Once, Both, NEW c \in Cases, NEW h, NEW n, n = Len(Corpus[c].steps),
         Told(c, h, n), Alike(c, h, n, 0)
  PROVE  CaseAgrees(c)
<1>0. /\ n \in Nat /\ DOMAIN Corpus[c].steps = 1 .. n
      /\ \A k \in 1 .. n :
           k \in Nat \ {0} /\ Corpus[c].steps[k].compares \subseteq {"status", "body"}
  BY StepType DEF Step
<1>1. Order[1] \in Targets /\ Order[2] \in Targets
  BY OrderType DEF Both
<1>2. ASSUME NEW t \in Targets, NEW k \in 1 .. n, NEW r, Said(t, c, k, r)
      PROVE  h[k][t] = Kept(c, k, r)
  <2>1. PICK x : Said(t, c, k, x) /\ h[k][t] = Kept(c, k, x)
    BY DEF Told
  <2>2. x = r
    BY <1>0, <1>2, <2>1 DEF Once
  <2> QED
    BY <2>1, <2>2
<1>3. ASSUME NEW k \in 1 .. n, NEW a, NEW b, Kept(c, k, a) = Kept(c, k, b)
      PROVE  \A f \in Corpus[c].steps[k].compares : a[f] = b[f]
  <2>1. /\ Kept(c, k, a).status = Kept(c, k, b).status
        /\ Kept(c, k, a).body = Kept(c, k, b).body
    BY <1>3
  <2>2. "status" \in Corpus[c].steps[k].compares => a.status = b.status
    BY <2>1 DEF Kept
  <2>3. "body" \in Corpus[c].steps[k].compares => a.body = b.body
    BY <2>1 DEF Kept
  <2> QED
    BY <1>0, <2>2, <2>3
<1>4. ASSUME NEW k \in 1 .. n, NEW a, NEW b,
             Said(Order[1], c, k, a), Said(Order[2], c, k, b),
             Corpus[c].steps[k].judge # "policy", ~InGroup(c, k)
      PROVE  \A f \in Corpus[c].steps[k].compares : a[f] = b[f]
  <2>1. h[k][Order[1]] = h[k][Order[2]]
    BY <1>4 DEF Alike
  <2> QED
    BY <1>1, <1>2, <1>3, <1>4, <2>1
<1>5. \A g \in Corpus[c].groups : \A a, b, x, y :
        /\ Said(Order[1], c, g, a) /\ Said(Order[2], c, g, b)
        /\ Said(Order[1], c, g + 1, x) /\ Said(Order[2], c, g + 1, y)
        => Joined(a, x) = Joined(b, y)
  <2> TAKE g \in Corpus[c].groups
  <2> TAKE a, b, x, y
  <2>0. HAVE /\ Said(Order[1], c, g, a) /\ Said(Order[2], c, g, b)
             /\ Said(Order[1], c, g + 1, x) /\ Said(Order[2], c, g + 1, y)
  <2>1. g \in Nat /\ g > 0 /\ g + 1 \in 1 .. n /\ g \in 1 .. n
    BY <1>0, CorpusAssumption, CorpusType DEF Transcript
  <2>2. /\ GroupsReadBodies(c, g)
        /\ h[g][Order[1]].body \o h[g + 1][Order[1]].body
             = h[g][Order[2]].body \o h[g + 1][Order[2]].body
    <3>1. g + 1 <= n /\ g + 1 # 0
      BY <1>0, <2>1
    <3> QED
      BY <3>1 DEF Alike
  <2>3. /\ h[g][Order[1]] = Kept(c, g, a) /\ h[g][Order[2]] = Kept(c, g, b)
        /\ h[g + 1][Order[1]] = Kept(c, g + 1, x) /\ h[g + 1][Order[2]] = Kept(c, g + 1, y)
    BY <1>1, <1>2, <2>0, <2>1
  <2>4. /\ Kept(c, g, a).body = a.body /\ Kept(c, g, b).body = b.body
        /\ Kept(c, g + 1, x).body = x.body /\ Kept(c, g + 1, y).body = y.body
    BY <2>2 DEF GroupsReadBodies, Kept
  <2> QED
    BY <2>2, <2>3, <2>4 DEF Joined
<1>6. \A k \in 1 .. n, t \in Targets : \E r : Said(t, c, k, r)
  BY DEF Told
<1>7. \A k \in 1 .. n : \A a, b :
        /\ Said(Order[1], c, k, a) /\ Said(Order[2], c, k, b)
        /\ Corpus[c].steps[k].judge # "policy" /\ ~InGroup(c, k)
        => \A f \in Corpus[c].steps[k].compares : a[f] = b[f]
  BY <1>4
<1> QED
  BY <1>0, <1>5, <1>6, <1>7 DEF CaseAgrees

(* A case that passes agrees. *)
LEMMA PassedCaseAgrees ==
  ASSUME IInv, StepPlace, Current, Remembered, Once, Both,
         PassStep \/ PassGroup, cases' # cases
  PROVE  CaseAgrees(case)
<1>1. pc \in {"judge", "group"}
  BY DEF PassStep, PassGroup
<1>2. case \in Cases /\ step \in DOMAIN Corpus[case].steps
  BY <1>1, StepUnderWay
<1>3. step = Len(Corpus[case].steps) /\ (PassStep => ~EndsGroup)
  <2>1. ~(step < Len(This.steps)) /\ (PassStep => ~EndsGroup)
    BY DEF PassStep, PassGroup
  <2> QED
    BY <1>2, <2>1, StepType DEF This
<1>4. \E h : Told(case, h, step) /\ Alike(case, h, step, 0)
  BY <1>3, PassStepRemembers, PassGroupRemembers
<1> QED
  BY <1>2, <1>3, <1>4, AlikeCaseAgrees

\* What was said of case c is what was said before.
SaidSame(c) ==
  \A t \in Targets, k \in Nat \ {0} : \A r : Said(t, c, k, r)' <=> Said(t, c, k, r)

(* A case says nothing more once it has its verdict. *)
LEMMA JudgedCasesAreSilent ==
  ASSUME IInv, [Next]_vars, NEW c \in DOMAIN cases
  PROVE  SaidSame(c)
<1>1. cases \in Seq(Verdicts) /\ DOMAIN cases = 1 .. Len(cases) /\ Len(cases) \in Nat
  BY LenProperties DEF IInv, TypeOK, Verdicts
<1>2. CASE Accept \/ RejectReply \/ ExchangeFails
  <2>1. pc = "exchange"
    BY <1>2 DEF Accept, RejectReply, ExchangeFails
  <2>2. case \in Nat /\ Len(cases) = case - 1
    BY <2>1, CaseUnderWay, CorpusType DEF IInv, Pace, TypeOK
  <2>3. c # case
    BY <1>1, <2>2
  <2> QED
    BY <1>2, <2>3, ExchangeSays DEF SaidSame
<1>3. CASE ~(Accept \/ RejectReply \/ ExchangeFails)
  BY <1>3, SaidStays DEF SaidSame
<1> QED
  BY <1>2, <1>3

(* What a case's verdict rests on does not change with what others say. *)
LEMMA AgreementStays ==
  ASSUME Both, NEW c \in Cases, SaidSame(c), CaseAgrees(c)
  PROVE  CaseAgrees(c)'
<1>0. Order[1] \in Targets /\ Order[2] \in Targets
  BY OrderType DEF Both
<1>1. \A k \in DOMAIN Corpus[c].steps : k \in Nat \ {0}
  BY StepType
<1>2. \A g \in Corpus[c].groups : g \in Nat \ {0} /\ g + 1 \in Nat \ {0}
  BY CorpusAssumption, CorpusType DEF Transcript
<1>3. \A k \in DOMAIN Corpus[c].steps, t \in Targets : \E r : Said(t, c, k, r)'
  BY <1>1 DEF CaseAgrees, SaidSame
<1>4. \A k \in DOMAIN Corpus[c].steps : \A a, b :
        /\ Said(Order[1], c, k, a)' /\ Said(Order[2], c, k, b)'
        /\ Corpus[c].steps[k].judge # "policy" /\ ~InGroup(c, k)
        => \A f \in Corpus[c].steps[k].compares : a[f] = b[f]
  BY <1>0, <1>1 DEF CaseAgrees, SaidSame
<1>5. \A g \in Corpus[c].groups : \A a, b, x, y :
        /\ Said(Order[1], c, g, a)' /\ Said(Order[2], c, g, b)'
        /\ Said(Order[1], c, g + 1, x)' /\ Said(Order[2], c, g + 1, y)'
        => Joined(a, x) = Joined(b, y)
  <2> TAKE g \in Corpus[c].groups
  <2> TAKE a, b, x, y
  <2>1. HAVE /\ Said(Order[1], c, g, a)' /\ Said(Order[2], c, g, b)'
             /\ Said(Order[1], c, g + 1, x)' /\ Said(Order[2], c, g + 1, y)'
  <2>2. g \in Nat \ {0} /\ g + 1 \in Nat \ {0}
    BY <1>2
  <2>3. /\ Said(Order[1], c, g, a) /\ Said(Order[2], c, g, b)
        /\ Said(Order[1], c, g + 1, x) /\ Said(Order[2], c, g + 1, y)
    BY <1>0, <2>1, <2>2 DEF SaidSame
  <2> QED
    BY <2>3 DEF CaseAgrees
<1> QED
  BY <1>3, <1>4, <1>5 DEF CaseAgrees, InGroup

(* The verdicts of the cases before this one rest on what they rested on. *)
LEMMA SettledStays ==
  ASSUME IInv, Settled, [Next]_vars, NEW c \in DOMAIN cases, c \in Cases
  PROVE  /\ cases[c] = "passed" /\ Both => CaseAgrees(c)'
         /\ cases[c] = "skipped" => \A t \in Targets, k \in Nat \ {0} : \A r : ~Said(t, c, k, r)'
<1>1. SaidSame(c)
  BY JudgedCasesAreSilent
<1>2. cases[c] = "passed" /\ Both => CaseAgrees(c)'
  BY <1>1, AgreementStays DEF Settled
<1>3. cases[c] = "skipped" => \A t \in Targets, k \in Nat \ {0} : \A r : ~Said(t, c, k, r)'
  BY <1>1 DEF Settled, SaidSame
<1> QED
  BY <1>2, <1>3

(* There is one verdict more, of the case under way, or there is none. *)
LEMMA VerdictAdded ==
  ASSUME IInv, [Next]_vars, cases' # cases
  PROVE  /\ case \in Cases /\ Len(cases) = case - 1
         /\ \E verdict \in Verdicts :
              /\ cases' = Append(cases, verdict)
              /\ verdict = "passed" => PassStep \/ PassGroup
              /\ verdict = "skipped" => SkipCase
         /\ ~(Accept \/ RejectReply \/ ExchangeFails)
<1> USE DEF controlVars, targetVars, Verdicts
<1>1. SkipCase \/ ValidateFails \/ FailStep \/ FailGroup \/ PassStep \/ PassGroup
        \/ (EndCasePreflights /\ ~AllPassed)
  BY DEF Next, Run, vars, RejectRun, StartRun, ChallengeAnswered, ChallengeFails,
         EndRunPreflights, Prepare, PrepareRaises, StartCase, EndCasePreflights, Validate,
         Accept, RejectReply, ExchangeFails, Summarise, ArriveLate
<1>2. case > 0 /\ pc \notin {"start", "summary", "done", "exchange"}
  <2>1. CASE EndCasePreflights
    BY <2>1 DEF EndCasePreflights
  <2>2. CASE SkipCase \/ ValidateFails \/ FailStep \/ FailGroup \/ PassStep \/ PassGroup
    <3>1. pc \in {"case", "validate", "judge", "group"}
      BY <2>2 DEF SkipCase, ValidateFails, FailStep, FailGroup, PassStep, PassGroup
    <3>2. case \in Cases
      BY <3>1, CaseUnderWay
    <3> QED
      BY <3>1, <3>2, CorpusType
  <2> QED
    BY <1>1, <2>1, <2>2
<1>3. case \in Cases /\ Len(cases) = case - 1
  BY <1>2, CorpusType DEF IInv, TypeOK, Pace
<1>4. CASE SkipCase \/ ValidateFails \/ FailStep \/ FailGroup
  BY <1>2, <1>3, <1>4
     DEF SkipCase, ValidateFails, FailStep, FailGroup, EndCase, Accept, RejectReply,
         ExchangeFails
<1>5. CASE PassStep \/ PassGroup
  BY <1>2, <1>3, <1>5 DEF PassStep, PassGroup, EndCase, Accept, RejectReply, ExchangeFails
<1>6. CASE EndCasePreflights /\ ~AllPassed
  BY <1>2, <1>3, <1>6 DEF EndCasePreflights, EndCase, Accept, RejectReply, ExchangeFails
<1> QED
  BY <1>1, <1>4, <1>5, <1>6

LEMMA NextKeepsSettled ==
  ASSUME IInv, StepPlace, Current, Remembered, Past, Once, Settled, [Next]_vars
  PROVE  Settled'
<1>1. CASE cases' = cases
  BY <1>1, SettledStays DEF Settled
<1>2. CASE cases' # cases
  <2>0. /\ case \in Cases /\ Len(cases) = case - 1
        /\ ~(Accept \/ RejectReply \/ ExchangeFails)
    BY <1>2, VerdictAdded
  <2>1. PICK verdict \in Verdicts :
          /\ cases' = Append(cases, verdict)
          /\ verdict = "passed" => PassStep \/ PassGroup
          /\ verdict = "skipped" => SkipCase
    BY <1>2, VerdictAdded
  <2>2. /\ cases \in Seq(Verdicts) /\ DOMAIN cases = 1 .. Len(cases)
        /\ DOMAIN cases' = 1 .. Len(cases) + 1
        /\ cases'[Len(cases) + 1] = verdict
        /\ \A i \in 1 .. Len(cases) : cases'[i] = cases[i]
    BY <2>1, AppendKeeps DEF IInv, TypeOK, Verdicts
  <2>3. \A c \in DOMAIN cases' : (c \in DOMAIN cases /\ cases'[c] = cases[c]) \/ c = case
    BY <2>0, <2>2, CorpusType
  <2>4. \A c : SaidSame(c)
    BY <2>0, SaidStays DEF SaidSame
  <2>5. ASSUME NEW c \in Cases, c = case
        PROVE  /\ verdict = "passed" /\ Both => CaseAgrees(c)'
               /\ verdict = "skipped" =>
                    \A t \in Targets, k \in Nat \ {0} : \A r : ~Said(t, c, k, r)'
    <3>1. SaidSame(c)
      BY <2>4, <2>5
    <3>2. ASSUME verdict = "passed", Both
          PROVE  CaseAgrees(c)'
      <4>1. CaseAgrees(c)
        BY <1>2, <2>1, <2>5, <3>2, PassedCaseAgrees
      <4> QED
        BY <3>1, <3>2, <4>1, AgreementStays
    <3>3. ASSUME verdict = "skipped", NEW t \in Targets, NEW k \in Nat \ {0}, NEW r
          PROVE  ~Said(t, c, k, r)'
      <4>1. pc = "case"
        BY <2>1, <3>3 DEF SkipCase
      <4>2. ~Said(t, c, k, r)
        BY <2>5, <4>1 DEF Past
      <4> QED
        BY <3>1, <4>2 DEF SaidSame
    <3> QED
      BY <3>2, <3>3
  <2>6. cases'[case] = verdict
    BY <2>0, <2>2, CorpusType
  <2> QED
    BY <2>3, <2>5, <2>6, SettledStays DEF Settled
<1> QED
  BY <1>1, <1>2

LEMMA NextKeepsOutcome ==
  ASSUME IInv, Outcome, [Next]_vars
  PROVE  Outcome'
<1>0. (exit = "passed" => pc = "done") /\ exit \in {"running", "passed", "failed", "crashed"}
  BY DEF IInv, Pace, TypeOK
<1>1. CASE Summarise
  <2>1. SUFFICES ASSUME exit' = "passed"
                 PROVE  Len(cases) = Len(Corpus) /\ \A c \in DOMAIN cases : cases[c] # "failed"
    BY <1>1 DEF Outcome, Summarise, controlVars
  <2>2. \A c \in DOMAIN cases : cases[c] # "failed"
    BY <1>1, <2>1 DEF Summarise, Count
  <2>3. cases \in Seq(Verdicts) /\ cases # <<>>
    BY <1>1 DEF Summarise, IInv, Pace, TypeOK, Verdicts
  <2>4. Len(cases) \in DOMAIN cases
    BY <2>3, LenProperties, EmptySeq
  <2> QED
    BY <1>1, <2>2, <2>4 DEF Summarise, IInv, Pace
<1>2. CASE exit' = exit /\ cases' = cases
  BY <1>2 DEF Outcome
<1>3. CASE exit' # "passed"
  BY <1>3 DEF Outcome
<1>4. CASE ~Summarise
  <2>1. exit' = exit \/ exit' # "passed"
    BY <1>4
       DEF Next, Run, vars, RejectRun, StartRun, ChallengeAnswered, ChallengeFails,
           EndRunPreflights, Prepare, PrepareRaises, SkipCase, StartCase, EndCasePreflights,
           Validate, ValidateFails, Accept, RejectReply, ExchangeFails, PassStep, FailStep,
           PassGroup, FailGroup, ArriveLate
  <2>2. ASSUME exit = "passed"
        PROVE  cases' = cases
    BY <1>0, <1>4, <2>2
       DEF Next, Run, vars, controlVars, RejectRun, StartRun, ChallengeAnswered,
           ChallengeFails, EndRunPreflights, Prepare, PrepareRaises, SkipCase, StartCase,
           EndCasePreflights, Validate, ValidateFails, Accept, RejectReply, ExchangeFails,
           PassStep, FailStep, PassGroup, FailGroup, ArriveLate
  <2> QED
    BY <1>2, <1>3, <2>1, <2>2
<1> QED
  BY <1>1, <1>4

(* The inductive invariant of what was said. *)
SaidInv ==
  StepInv /\ Past /\ Once /\ Current /\ Remembered /\ Settled /\ Outcome

LEMMA InitSaidInv == Init => SaidInv
<1> SUFFICES ASSUME Init PROVE SaidInv
  OBVIOUS
<1>1. StepInv
  BY InitStepInv
<1>2. \A t \in Targets : \A c, k, r : ~Said(t, c, k, r)
  BY DEF Init, Said
<1>3. pc = "start" /\ case = 0 /\ cases = <<>> /\ exit = "running"
  BY DEF Init
<1> QED
  BY <1>1, <1>2, <1>3
     DEF SaidInv, Past, Once, Current, Remembered, InCase, Settled, Outcome

LEMMA NextKeepsSaidInv == SaidInv /\ [Next]_vars => SaidInv'
<1> SUFFICES ASSUME SaidInv, [Next]_vars PROVE SaidInv'
  OBVIOUS
<1>1. IInv /\ StepPlace /\ Past /\ Once /\ Current /\ Remembered /\ Settled /\ Outcome
  BY DEF SaidInv, StepInv
<1>2. StepInv'
  BY NextKeepsStepInv DEF SaidInv
<1> QED
  BY <1>1, <1>2, NextKeepsPast, NextKeepsOnce, NextKeepsCurrent, NextKeepsRemembered,
     NextKeepsSettled, NextKeepsOutcome DEF SaidInv

LEMMA AlwaysSaidInv == Spec => []SaidInv
BY InitSaidInv, NextKeepsSaidInv, PTL DEF Spec

(* The reply that is looked up is the one that came back. *)
LEMMA AskedSaid ==
  ASSUME NEW t \in Targets, NEW c, NEW k, Asked(c, k)
  PROVE  Said(t, c, k, ReplyTo(t, c, k))
<1>1. \E j \in DOMAIN log[t] : log[t][j].case = c /\ log[t][j].step = k
  BY DEF Asked
<1> QED
  BY <1>1 DEF ReplyTo, Said

LEMMA SaidInvHolds == SaidInv => NoDifferenceLost
<1> SUFFICES ASSUME SaidInv, exit = "passed", Both,
                    NEW c \in Cases, NEW k \in DOMAIN Corpus[c].steps,
                    Asked(c, k), Corpus[c].steps[k].judge # "policy"
             PROVE  /\ ~InGroup(c, k) =>
                         \A f \in Corpus[c].steps[k].compares :
                           ReplyTo(Order[1], c, k)[f] = ReplyTo(Order[2], c, k)[f]
                    /\ k \in Corpus[c].groups =>
                         ReplyTo(Order[1], c, k).body \o ReplyTo(Order[1], c, k + 1).body
                           = ReplyTo(Order[2], c, k).body \o ReplyTo(Order[2], c, k + 1).body
  BY DEF NoDifferenceLost
<1>0. Order[1] \in Targets /\ Order[2] \in Targets /\ k \in Nat \ {0}
  BY OrderType, StepType DEF Both
<1>1. /\ c \in DOMAIN cases /\ cases[c] \in Verdicts /\ cases[c] # "failed"
  <2>1. cases \in Seq(Verdicts) /\ Len(cases) = Len(Corpus)
    BY DEF SaidInv, StepInv, IInv, TypeOK, Verdicts, Outcome
  <2>2. c \in DOMAIN cases /\ cases[c] \in Verdicts
    BY <2>1, LenProperties, CorpusType
  <2> QED
    BY <2>2 DEF SaidInv, Outcome
<1>2. cases[c] # "skipped"
  BY <1>0, <1>1, AskedSaid DEF SaidInv, Settled
<1>3. CaseAgrees(c)
  BY <1>1, <1>2 DEF SaidInv, Settled, Verdicts
<1>4. ASSUME ~InGroup(c, k)
      PROVE  \A f \in Corpus[c].steps[k].compares :
               ReplyTo(Order[1], c, k)[f] = ReplyTo(Order[2], c, k)[f]
  BY <1>0, <1>3, <1>4, AskedSaid DEF CaseAgrees
<1>5. ASSUME k \in Corpus[c].groups
      PROVE  ReplyTo(Order[1], c, k).body \o ReplyTo(Order[1], c, k + 1).body
               = ReplyTo(Order[2], c, k).body \o ReplyTo(Order[2], c, k + 1).body
  <2>1. k + 1 \in DOMAIN Corpus[c].steps
    BY <1>5, CorpusAssumption
  <2>2. Asked(c, k + 1)
    BY <1>3, <2>1 DEF CaseAgrees, Asked, Said
  <2>3. /\ Said(Order[1], c, k, ReplyTo(Order[1], c, k))
        /\ Said(Order[2], c, k, ReplyTo(Order[2], c, k))
        /\ Said(Order[1], c, k + 1, ReplyTo(Order[1], c, k + 1))
        /\ Said(Order[2], c, k + 1, ReplyTo(Order[2], c, k + 1))
    BY <1>0, <2>2, AskedSaid
  <2>4. Joined(ReplyTo(Order[1], c, k), ReplyTo(Order[1], c, k + 1))
          = Joined(ReplyTo(Order[2], c, k), ReplyTo(Order[2], c, k + 1))
    BY <1>3, <1>5, <2>3 DEF CaseAgrees
  <2> QED
    BY <2>4 DEF Joined
<1> QED
  BY <1>4, <1>5

(* A run that passes has not lost a difference: wherever both targets were asked
   a step outside every policy, their replies agreed on what is compared. *)
THEOREM NoDifferenceIsLost == Spec => []NoDifferenceLost
BY AlwaysSaidInv, SaidInvHolds, PTL

-----------------------------------------------------------------------------
(* Recursion over a range of numbers *)

(* What holds at 0 and at each number after one where it holds, holds throughout. *)
LEMMA Climb ==
  ASSUME NEW last \in Nat, NEW good, 0 \in good, \A n \in 1 .. last : n - 1 \in good => n \in good
  PROVE  \A n \in 0 .. last : n \in good
<1> DEFINE bad == {n \in 0 .. last : n \notin good}
<1>1. SUFFICES ASSUME bad # {} PROVE FALSE
  OBVIOUS
<1>2. bad \in SUBSET Nat
  OBVIOUS
<1>3. PICK x \in bad : \A y \in bad : ~(<<y, x>> \in OpToRel(<, Nat))
  <2> HIDE DEF bad
  <2> QED
    BY <1>1, <1>2, NatLessThanWellFounded, WFMin
<1>4. \A y, z \in Nat : y < z => <<y, z>> \in OpToRel(<, Nat)
  BY DEF OpToRel
<1>5. x \in 1 .. last /\ x - 1 \in 0 .. last /\ x - 1 \in Nat /\ x \in Nat /\ x - 1 < x
  OBVIOUS
<1>6. x - 1 \notin bad
  BY <1>3, <1>4, <1>5, Zenon
<1> QED
  BY <1>5, <1>6

\* From base, add takes f from each number to the next.
IsWalk(f, last, base, add) ==
  f[0] = base /\ \A n \in 1 .. last : f[n] = add[<<f[n - 1], n>>]

(* What add tells for every value and number can be followed all the way. *)
LEMMA WalkExists ==
  ASSUME NEW last \in Nat, NEW S, NEW base \in S, NEW add \in [S \X (1 .. last) -> S]
  PROVE  \E f \in [0 .. last -> S] : IsWalk(f, last, base, add)
<1> USE DEF IsWalk
<1> DEFINE Walk(f, l) == IsWalk(f, l, base, add)
           good == {l \in 0 .. last : \E f \in [0 .. l -> S] : Walk(f, l)}
<1>1. 0 \in good
  <2> DEFINE f == [n \in 0 .. 0 |-> base]
  <2>1. f \in [0 .. 0 -> S] /\ Walk(f, 0)
    OBVIOUS
  <2>2. 0 \in 0 .. last
    OBVIOUS
  <2> QED
    BY <2>1, <2>2
<1>2. ASSUME NEW l \in 1 .. last, l - 1 \in good PROVE l \in good
  <2>1. PICK f \in [0 .. (l - 1) -> S] : Walk(f, l - 1)
    BY <1>2
  <2> DEFINE g == [n \in 0 .. l |-> IF n = l THEN add[<<f[l - 1], l>>] ELSE f[n]]
  <2>2. l \in Nat /\ l # 0 /\ l - 1 \in 0 .. (l - 1) /\ l \in 0 .. last
    OBVIOUS
  <2>3. f[l - 1] \in S
    BY <2>2
  <2>4. add[<<f[l - 1], l>>] \in S
    BY <2>3
  <2>5. \A n \in 0 .. l : n # l => n \in 0 .. (l - 1)
    BY <2>2
  <2>6. g \in [0 .. l -> S]
    BY <2>4, <2>5
  <2>7. g[0] = base
    BY <2>1, <2>2
  <2>8. ASSUME NEW n \in 1 .. l PROVE g[n] = add[<<g[n - 1], n>>]
    <3>1. n \in 0 .. l /\ n - 1 \in 0 .. l /\ n - 1 # l /\ (n = l \/ n \in 1 .. (l - 1))
      BY <2>2
    <3>2. g[n - 1] = f[n - 1]
      BY <3>1
    <3>3. CASE n = l
      BY <3>1, <3>2, <3>3
    <3>4. CASE n # l
      BY <2>1, <3>1, <3>2, <3>4
    <3> QED
      BY <3>3, <3>4
  <2> QED
    BY <2>2, <2>6, <2>7, <2>8
<1>3. \A l \in 0 .. last : l \in good
  <2> HIDE DEF good
  <2> QED
    BY <1>1, <1>2, Climb
<1> QED
  BY <1>3

-----------------------------------------------------------------------------
(* The sessions of a complete run *)

(* Appending keeps what was there. *)
LEMMA AppendAddsOne ==
  ASSUME NEW S, NEW s \in Seq(S), NEW b \in S
  PROVE  /\ Append(s, b) \in Seq(S)
         /\ ToSet(s) \subseteq ToSet(Append(s, b)) /\ b \in ToSet(Append(s, b))
<1>1. Len(s) \in Nat /\ DOMAIN s = 1 .. Len(s)
  BY LenProperties
<1>2. /\ Append(s, b) \in Seq(S) /\ DOMAIN Append(s, b) = 1 .. (Len(s) + 1)
      /\ Append(s, b)[Len(s) + 1] = b /\ \A i \in 1 .. Len(s) : Append(s, b)[i] = s[i]
  BY <1>1, AppendProperties, LenProperties
<1>3. \A i \in 1 .. Len(s) : i \in 1 .. (Len(s) + 1)
  BY <1>1
<1>4. Len(s) + 1 \in 1 .. (Len(s) + 1)
  BY <1>1
<1> DEFINE t == Append(s, b)
<1> HIDE DEF t
<1>5. ToSet(s) = {s[i] : i \in 1 .. Len(s)} /\ ToSet(t) = {t[i] : i \in 1 .. (Len(s) + 1)}
  BY <1>1, <1>2 DEF ToSet, t
<1> QED
  BY <1>2, <1>3, <1>4, <1>5 DEF t

(* Nothing seen is lost, and all bindings are seen afterwards. *)
LEMMA CollectedHolds ==
  ASSUME NEW seen \in Seq(Sessions), NEW bindings \in Seq(Sessions)
  PROVE  /\ Collected(seen, bindings) \in Seq(Sessions)
         /\ ToSet(seen) \subseteq ToSet(Collected(seen, bindings))
         /\ ToSet(bindings) \subseteq ToSet(Collected(seen, bindings))
<1> DEFINE last == Len(bindings)
           Further(s, i) == IF bindings[i] \in ToSet(s) THEN s ELSE Append(s, bindings[i])
           Walked(f) == [i \in 0 .. last |-> IF i = 0 THEN seen ELSE Further(f[i - 1], i)]
           after == CHOOSE f : f = Walked(f)
           add == [p \in Seq(Sessions) \X (1 .. last) |-> Further(p[1], p[2])]
<1>1. last \in Nat /\ \A i \in 1 .. last : bindings[i] \in Sessions
  BY LenProperties, ElementOfSeq
<1>2. ASSUME NEW s \in Seq(Sessions), NEW i \in 1 .. last
      PROVE  /\ Further(s, i) \in Seq(Sessions)
             /\ ToSet(s) \subseteq ToSet(Further(s, i)) /\ bindings[i] \in ToSet(Further(s, i))
  <2>1. CASE bindings[i] \in ToSet(s)
    BY <2>1
  <2>2. CASE bindings[i] \notin ToSet(s)
    <3>1. bindings[i] \in Sessions
      BY <1>1
    <3> QED
      BY <2>2, <3>1, AppendAddsOne
  <2> QED
    BY <2>1, <2>2
<1>3. add \in [Seq(Sessions) \X (1 .. last) -> Seq(Sessions)]
  BY <1>2
<1>4. \A s \in Seq(Sessions) : \A i \in 1 .. last : add[<<s, i>>] = Further(s, i)
  OBVIOUS
<1> HIDE DEF add
<1>5. PICK f \in [0 .. last -> Seq(Sessions)] :
        f[0] = seen /\ \A i \in 1 .. last : f[i] = add[<<f[i - 1], i>>]
  <2> DEFINE all == Seq(Sessions)
  <2>1. last \in Nat /\ seen \in all /\ add \in [all \X (1 .. last) -> all]
    BY <1>1, <1>3
  <2> HIDE DEF all, last
  <2>2. \E f \in [0 .. last -> all] : IsWalk(f, last, seen, add)
    BY <2>1, WalkExists
  <2> QED
    BY <2>2 DEF all, IsWalk
<1>6. \A i \in 0 .. last : i # 0 => i \in 1 .. last /\ i - 1 \in 0 .. last
  BY <1>1
<1>7. f = Walked(f)
  <2> HIDE DEF Further
  <2>1. \A i \in 1 .. last : i \in 0 .. last /\ f[i - 1] \in Seq(Sessions)
    BY <1>1, <1>6
  <2>2. \A i \in 1 .. last : f[i] = Further(f[i - 1], i)
    BY <1>4, <1>5, <2>1
  <2> QED
    BY <1>5, <1>6, <2>2
<1>8. after = Walked(after)
  <2> HIDE DEF Walked
  <2> QED
    BY <1>7
<1>9. Collected(seen, bindings) = after[last]
  BY DEF Collected
<1> HIDE DEF after, last
<1>10. after[0] = seen /\ \A i \in 1 .. last : after[i] = Further(after[i - 1], i)
  <2> HIDE DEF Further
  <2> QED
    BY <1>1, <1>6, <1>8
<1> HIDE DEF Further
<1> DEFINE good == {i \in 0 .. last :
                      /\ after[i] \in Seq(Sessions) /\ ToSet(seen) \subseteq ToSet(after[i])
                      /\ \A j \in 1 .. i : bindings[j] \in ToSet(after[i])}
<1>11. 0 \in good
  BY <1>1, <1>10
<1>12. ASSUME NEW i \in 1 .. last, i - 1 \in good PROVE i \in good
  <2>1. /\ Further(after[i - 1], i) \in Seq(Sessions)
        /\ ToSet(after[i - 1]) \subseteq ToSet(Further(after[i - 1], i))
        /\ bindings[i] \in ToSet(Further(after[i - 1], i))
    BY <1>2, <1>12
  <2>2. \A j \in 1 .. i : j = i \/ j \in 1 .. (i - 1)
    BY <1>1
  <2> QED
    BY <1>1, <1>10, <1>12, <2>1, <2>2
<1>13. last \in good
  <2>1. \A i \in 0 .. last : i \in good
    <3> HIDE DEF good
    <3> QED
      BY <1>1, <1>11, <1>12, Climb
  <2>2. last \in 0 .. last
    BY <1>1
  <2> HIDE DEF good
  <2> QED
    BY <2>1, <2>2
<1>14. ToSet(bindings) = {bindings[i] : i \in 1 .. last}
  BY LenProperties DEF ToSet, last
<1> QED
  BY <1>9, <1>13, <1>14

(* They are a sequence of sessions, in which those of each case occur. *)
LEMMA BindingsCollected ==
  /\ AllBindings \in Seq(Sessions)
  /\ \A c \in Cases : ToSet(Corpus[c].bindings) \subseteq ToSet(AllBindings)
<1> DEFINE last == Len(Corpus)
           Walked(f) ==
             [c \in 0 .. last |-> IF c = 0 THEN <<>> ELSE Collected(f[c - 1], Corpus[c].bindings)]
           collected == CHOOSE f : f = Walked(f)
           add == [p \in Seq(Sessions) \X (1 .. last) |-> Collected(p[1], Corpus[p[2]].bindings)]
<1>1. last \in Nat /\ Cases = 1 .. last /\ \A c \in 1 .. last : Corpus[c].bindings \in Seq(Sessions)
  <2>1. Corpus \in Seq(Transcript)
    BY CorpusAssumption
  <2>2. last \in Nat /\ Cases = 1 .. last /\ \A c \in 1 .. last : Corpus[c] \in Transcript
    BY <2>1, LenProperties, ElementOfSeq DEF Cases
  <2>3. \A transcript \in Transcript : transcript.bindings \in Seq(Sessions)
    BY DEF Transcript
  <2> QED
    BY <2>2, <2>3
<1>2. ASSUME NEW s \in Seq(Sessions), NEW c \in 1 .. last
      PROVE  /\ Collected(s, Corpus[c].bindings) \in Seq(Sessions)
             /\ ToSet(s) \subseteq ToSet(Collected(s, Corpus[c].bindings))
             /\ ToSet(Corpus[c].bindings) \subseteq ToSet(Collected(s, Corpus[c].bindings))
  BY <1>1, CollectedHolds
<1>3. add \in [Seq(Sessions) \X (1 .. last) -> Seq(Sessions)] /\ <<>> \in Seq(Sessions)
  BY <1>2
<1>4. \A s \in Seq(Sessions) : \A c \in 1 .. last : add[<<s, c>>] = Collected(s, Corpus[c].bindings)
  OBVIOUS
<1> HIDE DEF add
<1>5. PICK f \in [0 .. last -> Seq(Sessions)] :
        f[0] = <<>> /\ \A c \in 1 .. last : f[c] = add[<<f[c - 1], c>>]
  <2> DEFINE all == Seq(Sessions)
  <2>1. last \in Nat /\ <<>> \in all /\ add \in [all \X (1 .. last) -> all]
    BY <1>1, <1>3
  <2> HIDE DEF all, last
  <2>2. \E f \in [0 .. last -> all] : IsWalk(f, last, <<>>, add)
    BY <2>1, WalkExists
  <2> QED
    BY <2>2 DEF all, IsWalk
<1>6. \A c \in 0 .. last : c # 0 => c \in 1 .. last /\ c - 1 \in 0 .. last
  BY <1>1
<1>7. f = Walked(f)
  <2>1. \A c \in 1 .. last : c \in 0 .. last /\ f[c - 1] \in Seq(Sessions)
    BY <1>1, <1>6
  <2>2. \A c \in 1 .. last : f[c] = Collected(f[c - 1], Corpus[c].bindings)
    BY <1>4, <1>5, <2>1
  <2> QED
    BY <1>5, <1>6, <2>2
<1>8. collected = Walked(collected)
  <2> HIDE DEF Walked
  <2> QED
    BY <1>7
<1>9. AllBindings = collected[last]
  BY DEF AllBindings
<1> HIDE DEF collected, last
<1>10. /\ collected[0] = <<>>
       /\ \A c \in 1 .. last : collected[c] = Collected(collected[c - 1], Corpus[c].bindings)
  BY <1>1, <1>6, <1>8
<1> DEFINE good == {c \in 0 .. last :
                      /\ collected[c] \in Seq(Sessions)
                      /\ \A d \in 1 .. c : ToSet(Corpus[d].bindings) \subseteq ToSet(collected[c])}
<1>11. 0 \in good
  <2>1. 0 \in 0 .. last /\ 1 .. 0 = {}
    BY <1>1
  <2> QED
    BY <1>3, <1>10, <2>1
<1>12. ASSUME NEW c \in 1 .. last, c - 1 \in good PROVE c \in good
  <2>1. \A d \in 1 .. c : d = c \/ d \in 1 .. (c - 1)
    BY <1>1
  <2>2. /\ collected[c - 1] \in Seq(Sessions)
        /\ \A d \in 1 .. (c - 1) : ToSet(Corpus[d].bindings) \subseteq ToSet(collected[c - 1])
    BY <1>12
  <2>3. /\ collected[c] \in Seq(Sessions)
        /\ ToSet(collected[c - 1]) \subseteq ToSet(collected[c])
        /\ ToSet(Corpus[c].bindings) \subseteq ToSet(collected[c])
    BY <1>2, <1>10, <2>2
  <2>4. c \in 0 .. last
    BY <1>1
  <2>5. \A d \in 1 .. c : ToSet(Corpus[d].bindings) \subseteq ToSet(collected[c])
    BY <2>1, <2>2, <2>3
  <2> QED
    BY <2>3, <2>4, <2>5
<1>13. last \in good
  <2>1. \A c \in 0 .. last : c \in good
    <3> HIDE DEF good
    <3> QED
      BY <1>1, <1>11, <1>12, Climb
  <2>2. last \in 0 .. last
    BY <1>1
  <2> HIDE DEF good
  <2> QED
    BY <2>1, <2>2
<1> QED
  BY <1>1, <1>9, <1>13

-----------------------------------------------------------------------------
(* The sessions a step rests on have been challenged. *)

\* Each report of the preflights under way says what was answered, and so far
\* the targets before this one have named the user of the binding under way;
\* past the preflights of the run, or of the case, every one of them has.
Introduced ==
  /\ pc = "start" => binding = 1 /\ turn = 1
  /\ pc = "preflight" =>
       /\ Len(preflights) = binding - 1
       /\ \A j \in DOMAIN preflights : preflights[j].passed => preflights[j].verified
       /\ \A j \in DOMAIN preflights : preflights[j].verified =>
            \A u \in Targets : \A s : s = Bindings[j] => Challenged(u, s)
       /\ \A i \in 1 .. turn - 1 : \A s : s = Bindings[binding] => Challenged(Order[i], s)
  /\ config.requireAll /\ case > 0 =>
       \A u \in Targets : \A s \in ToSet(AllBindings) : Challenged(u, s)
  /\ ~config.requireAll /\ pc \in {"validate", "exchange", "judge", "group"} =>
       \A u \in Targets : \A s \in ToSet(Corpus[case].bindings) : Challenged(u, s)

LEMMA ChallengedStays ==
  ASSUME IInv, [Next]_vars
  PROVE  \A u \in Targets : \A s : Challenged(u, s) => Challenged(u, s)'
<1>1. CASE Accept \/ RejectReply \/ ExchangeFails
  BY <1>1, ExchangeSays
<1>2. CASE ~(Accept \/ RejectReply \/ ExchangeFails)
  BY <1>2, SaidStays
<1> QED
  BY <1>1, <1>2

(* When the preflights are over and each report is of a verified user, every
   session of the bindings has been challenged. *)
LEMMA PreflightsIntroduce ==
  ASSUME IInv, Introduced, pc = "preflight", binding > Len(Bindings),
         Bindings \in Seq(Sessions), AllPassed \/ AllVerified
  PROVE  \A u \in Targets : \A s \in ToSet(Bindings) : Challenged(u, s)
<1> SUFFICES ASSUME NEW u \in Targets, NEW s \in ToSet(Bindings)
             PROVE  Challenged(u, s)
  OBVIOUS
<1>1. PICK j \in DOMAIN Bindings : s = Bindings[j]
  BY DEF ToSet
<1>2. /\ DOMAIN Bindings = 1 .. Len(Bindings) /\ Len(Bindings) \in Nat
      /\ preflights \in Seq(Reports) /\ binding \in Nat
  BY LenProperties DEF IInv, TypeOK, Reports
<1>3. DOMAIN preflights = 1 .. Len(preflights) /\ Len(preflights) = binding - 1
  BY <1>2, LenProperties DEF Introduced
<1>4. j \in DOMAIN preflights
  BY <1>2, <1>3
<1>5. preflights[j].verified
  BY <1>4 DEF AllPassed, AllVerified, Introduced
<1> QED
  BY <1>1, <1>4, <1>5 DEF Introduced

LEMMA ReportKeepsIntroduced ==
  ASSUME IInv, [Next]_vars, Introduced, pc = "preflight",
         UNCHANGED <<config, pc, case>>,
         NEW passed \in BOOLEAN, NEW verified \in BOOLEAN, passed => verified,
         Report(passed, verified),
         verified => \A u \in Targets : \A s : s = Bindings[binding] => Challenged(u, s)'
  PROVE  Introduced'
<1>1. \A u \in Targets : \A s : Challenged(u, s) => Challenged(u, s)'
  BY ChallengedStays
<1>2. /\ preflights \in Seq(Reports) /\ [passed |-> passed, verified |-> verified] \in Reports
      /\ binding \in Nat /\ Len(preflights) = binding - 1
  BY DEF IInv, TypeOK, Reports, Introduced
<1>3. /\ preflights' = Append(preflights, [passed |-> passed, verified |-> verified])
      /\ binding' = binding + 1 /\ turn' = 1
  BY DEF Report
<1>4. /\ DOMAIN preflights' = 1 .. binding /\ Len(preflights') = binding
      /\ DOMAIN preflights = 1 .. binding - 1
      /\ preflights'[binding] = [passed |-> passed, verified |-> verified]
      /\ \A j \in 1 .. binding - 1 : preflights'[j] = preflights[j]
  BY <1>2, <1>3, AppendKeeps
<1>5. \A j \in DOMAIN preflights' : j = binding \/ j \in DOMAIN preflights
  BY <1>2, <1>4
<1>6. Bindings' = Bindings
  BY DEF Bindings, This
<1>7. \A j \in DOMAIN preflights' : preflights'[j].passed => preflights'[j].verified
  BY <1>4, <1>5 DEF Introduced
<1>8. ASSUME NEW j \in DOMAIN preflights', preflights'[j].verified,
             NEW u \in Targets, NEW s, s = Bindings[j]
      PROVE  Challenged(u, s)'
  <2>1. CASE j = binding
    BY <1>4, <1>8, <2>1
  <2>2. CASE j \in DOMAIN preflights
    BY <1>1, <1>4, <1>8, <2>2 DEF Introduced
  <2> QED
    BY <1>5, <2>1, <2>2
<1>9. \A i \in 1 .. turn' - 1 : FALSE
  BY <1>3
<1>10. config.requireAll /\ case > 0 =>
         \A u \in Targets : \A s \in ToSet(AllBindings) : Challenged(u, s)'
  BY <1>1 DEF Introduced
<1>11. Len(preflights') = binding' - 1
  BY <1>2, <1>3, <1>4
<1> QED
  BY <1>6, <1>7, <1>8, <1>9, <1>10, <1>11 DEF Introduced
LEMMA ChallengeKeepsIntroduced ==
  ASSUME IInv, [Next]_vars, Introduced, ChallengeAnswered \/ ChallengeFails
  PROVE  Introduced'
<1>0. pc = "preflight" /\ UNCHANGED <<config, pc, case>> /\ Shape /\ Order[turn] \in Targets
  BY OrderType DEF ChallengeAnswered, ChallengeFails, IInv, Shape
<1>1. CASE ChallengeFails
  <2>1. Report(FALSE, FALSE)
    BY <1>1 DEF ChallengeFails
  <2> QED
    BY <1>0, <2>1, ReportKeepsIntroduced
<1>2. CASE ChallengeAnswered
  <2>1. PICK session, reply :
          /\ session = Bindings[binding] /\ reply # None
          /\ Speaks(Order[turn], 0, session, "answered", reply)
          /\ IF turn < Len(Order)
               THEN turn' = turn + 1 /\ UNCHANGED <<preflights, binding>>
               ELSE Report(Both => canonical[Order[1]] = reply, TRUE)
    <3>1. PICK body \in Bodies :
            /\ CallAnswers(Order[turn], 0, Bindings[binding], [status |-> 200, body |-> body])
            /\ IF turn < Len(Order)
                 THEN turn' = turn + 1 /\ UNCHANGED <<preflights, binding>>
                 ELSE Report(Both => canonical[Order[1]] = [status |-> 200, body |-> body], TRUE)
      BY <1>2 DEF ChallengeAnswered
    <3>2. [status |-> 200, body |-> body] # None
      BY DEF None
    <3>3. Speaks(Order[turn], 0, Bindings[binding], "answered", [status |-> 200, body |-> body])
      BY <3>1 DEF CallAnswers, Speaks
    <3> QED
      BY <3>1, <3>2, <3>3
  <2>3. \A u \in Targets : \A s : Challenged(u, s) => Challenged(u, s)'
    BY ChallengedStays
  <2>4. turn \in 1 .. Len(Order) /\ Len(Order) \in {1, 2}
    BY <1>0, OrderType DEF Shape
  <2>5. ASSUME NEW i \in 1 .. turn
        PROVE  Challenged(Order[i], session)'
    <3>1. CASE i = turn
      <4>1. \A k : k = turn => Challenged(Order[k], session)'
        BY <1>0, <2>1, CallSays
      <4> QED
        BY <3>1, <4>1
    <3>2. CASE i \in 1 .. turn - 1
      <4>1. Order[i] \in Targets
        BY <2>4, <3>2, OrderType
      <4> QED
        BY <1>0, <2>1, <2>3, <3>2, <4>1 DEF Introduced
    <3> QED
      BY <2>4, <3>1, <3>2
  <2>6. CASE turn < Len(Order)
    <3>1. turn' = turn + 1 /\ UNCHANGED <<preflights, binding>>
      BY <2>1, <2>6
    <3>2. Bindings' = Bindings
      BY <1>0 DEF Bindings, This
    <3>3. \A i \in 1 .. turn' - 1 : \A s : s = Bindings'[binding'] => Challenged(Order[i], s)'
      BY <2>1, <2>4, <2>5, <3>1, <3>2
    <3> QED
      BY <1>0, <2>3, <3>1, <3>2, <3>3 DEF Introduced
  <2>7. CASE ~(turn < Len(Order))
    <3>1. \A u \in Targets : \E i \in 1 .. turn : Order[i] = u
      BY <2>4, <2>7, EveryTargetHasATurn
    <3>2. \A u \in Targets : \A s : s = Bindings[binding] => Challenged(u, s)'
      BY <2>1, <2>5, <3>1
    <3>3. PICK passed \in BOOLEAN : passed = (Both => canonical[Order[1]] = reply)
      OBVIOUS
    <3>4. Report(passed, TRUE)
      BY <2>1, <2>7, <3>3
    <3> QED
      BY <1>0, <3>2, <3>4, ReportKeepsIntroduced
  <2> QED
    BY <2>6, <2>7
<1> QED
  BY <1>1, <1>2

LEMMA NextKeepsIntroduced ==
  ASSUME IInv, Introduced, [Next]_vars
  PROVE  Introduced'
<1> USE DEF controlVars, targetVars
<1>0. /\ \A u \in Targets : \A s : Challenged(u, s) => Challenged(u, s)'
      /\ case \in Nat
      /\ case = 0 => pc \in {"start", "preflight", "done"}
      /\ config.requireAll \in BOOLEAN
  BY ChallengedStays, CorpusType DEF IInv, TypeOK, Pace, Config
<1>1. CASE ChallengeAnswered \/ ChallengeFails
  BY <1>1, ChallengeKeepsIntroduced
<1>2. CASE StartRun
  <2>1. preflights = <<>> /\ Len(preflights) = 0 /\ DOMAIN preflights = {}
    BY <1>2 DEF StartRun, IInv, Pace
  <2> QED
    BY <1>0, <1>2, <2>1 DEF StartRun, Introduced
<1>3. CASE StartCase
  <2>1. case > 0
    BY <1>0, <1>3 DEF StartCase
  <2>2. Len(<<>>) = 0 /\ DOMAIN <<>> = {}
    OBVIOUS
  <2>3. CASE config.requireAll
    BY <1>0, <1>3, <2>1, <2>3 DEF StartCase, Introduced
  <2>4. CASE ~config.requireAll
    BY <1>0, <1>3, <2>2, <2>4 DEF StartCase, Introduced
  <2> QED
    BY <2>3, <2>4
<1>4. CASE EndRunPreflights
  <2>1. /\ pc = "preflight" /\ case = 0 /\ binding > Len(Bindings) /\ config' = config
        /\ \/ pc' = "prepare" /\ (AllPassed \/ AllVerified)
           \/ pc' = "done" /\ case' = case
    BY <1>4 DEF EndRunPreflights
  <2>2. Bindings = AllBindings
    BY <2>1 DEF Bindings
  <2>3. CASE pc' = "done" /\ case' = case
    BY <2>1, <2>3 DEF Introduced
  <2>4. CASE pc' = "prepare" /\ (AllPassed \/ AllVerified)
    <3>1. \A u \in Targets : \A s \in ToSet(AllBindings) : Challenged(u, s)
      BY <2>1, <2>2, <2>4, PreflightsIntroduce, BindingsCollected
    <3> QED
      BY <1>0, <2>1, <2>4, <3>1 DEF Introduced
  <2> QED
    BY <2>1, <2>3, <2>4
<1>5. CASE EndCasePreflights
  <2>1. pc = "preflight" /\ case > 0 /\ binding > Len(Bindings) /\ config' = config
    BY <1>5 DEF EndCasePreflights
  <2>2. ~config.requireAll /\ case \in Cases
    BY <2>1, CorpusType DEF IInv, Pace, TypeOK
  <2>3. Bindings = Corpus[case].bindings /\ Bindings \in Seq(Sessions)
    BY <1>0, <2>1, <2>2, CorpusType DEF Bindings, This, Transcript
  <2>4. CASE AllPassed
    <3>1. pc' = "validate" /\ case' = case
      BY <1>5, <2>4 DEF EndCasePreflights
    <3>2. \A u \in Targets : \A s \in ToSet(Corpus[case].bindings) : Challenged(u, s)
      BY <2>1, <2>3, <2>4, PreflightsIntroduce
    <3> QED
      BY <1>0, <2>1, <2>2, <3>1, <3>2 DEF Introduced
  <2>5. CASE ~AllPassed
    BY <1>5, <2>1, <2>2, <2>5 DEF EndCasePreflights, EndCase, Introduced
  <2> QED
    BY <2>4, <2>5
<1>6. CASE ~(ChallengeAnswered \/ ChallengeFails \/ StartRun \/ StartCase
               \/ EndRunPreflights \/ EndCasePreflights)
  <2>1. /\ config' = config
        /\ \/ UNCHANGED <<pc, case, binding, turn, preflights>>
           \/ /\ pc' \notin {"start", "preflight"} /\ (case' = case \/ case > 0)
              /\ pc' \in {"validate", "exchange", "judge", "group"} =>
                   /\ pc \in {"validate", "exchange", "judge", "group"}
                   /\ case' = case
    BY <1>0, <1>6
       DEF Next, Run, vars, RejectRun, Prepare, PrepareRaises, SkipCase, Validate,
           ValidateFails, Accept, RejectReply, ExchangeFails, NextTurn, PassStep, FailStep,
           PassGroup, FailGroup, Summarise, ArriveLate, EndCase
  <2>2. CASE UNCHANGED <<pc, case, binding, turn, preflights>>
    <3>1. Bindings' = Bindings
      BY <2>2 DEF Bindings, This
    <3>2. \A i \in 1 .. turn - 1 : Order[i] \in Targets
      BY OrderType DEF IInv, Shape
    <3> QED
      BY <1>0, <2>1, <2>2, <3>1, <3>2 DEF Introduced
  <2>3. CASE pc' \notin {"start", "preflight"}
    BY <1>0, <2>1, <2>3 DEF Introduced
  <2> QED
    BY <2>1, <2>2, <2>3
<1> QED
  BY <1>1, <1>2, <1>3, <1>4, <1>5, <1>6
\* A call of before is there still, and says what it said.
StillThere(u, j) ==
  /\ j \in DOMAIN log'[u]
  /\ log'[u][j].case = log[u][j].case /\ log'[u][j].step = log[u][j].step
  /\ log'[u][j].session = log[u][j].session
  /\ log'[u][j].outcome = log[u][j].outcome /\ log'[u][j].reply = log[u][j].reply

LEMMA IdentityStays ==
  ASSUME IdentityBeforeSteps,
         \A u \in Targets : \A j \in DOMAIN log[u] : StillThere(u, j),
         \A u \in Targets : \A j \in DOMAIN log'[u] : log'[u][j].step > 0 => j \in DOMAIN log[u]
  PROVE  IdentityBeforeSteps'
<1>1. ASSUME NEW v \in Targets, NEW i \in DOMAIN log'[v], log'[v][i].step > 0,
             NEW u \in Targets, NEW s \in ToSet(Corpus[log'[v][i].case].bindings)
      PROVE  \E j \in DOMAIN log'[u] :
               /\ log'[u][j].step = 0 /\ log'[u][j].session = s /\ Verified(log'[u][j])
               /\ u = v => j < i
  <2>1. /\ i \in DOMAIN log[v] /\ log[v][i].step > 0
        /\ s \in ToSet(Corpus[log[v][i].case].bindings)
    BY <1>1 DEF StillThere
  <2>2. PICK j \in DOMAIN log[u] :
          /\ log[u][j].step = 0 /\ log[u][j].session = s /\ Verified(log[u][j])
          /\ u = v => j < i
    BY <2>1 DEF IdentityBeforeSteps
  <2>3. StillThere(u, j)
    OBVIOUS
  <2> QED
    BY <2>2, <2>3 DEF StillThere, Verified
<1> QED
  BY <1>1 DEF IdentityBeforeSteps, Verified

LEMMA NextKeepsIdentity ==
  ASSUME IInv, Introduced, IdentityBeforeSteps, [Next]_vars
  PROVE  IdentityBeforeSteps'
<1> USE DEF controlVars, targetVars
<1>0. Shape /\ Order[turn] \in Targets
  BY OrderType DEF IInv, Shape
<1>1. CASE Accept \/ RejectReply \/ ExchangeFails
  <2>0. pc = "exchange" /\ case \in Cases /\ case > 0
    BY <1>1, CaseUnderWay, CorpusType DEF Accept, RejectReply, ExchangeFails
  <2>9. PICK t \in Targets : t = Order[turn]
    BY <1>0
  <2>1. PICK session, outcome, reply : Speaks(t, step, session, outcome, reply)
    BY <1>1, <2>9 DEF Accept, RejectReply, ExchangeFails, CallAnswers, CallFails, Speaks
  <2>2. /\ \A u \in Targets \ {t} : log'[u] = log[u]
        /\ \A u \in Targets : Len(log[u]) \in Nat /\ DOMAIN log[u] = 1 .. Len(log[u])
        /\ DOMAIN log'[t] = 1 .. Len(log[t]) + 1
        /\ \A i \in 1 .. Len(log[t]) : log'[t][i] = log[t][i]
        /\ log'[t][Len(log[t]) + 1].case = case
    BY <1>0, <2>1, CallAdds DEF Speaks
  <2>3. \A u \in Targets : \A j \in DOMAIN log[u] : j \in DOMAIN log'[u] /\ log'[u][j] = log[u][j]
    BY <2>2
  <2>4. \A u \in Targets : \A s \in ToSet(Corpus[case].bindings) : Challenged(u, s)
    <3>1. CASE config.requireAll
      BY <2>0, <3>1, BindingsCollected DEF Introduced
    <3>2. CASE ~config.requireAll
      BY <2>0, <3>2 DEF Introduced
    <3> QED
      BY <3>1, <3>2
  <2>5. ASSUME NEW v \in Targets, NEW i \in DOMAIN log'[v], log'[v][i].step > 0,
               NEW u \in Targets, NEW s \in ToSet(Corpus[log'[v][i].case].bindings)
        PROVE  \E j \in DOMAIN log'[u] :
                 /\ log'[u][j].step = 0 /\ log'[u][j].session = s /\ Verified(log'[u][j])
                 /\ u = v => j < i
    <3>1. CASE i \in DOMAIN log[v]
      <4>1. PICK j \in DOMAIN log[u] :
              /\ log[u][j].step = 0 /\ log[u][j].session = s /\ Verified(log[u][j])
              /\ u = v => j < i
        BY <2>3, <2>5, <3>1 DEF IdentityBeforeSteps
      <4> QED
        BY <2>3, <4>1
    <3>2. CASE i \notin DOMAIN log[v]
      <4>1. v = t /\ i = Len(log[t]) + 1
        BY <2>2, <2>5, <3>2
      <4>2. s \in ToSet(Corpus[case].bindings)
        BY <2>2, <2>5, <4>1
      <4>3. PICK j \in DOMAIN log[u] :
              log[u][j].step = 0 /\ log[u][j].session = s /\ Verified(log[u][j])
        BY <2>4, <4>2 DEF Challenged
      <4> QED
        BY <2>2, <2>3, <4>1, <4>3
    <3> QED
      BY <3>1, <3>2
  <2> QED
    BY <2>5 DEF IdentityBeforeSteps, Verified
<1>2. CASE ChallengeAnswered \/ ChallengeFails
  <2>9. PICK t \in Targets : t = Order[turn]
    BY <1>0
  <2>1. PICK session, outcome, reply : Speaks(t, 0, session, outcome, reply)
    BY <1>2, <2>9 DEF ChallengeAnswered, ChallengeFails, CallAnswers, CallFails, Speaks
  <2>2. /\ \A u \in Targets \ {t} : log'[u] = log[u]
        /\ \A u \in Targets : Len(log[u]) \in Nat /\ DOMAIN log[u] = 1 .. Len(log[u])
        /\ DOMAIN log'[t] = 1 .. Len(log[t]) + 1
        /\ \A i \in 1 .. Len(log[t]) : log'[t][i] = log[t][i]
        /\ log'[t][Len(log[t]) + 1].step = 0
    BY <1>0, <2>1, CallAdds DEF Speaks
  <2>3. \A u \in Targets : \A j \in DOMAIN log[u] : j \in DOMAIN log'[u] /\ log'[u][j] = log[u][j]
    BY <2>2
  <2>4. ASSUME NEW v \in Targets, NEW i \in DOMAIN log'[v], log'[v][i].step > 0
        PROVE  i \in DOMAIN log[v]
    BY <2>2, <2>3, <2>4
  <2> QED
    BY <2>3, <2>4, IdentityStays DEF StillThere
<1>3. CASE \E t \in Targets : ArriveLate(t)
  <2>1. \A u \in Targets :
          DOMAIN log'[u] = DOMAIN log[u] /\ \A j \in DOMAIN log[u] : StillThere(u, j)
    BY <1>0, <1>3, ArriveSays DEF StillThere
  <2> QED
    BY <2>1, IdentityStays
<1>4. CASE log' = log
  BY <1>4, IdentityStays DEF StillThere
<1> QED
  BY <1>1, <1>2, <1>3, <1>4
     DEF Next, Run, vars, RejectRun, StartRun, EndRunPreflights, Prepare, PrepareRaises,
         SkipCase, StartCase, EndCasePreflights, Validate, ValidateFails, PassStep, FailStep,
         PassGroup, FailGroup, Summarise

(* The inductive invariant of the identities. *)
IdentityInv == IInv /\ Introduced /\ IdentityBeforeSteps

LEMMA InitIdentityInv == Init => IdentityInv
<1> SUFFICES ASSUME Init PROVE IdentityInv
  OBVIOUS
<1>1. IInv
  BY InitIInv
<1>2. Introduced
  BY DEF Init, Introduced
<1>3. IdentityBeforeSteps
  BY DEF Init, IdentityBeforeSteps
<1> QED
  BY <1>1, <1>2, <1>3 DEF IdentityInv

LEMMA NextKeepsIdentityInv == IdentityInv /\ [Next]_vars => IdentityInv'
<1> SUFFICES ASSUME IdentityInv, [Next]_vars PROVE IdentityInv'
  OBVIOUS
<1>1. IInv /\ Introduced /\ IdentityBeforeSteps
  BY DEF IdentityInv
<1> QED
  BY <1>1, NextKeepsIInv, NextKeepsIntroduced, NextKeepsIdentity DEF IdentityInv

(* No step of a case is sent before both targets have named the configured user
   of every session the case is bound to. *)
THEOREM IdentitiesComeFirst == Spec => []IdentityBeforeSteps
<1>1. IdentityInv => IdentityBeforeSteps
  BY DEF IdentityInv
<1> QED
  BY <1>1, InitIdentityInv, NextKeepsIdentityInv, PTL DEF Spec

-----------------------------------------------------------------------------
(***************************************************************************)
(* The steps both targets are put: the same ones, in the order of the      *)
(* corpus, and all of them, each answered acceptably, when a complete      *)
(* proof passes.                                                           *)
(***************************************************************************)

\* A call of a step is of a step of the corpus.
Placed ==
  \A t \in Targets : \A i \in StepCalls(t) :
    log[t][i].case \in Cases /\ log[t][i].step \in DOMAIN Corpus[log[t][i].case].steps

InOrder == \A t \in Targets : InCorpusOrder(t)

\* Target t was asked step k of case c.
Put(t, c, k) == \E r : Said(t, c, k, r)

\* What one target was asked the other was too, except the step being exchanged,
\* asked of those whose turn is over.
Together ==
  /\ \A c \in Cases, k \in Nat \ {0} : ~(pc = "exchange" /\ c = case /\ k = step) =>
       \A t, u \in Targets : Put(t, c, k) => Put(u, c, k)
  /\ pc = "exchange" => \A i \in 1 .. Len(Order) : Put(Order[i], case, step) <=> i < turn

\* Every call of a step was answered acceptably, or its case failed or is about to.
Accounted ==
  \A t \in Targets : \A i \in StepCalls(t) :
    \/ Verified(log[t][i])
    \/ log[t][i].case \in DOMAIN cases /\ cases[log[t][i].case] = "failed"
    \/ log[t][i].case = case /\ pc \in {"exchange", "judge"} /\ t \in errors

\* A complete proof is made of two targets, and passes with no case skipped.
Complete ==
  config.requireAll =>
    /\ pc \notin {"start", "done"} \/ exit = "passed" => Both
    /\ exit = "passed" => \A c \in DOMAIN cases : cases[c] # "skipped"

(* An exchange makes one call, of the step under way to the target whose turn it
   is, and its reply is acceptable unless the target is counted out. *)
LEMMA ExchangeCalls ==
  ASSUME IInv, StepPlace, Accept \/ RejectReply \/ ExchangeFails
  PROVE  /\ pc = "exchange" /\ case \in Cases /\ step \in DOMAIN Corpus[case].steps
         /\ Order[turn] \in Targets
         /\ \E outcome, reply : \E arrived \in BOOLEAN :
              /\ Call(Order[turn], step, ThisStep.session, outcome, arrived, reply)
              /\ Order[turn] \notin errors' => outcome = "answered" /\ reply # None
<1>1. pc = "exchange" /\ Order[turn] \in Targets
  BY OrderType DEF Accept, RejectReply, ExchangeFails, IInv, Shape
<1>2. case \in Cases /\ step \in DOMAIN Corpus[case].steps
  BY <1>1, StepUnderWay
<1>3. CASE Accept
  <2>1. PICK status \in Statuses, body \in Bodies :
          CallAnswers(Order[turn], step, ThisStep.session, [status |-> status, body |-> body])
    BY <1>3 DEF Accept
  <2> DEFINE said == [status |-> status, body |-> body]
  <2>2. status # 0
    BY StatusesAssumption
  <2>3. said # None
    BY <2>2 DEF None
  <2>4. Call(Order[turn], step, ThisStep.session, "answered", TRUE, said)
    BY <2>1 DEF CallAnswers
  <2> HIDE DEF said
  <2>5. \E outcome, reply : \E arrived \in BOOLEAN :
          /\ Call(Order[turn], step, ThisStep.session, outcome, arrived, reply)
          /\ outcome = "answered" /\ reply # None
    BY <2>3, <2>4, Zenon
  <2>6. PICK outcome, reply : \E arrived \in BOOLEAN :
          /\ Call(Order[turn], step, ThisStep.session, outcome, arrived, reply)
          /\ outcome = "answered" /\ reply # None
    BY <2>5
  <2> QED
    BY <1>1, <1>2, <2>6
<1>4. CASE RejectReply \/ ExchangeFails
  <2>1. Order[turn] \in errors'
    BY <1>4 DEF RejectReply, ExchangeFails
  <2>2. \E outcome, reply : \E arrived \in BOOLEAN :
          Call(Order[turn], step, ThisStep.session, outcome, arrived, reply)
    BY <1>4, Zenon DEF RejectReply, ExchangeFails, CallFails, CallAnswers
  <2> QED
    BY <1>1, <1>2, <2>1, <2>2
<1> QED
  BY <1>3, <1>4

\* What is known of a call for good.
SameCall(a, b) ==
  a.case = b.case /\ a.step = b.step /\ a.outcome = b.outcome /\ a.reply = b.reply

(* An exchange adds one call of a step. *)
LEMMA ExchangeAddsCall ==
  ASSUME IInv, StepPlace, Accept \/ RejectReply \/ ExchangeFails,
         NEW t \in Targets, NEW i \in StepCalls(t)'
  PROVE  \/ /\ i \in StepCalls(t) /\ log'[t][i] = log[t][i]
            /\ i \in 1 .. Len(log[t])
         \/ /\ t = Order[turn] /\ i = Len(log[t]) + 1
            /\ log'[t][i].case = case /\ log'[t][i].step = step
            /\ t \in errors' \/ Verified(log'[t][i])
<1>1. PICK outcome, reply : \E arrived \in BOOLEAN :
        /\ Call(Order[turn], step, ThisStep.session, outcome, arrived, reply)
        /\ Order[turn] \notin errors' => outcome = "answered" /\ reply # None
  BY ExchangeCalls
<1>2. Order[turn] \in Targets /\ Shape
  BY ExchangeCalls DEF IInv
<1> DEFINE o == Order[turn]
<1>3. /\ \A u \in Targets \ {o} : log'[u] = log[u]
      /\ \A u \in Targets : Len(log[u]) \in Nat /\ DOMAIN log[u] = 1 .. Len(log[u])
      /\ DOMAIN log'[o] = 1 .. Len(log[o]) + 1
      /\ \A j \in 1 .. Len(log[o]) : log'[o][j] = log[o][j]
      /\ LET new == log'[o][Len(log[o]) + 1]
         IN  /\ new.case = case /\ new.step = step
             /\ new.outcome = outcome /\ new.reply = reply
  BY <1>1, <1>2, CallAdds
<1>4. i \in DOMAIN log'[t] /\ log'[t][i].step > 0
  BY DEF StepCalls
<1>5. CASE t # o
  BY <1>3, <1>4, <1>5 DEF StepCalls
<1>6. CASE t = o /\ i = Len(log[o]) + 1
  BY <1>1, <1>3, <1>6 DEF Verified
<1>7. CASE t = o /\ i \in 1 .. Len(log[o])
  BY <1>3, <1>4, <1>7 DEF StepCalls
<1> QED
  BY <1>3, <1>4, <1>5, <1>6, <1>7

(* Nothing else adds a call of a step, nor changes what is known of one. *)
LEMMA StepCallsStay ==
  ASSUME IInv, [Next]_vars, ~(Accept \/ RejectReply \/ ExchangeFails), NEW t \in Targets
  PROVE  /\ StepCalls(t)' = StepCalls(t)
         /\ \A i \in StepCalls(t) : i \in DOMAIN log[t] /\ SameCall(log'[t][i], log[t][i])
<1> USE DEF controlVars, targetVars
<1>0. Shape /\ Order[turn] \in Targets
  BY OrderType DEF IInv, Shape
<1>1. CASE ChallengeAnswered \/ ChallengeFails
  <2>1. PICK session, outcome, reply : \E arrived \in BOOLEAN :
          Call(Order[turn], 0, session, outcome, arrived, reply)
    BY <1>1, Zenon DEF ChallengeAnswered, ChallengeFails, CallAnswers, CallFails
  <2> DEFINE o == Order[turn]
  <2>2. /\ \A u \in Targets \ {o} : log'[u] = log[u]
        /\ \A u \in Targets : Len(log[u]) \in Nat /\ DOMAIN log[u] = 1 .. Len(log[u])
        /\ DOMAIN log'[o] = 1 .. Len(log[o]) + 1
        /\ \A j \in 1 .. Len(log[o]) : log'[o][j] = log[o][j]
        /\ log'[o][Len(log[o]) + 1].step = 0
    BY <1>0, <2>1, CallAdds
  <2>3. CASE t # o
    BY <2>2, <2>3 DEF StepCalls, SameCall
  <2>4. CASE t = o
    <3>1. DOMAIN log'[t] = DOMAIN log[t] \cup {Len(log[t]) + 1}
      BY <2>2, <2>4
    <3>2. \A j \in DOMAIN log[t] : log'[t][j] = log[t][j]
      BY <2>2, <2>4
    <3>3. ~(log'[t][Len(log[t]) + 1].step > 0)
      BY <2>2, <2>4
    <3>4. StepCalls(t)' = StepCalls(t)
      BY <3>1, <3>2, <3>3 DEF StepCalls
    <3> QED
      BY <3>2, <3>4 DEF StepCalls, SameCall
  <2> QED
    BY <2>3, <2>4
<1>2. CASE \E u \in Targets : ArriveLate(u)
  BY <1>0, <1>2, ArriveSays DEF StepCalls, SameCall
<1>3. CASE log' = log
  BY <1>3 DEF StepCalls, SameCall
<1> QED
  BY <1>1, <1>2, <1>3
     DEF Next, Run, vars, RejectRun, StartRun, EndRunPreflights, Prepare, PrepareRaises,
         SkipCase, StartCase, EndCasePreflights, Validate, ValidateFails, PassStep, FailStep,
         PassGroup, FailGroup, Summarise

LEMMA NextKeepsPlaced ==
  ASSUME IInv, StepPlace, Placed, [Next]_vars
  PROVE  Placed'
<1>1. CASE Accept \/ RejectReply \/ ExchangeFails
  BY <1>1, ExchangeCalls, ExchangeAddsCall DEF Placed
<1>2. CASE ~(Accept \/ RejectReply \/ ExchangeFails)
  BY <1>2, StepCallsStay DEF Placed, SameCall
<1> QED
  BY <1>1, <1>2

LEMMA NextKeepsInOrder ==
  ASSUME IInv, StepPlace, Past, Placed, InOrder, [Next]_vars
  PROVE  InOrder'
<1>1. CASE Accept \/ RejectReply \/ ExchangeFails
  <2>1. /\ pc = "exchange" /\ turn \in 1 .. Len(Order) /\ Len(Order) \in {1, 2}
        /\ case \in Nat /\ step \in Nat
    BY <1>1, ExchangeCalls, OrderType, CorpusType DEF IInv, Shape, TypeOK
  <2>2. ASSUME NEW i \in StepCalls(Order[turn])
        PROVE  \/ log[Order[turn]][i].case < case
               \/ log[Order[turn]][i].case = case /\ log[Order[turn]][i].step < step
    <3> DEFINE call == log[Order[turn]][i]
    <3>1. /\ Order[turn] \in Targets /\ call.case \in Cases /\ call.case \in Nat
          /\ call.step \in Nat \ {0} /\ i \in DOMAIN log[Order[turn]]
      BY <1>1, ExchangeCalls, StepType, CorpusType DEF Placed, StepCalls
    <3>2. Said(Order[turn], call.case, call.step, call.reply)
      BY <3>1 DEF Said
    <3>3. /\ call.case <= case
          /\ call.case = case => call.step < step \/ \E j \in 1 .. turn - 1 : Order[j] = Order[turn]
      BY <2>1, <3>1, <3>2 DEF Past
    <3>4. \A j \in 1 .. turn - 1 : Order[j] # Order[turn]
      BY <2>1, TurnsDiffer
    <3> QED
      BY <2>1, <3>1, <3>3, <3>4
  <2>3. ASSUME NEW t \in Targets, NEW i \in StepCalls(t)', NEW j \in StepCalls(t)', i < j
        PROVE  \/ log'[t][i].case < log'[t][j].case
               \/ log'[t][i].case = log'[t][j].case /\ log'[t][i].step < log'[t][j].step
    <3>1. \/ i \in StepCalls(t) /\ log'[t][i] = log[t][i] /\ i \in 1 .. Len(log[t])
          \/ t = Order[turn] /\ i = Len(log[t]) + 1
      BY <1>1, ExchangeAddsCall
    <3>2. \/ j \in StepCalls(t) /\ log'[t][j] = log[t][j] /\ j \in 1 .. Len(log[t])
          \/ t = Order[turn] /\ log'[t][j].case = case /\ log'[t][j].step = step
             /\ j = Len(log[t]) + 1
      BY <1>1, ExchangeAddsCall
    <3>3. Len(log[t]) \in Nat
      BY LenProperties DEF IInv, Shape
    <3>4. i \in StepCalls(t) /\ log'[t][i] = log[t][i]
      BY <2>3, <3>1, <3>2, <3>3
    <3>5. CASE j \in StepCalls(t) /\ log'[t][j] = log[t][j]
      BY <2>3, <3>4, <3>5 DEF InOrder, InCorpusOrder
    <3>6. CASE t = Order[turn] /\ log'[t][j].case = case /\ log'[t][j].step = step
      BY <2>2, <3>4, <3>6
    <3> QED
      BY <3>2, <3>5, <3>6
  <2> QED
    BY <2>3 DEF InOrder, InCorpusOrder
<1>2. CASE ~(Accept \/ RejectReply \/ ExchangeFails)
  BY <1>2, StepCallsStay DEF InOrder, InCorpusOrder, SameCall
<1> QED
  BY <1>1, <1>2

(* Who is asked what, and whose turn comes with the exchange of a step. *)
LEMMA WhatIsPut ==
  ASSUME IInv, StepPlace, [Next]_vars
  PROVE  \/ /\ pc = "exchange" /\ UNCHANGED <<case, step>>
            /\ \/ pc' = "exchange" /\ turn' = turn + 1
               \/ pc' = "judge" /\ turn = Len(Order)
            /\ \A t \in Targets : \A c, k :
                 Put(t, c, k)' <=> Put(t, c, k) \/ (t = Order[turn] /\ c = case /\ k = step)
         \/ /\ \A t \in Targets : \A c : \A k \in Nat \ {0} : Put(t, c, k)' <=> Put(t, c, k)
            /\ \/ pc = "validate" /\ pc' = "exchange" /\ turn' = 1 /\ UNCHANGED <<case, step>>
               \/ pc # "exchange" /\ pc' # "exchange"
               \/ UNCHANGED <<pc, case, step, turn>>
<1> USE DEF controlVars, targetVars
<1>1. CASE Accept \/ RejectReply \/ ExchangeFails
  <2>1. /\ pc = "exchange" /\ UNCHANGED <<case, step>>
        /\ \/ pc' = "exchange" /\ turn' = turn + 1
           \/ pc' = "judge" /\ turn = Len(Order)
    BY <1>1, ExchangeEffect
  <2>2. PICK reply : \A t \in Targets : \A c, k, r :
          Said(t, c, k, r)' <=>
            Said(t, c, k, r) \/ (t = Order[turn] /\ c = case /\ k = step /\ r = reply)
    BY <1>1, ExchangeSays
  <2>3. \A t \in Targets : \A c, k :
          Put(t, c, k)' <=> Put(t, c, k) \/ (t = Order[turn] /\ c = case /\ k = step)
    <3> TAKE t \in Targets
    <3> TAKE c, k
    <3>1. \A r : Said(t, c, k, r)' <=>
            Said(t, c, k, r) \/ (t = Order[turn] /\ c = case /\ k = step /\ r = reply)
      BY <2>2
    <3> QED
      BY <3>1 DEF Put
  <2> QED
    BY <2>1, <2>3
<1>2. CASE ~(Accept \/ RejectReply \/ ExchangeFails)
  <2>1. \A t \in Targets : \A c : \A k \in Nat \ {0} : Put(t, c, k)' <=> Put(t, c, k)
    BY <1>2, SaidStays, Zenon DEF Put
  <2>2. \/ pc = "validate" /\ pc' = "exchange" /\ turn' = 1 /\ UNCHANGED <<case, step>>
        \/ pc # "exchange" /\ pc' # "exchange"
        \/ UNCHANGED <<pc, case, step, turn>>
    BY <1>2
       DEF Next, Run, vars, RejectRun, StartRun, ChallengeAnswered, ChallengeFails,
           EndRunPreflights, Prepare, PrepareRaises, SkipCase, StartCase, EndCasePreflights,
           Validate, ValidateFails, PassStep, FailStep, PassGroup, FailGroup, EndCase,
           Summarise, ArriveLate
  <2> QED
    BY <2>1, <2>2
<1> QED
  BY <1>1, <1>2

LEMMA NextKeepsTogether ==
  ASSUME IInv, StepPlace, Past, Together, [Next]_vars
  PROVE  Together'
<1>0. /\ turn \in 1 .. Len(Order) /\ Len(Order) \in {1, 2}
      /\ \A t \in Targets : \E i \in 1 .. Len(Order) : Order[i] = t
      /\ \A i \in 1 .. Len(Order) : Order[i] \in Targets
      /\ \A i, j \in 1 .. Len(Order) : Order[i] = Order[j] => i = j
  BY OrderType, EveryTargetHasATurn, TurnsDiffer DEF IInv, Shape
<1>1. CASE /\ pc = "exchange" /\ UNCHANGED <<case, step>>
           /\ \/ pc' = "exchange" /\ turn' = turn + 1
              \/ pc' = "judge" /\ turn = Len(Order)
           /\ \A t \in Targets : \A c, k :
                Put(t, c, k)' <=> Put(t, c, k) \/ (t = Order[turn] /\ c = case /\ k = step)
  <2>1. \A i \in 1 .. Len(Order) : Put(Order[i], case, step)' <=> i < turn + 1
    BY <1>0, <1>1 DEF Together
  <2>2. ASSUME NEW c \in Cases, NEW k \in Nat \ {0}, ~(c = case /\ k = step),
               NEW t \in Targets, NEW u \in Targets, Put(t, c, k)'
        PROVE  Put(u, c, k)'
    BY <1>1, <2>2 DEF Together
  <2>3. ASSUME pc' = "judge", NEW u \in Targets
        PROVE  Put(u, case, step)'
    BY <1>0, <1>1, <2>1, <2>3
  <2>4. CASE pc' = "exchange"
    BY <1>1, <2>1, <2>2, <2>4 DEF Together
  <2>5. CASE pc' = "judge"
    BY <1>1, <2>2, <2>3, <2>5 DEF Together
  <2> QED
    BY <1>1, <2>4, <2>5
<1>2. CASE \A t \in Targets : \A c : \A k \in Nat \ {0} : Put(t, c, k)' <=> Put(t, c, k)
  <2>1. CASE pc = "validate" /\ pc' = "exchange" /\ turn' = 1 /\ UNCHANGED <<case, step>>
    <3>1. case \in Cases /\ step \in Nat \ {0}
      BY <2>1, StepUnderWay
    <3>2. \A t \in Targets : ~Put(t, case, step)
      <4> SUFFICES ASSUME NEW t \in Targets, NEW r, Said(t, case, step, r) PROVE FALSE
        BY DEF Put
      <4> QED
        BY <2>1, <3>1 DEF Past
    <3>3. \A i \in 1 .. Len(Order) : Put(Order[i], case, step)' <=> i < 1
      BY <1>0, <1>2, <2>1, <3>1, <3>2
    <3> QED
      BY <1>2, <2>1, <3>3 DEF Together
  <2>2. CASE pc # "exchange" /\ pc' # "exchange"
    BY <1>2, <2>2 DEF Together
  <2>3. CASE UNCHANGED <<pc, case, step, turn>>
    <3>1. pc = "exchange" => step \in Nat \ {0}
      BY StepUnderWay
    <3> QED
      BY <1>0, <1>2, <2>3, <3>1 DEF Together
  <2> QED
    BY <1>1, <1>2, <2>1, <2>2, <2>3, WhatIsPut
<1> QED
  BY <1>1, <1>2, WhatIsPut

LEMMA NextKeepsAccounted ==
  ASSUME IInv, StepPlace, Placed, Accounted, [Next]_vars
  PROVE  Accounted'
<1>0. cases \in Seq(Verdicts) /\ DOMAIN cases = 1 .. Len(cases) /\ Len(cases) \in Nat
  BY LenProperties DEF IInv, TypeOK, Verdicts
<1>1. CASE Accept \/ RejectReply \/ ExchangeFails
  <2>1. /\ pc = "exchange" /\ UNCHANGED <<case, cases>> /\ pc' \in {"exchange", "judge"}
        /\ errors \subseteq errors'
    BY <1>1, ExchangeEffect DEF Accept, RejectReply, ExchangeFails
  <2>2. ASSUME NEW t \in Targets, NEW i \in StepCalls(t)'
        PROVE  \/ Verified(log'[t][i])
               \/ log'[t][i].case \in DOMAIN cases /\ cases[log'[t][i].case] = "failed"
               \/ log'[t][i].case = case /\ t \in errors'
    <3>1. CASE i \in StepCalls(t) /\ log'[t][i] = log[t][i]
      BY <2>1, <3>1 DEF Accounted
    <3>2. CASE log'[t][i].case = case /\ (t \in errors' \/ Verified(log'[t][i]))
      BY <3>2
    <3> QED
      BY <1>1, <3>1, <3>2, ExchangeAddsCall
  <2> QED
    BY <2>1, <2>2 DEF Accounted, Verified
<1>2. CASE ~(Accept \/ RejectReply \/ ExchangeFails)
  <2>1. \A c \in DOMAIN cases : c \in DOMAIN cases' /\ cases'[c] = cases[c]
    <3>1. CASE cases' = cases
      BY <3>1
    <3>2. CASE cases' # cases
      BY <1>0, <3>2, VerdictAdded, AppendKeeps
    <3> QED
      BY <3>1, <3>2
  <2>2. ASSUME pc \in {"exchange", "judge"}, errors # {}
        PROVE  \/ UNCHANGED <<pc, case, errors>>
               \/ case \in DOMAIN cases' /\ cases'[case] = "failed"
    <3>1. FailStep \/ UNCHANGED <<pc, case, errors>>
      BY <1>2, <2>2
         DEF Next, Run, vars, controlVars, RejectRun, StartRun, ChallengeAnswered,
             ChallengeFails, EndRunPreflights, Prepare, PrepareRaises, SkipCase, StartCase,
             EndCasePreflights, Validate, ValidateFails, PassStep, StepPasses, PassGroup,
             FailGroup, Summarise, ArriveLate
    <3>2. CASE FailStep
      <4>1. cases' = Append(cases, "failed") /\ pc = "judge"
        BY <3>2 DEF FailStep, EndCase
      <4>2. Len(cases) = case - 1 /\ case \in Nat
        BY <4>1, CaseUnderWay, CorpusType DEF IInv, Pace
      <4> QED
        BY <1>0, <4>1, <4>2, AppendKeeps DEF Verdicts
    <3> QED
      BY <3>1, <3>2
  <2>3. ASSUME NEW t \in Targets, NEW i \in StepCalls(t)'
        PROVE  \/ Verified(log'[t][i])
               \/ log'[t][i].case \in DOMAIN cases' /\ cases'[log'[t][i].case] = "failed"
               \/ log'[t][i].case = case' /\ pc' \in {"exchange", "judge"} /\ t \in errors'
    <3>1. i \in StepCalls(t) /\ SameCall(log'[t][i], log[t][i])
      BY <1>2, StepCallsStay
    <3>2. CASE Verified(log[t][i])
      BY <3>1, <3>2 DEF Verified, SameCall
    <3>3. CASE log[t][i].case \in DOMAIN cases /\ cases[log[t][i].case] = "failed"
      BY <2>1, <3>1, <3>3 DEF SameCall
    <3>4. CASE log[t][i].case = case /\ pc \in {"exchange", "judge"} /\ t \in errors
      BY <2>2, <3>1, <3>4 DEF SameCall
    <3> QED
      BY <3>1, <3>2, <3>3, <3>4 DEF Accounted
  <2> QED
    BY <2>3 DEF Accounted, Verified
<1> QED
  BY <1>1, <1>2

LEMMA NextKeepsComplete ==
  ASSUME IInv, Complete, [Next]_vars
  PROVE  Complete'
<1>0. /\ exit = "passed" => pc = "done"
      /\ UNCHANGED config
  BY DEF Next, Run, vars, RejectRun, StartRun, ChallengeAnswered, ChallengeFails,
         EndRunPreflights, Prepare, PrepareRaises, SkipCase, StartCase, EndCasePreflights,
         Validate, ValidateFails, Accept, RejectReply, ExchangeFails, PassStep, FailStep,
         PassGroup, FailGroup, Summarise, ArriveLate, IInv, Pace
<1>1. CASE RejectRun \/ StartRun
  BY <1>0, <1>1 DEF RejectRun, StartRun, CompleteRunRejects, Complete, IInv, Pace
<1>2. CASE Summarise
  BY <1>0, <1>2 DEF Summarise, Count, Complete, Both, controlVars
<1>3. CASE ~(RejectRun \/ StartRun \/ Summarise)
  <2>1. /\ exit' = exit \/ exit' # "passed"
        /\ exit = "passed" => cases' = cases /\ exit' = exit
        /\ pc' \notin {"start", "done"} => pc \notin {"start", "done"}
    BY <1>0, <1>3
       DEF Next, Run, vars, controlVars, ChallengeAnswered, ChallengeFails,
           EndRunPreflights, Prepare, PrepareRaises, SkipCase, StartCase, EndCasePreflights,
           Validate, ValidateFails, Accept, RejectReply, ExchangeFails, PassStep, FailStep,
           PassGroup, FailGroup, ArriveLate
  <2> QED
    BY <1>0, <2>1 DEF Complete, Both
<1> QED
  BY <1>1, <1>2, <1>3

(* The inductive invariant of the steps put to the targets. *)
ProofInv == SaidInv /\ Placed /\ InOrder /\ Together /\ Accounted /\ Complete

LEMMA AlwaysProofInv == Spec => []ProofInv
<1>1. Init => ProofInv
  <2>1. SUFFICES ASSUME Init PROVE ProofInv
    OBVIOUS
  <2>2. SaidInv
    BY <2>1, InitSaidInv
  <2>3. \A t \in Targets : StepCalls(t) = {} /\ \A c, k : ~Put(t, c, k)
    BY <2>1 DEF Init, StepCalls, Put, Said
  <2>4. pc = "start" /\ exit = "running"
    BY <2>1 DEF Init
  <2> QED
    BY <2>2, <2>3, <2>4
       DEF ProofInv, Placed, InOrder, InCorpusOrder, Together, Accounted, Complete
<1>2. ProofInv /\ [Next]_vars => ProofInv'
  <2>1. SUFFICES ASSUME ProofInv, [Next]_vars PROVE ProofInv'
    OBVIOUS
  <2>2. /\ SaidInv /\ IInv /\ StepPlace /\ Past
        /\ Placed /\ InOrder /\ Together /\ Accounted /\ Complete
    BY <2>1 DEF ProofInv, SaidInv, StepInv
  <2> QED
    BY <2>1, <2>2, NextKeepsSaidInv, NextKeepsPlaced, NextKeepsInOrder, NextKeepsTogether,
       NextKeepsAccounted, NextKeepsComplete DEF ProofInv
<1> QED
  BY <1>1, <1>2, PTL DEF Spec

(* The places of the steps a target was asked. *)
LEMMA StepsAskedIs ==
  ASSUME Placed, NEW t \in Targets
  PROVE  /\ \A c \in Cases : \A k \in Nat \ {0} : Put(t, c, k) => <<c, k>> \in StepsAsked(t)
         /\ \A p \in StepsAsked(t) : \E c \in Cases : \E k \in DOMAIN Corpus[c].steps :
              p = <<c, k>> /\ Put(t, c, k)
<1>1. ASSUME NEW c \in Cases, NEW k \in Nat \ {0}, Put(t, c, k)
      PROVE  <<c, k>> \in StepsAsked(t)
  <2>1. PICK j \in DOMAIN log[t] : log[t][j].case = c /\ log[t][j].step = k
    BY <1>1 DEF Put, Said
  <2>2. j \in StepCalls(t) /\ Place(log[t][j]) = <<c, k>>
    BY <2>1 DEF StepCalls, Place
  <2> QED
    BY <2>2 DEF StepsAsked
<1>2. ASSUME NEW p \in StepsAsked(t)
      PROVE  \E c \in Cases : \E k \in DOMAIN Corpus[c].steps : p = <<c, k>> /\ Put(t, c, k)
  <2>1. PICK i \in StepCalls(t) : p = Place(log[t][i])
    BY DEF StepsAsked
  <2>2. /\ log[t][i].case \in Cases
        /\ log[t][i].step \in DOMAIN Corpus[log[t][i].case].steps
    BY DEF Placed
  <2>3. Put(t, log[t][i].case, log[t][i].step)
    BY DEF Put, Said, StepCalls
  <2> QED
    BY <2>1, <2>2, <2>3 DEF Place
<1> QED
  BY <1>1, <1>2

LEMMA StepsAskedAgree == ProofInv => SameStepsToBoth
<1> SUFFICES ASSUME ProofInv PROVE SameStepsToBoth
  OBVIOUS
<1>1. ASSUME pc # "exchange", NEW t \in Targets, NEW u \in Targets
      PROVE  StepsAsked(t) \subseteq StepsAsked(u)
  <2>1. SUFFICES ASSUME NEW p \in StepsAsked(t) PROVE p \in StepsAsked(u)
    OBVIOUS
  <2>0. PICK c \in Cases : \E k \in DOMAIN Corpus[c].steps : p = <<c, k>> /\ Put(t, c, k)
    BY StepsAskedIs DEF ProofInv
  <2>2. PICK k \in DOMAIN Corpus[c].steps : p = <<c, k>> /\ Put(t, c, k)
    BY <2>0
  <2>3. k \in Nat \ {0}
    BY StepType
  <2>4. Put(u, c, k)
    BY <1>1, <2>2, <2>3 DEF ProofInv, Together
  <2> QED
    BY <2>2, <2>3, <2>4, StepsAskedIs DEF ProofInv
<1> QED
  BY <1>1 DEF SameStepsToBoth, ProofInv, InOrder

LEMMA PassedProofAsksAll == ProofInv => PassedProofIsComplete
<1> SUFFICES ASSUME ProofInv, exit = "passed", config.requireAll, NEW t \in Targets
             PROVE  /\ Both /\ StepsAsked(t) = AllSteps /\ InCorpusOrder(t)
                    /\ \A i \in StepCalls(t) : Verified(log[t][i])
  BY OrderType DEF PassedProofIsComplete
<1>1. Both /\ InCorpusOrder(t)
  BY DEF ProofInv, Complete, InOrder
<1>2. /\ cases \in Seq(Verdicts) /\ Len(cases) = Len(Corpus) /\ pc = "done"
  BY DEF ProofInv, SaidInv, StepInv, IInv, TypeOK, Verdicts, Outcome, Pace
<1>3. \A c \in Cases : c \in DOMAIN cases /\ cases[c] = "passed"
  <2>1. \A c \in Cases : c \in DOMAIN cases /\ cases[c] \in Verdicts
    BY <1>2, LenProperties, CorpusType
  <2> QED
    BY <2>1 DEF ProofInv, SaidInv, Outcome, Complete, Verdicts
<1>4. \A c \in Cases : CaseAgrees(c)
  BY <1>1, <1>3 DEF ProofInv, SaidInv, Settled
<1>5. ASSUME NEW p \in AllSteps
      PROVE  p \in StepsAsked(t)
  <2>0. PICK c \in Cases : \E k \in DOMAIN Corpus[c].steps : p = <<c, k>>
    BY DEF AllSteps
  <2>1. PICK k \in DOMAIN Corpus[c].steps : p = <<c, k>>
    BY <2>0
  <2>2. k \in Nat \ {0} /\ Put(t, c, k)
    BY <1>4, StepType DEF CaseAgrees, Put
  <2> QED
    BY <2>1, <2>2, StepsAskedIs DEF ProofInv
<1>6. StepsAsked(t) \subseteq AllSteps
  BY StepsAskedIs DEF ProofInv, AllSteps
<1>7. ASSUME NEW i \in StepCalls(t)
      PROVE  Verified(log[t][i])
  <2>1. log[t][i].case \in Cases
    BY DEF ProofInv, Placed
  <2> QED
    BY <1>2, <1>3, <2>1 DEF ProofInv, Accounted
<1> QED
  BY <1>1, <1>5, <1>6, <1>7

(* The two targets are asked the same steps in the order of the corpus, whatever
   becomes of their replies, their captures or their clients. *)
THEOREM BothAreAskedTheSame == Spec => []SameStepsToBoth
BY AlwaysProofInv, StepsAskedAgree, PTL

(* A complete proof that passes has put every step of every transcript to both
   targets, once and in order, and each of them answered acceptably. *)
THEOREM PassedProofsAreComplete == Spec => []PassedProofIsComplete
BY AlwaysProofInv, PassedProofAsksAll, PTL
=============================================================================
