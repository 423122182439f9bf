--------------------------- MODULE TargetVariables ---------------------------
(***************************************************************************)
(* The variables of the targets: load_config merges the shared and the     *)
(* specific ones, a complete run plans every use of them, and the captures *)
(* of a case change them while its later steps read them.                  *)
(*                                                                         *)
(* Variables are dictionaries in dictionaries, and dictionaries are        *)
(* objects that two targets may share, so the model has a heap: a value is *)
(* a scalar or a reference to an object.  Two levels stand for any depth,  *)
(* and what a reply gives a capture is a scalar.                           *)
(***************************************************************************)
EXTENDS Naturals, Sequences, SequencesExt

CONSTANTS
  Targets,       \* the targets, in the order of the configuration
  Keys, Leaves,  \* the names of the two levels
  SharedItems,   \* what the shared part may have under a key
  OwnItems,      \* what a target's own part may have under a key
  Transcripts    \* the transcripts that may be selected

TargetSet == ToSet(Targets)
Paths     == {<<k>> : k \in Keys} \cup {<<k, l>> : k \in Keys, l \in Leaves}

ASSUME TargetsAssumption ==
  /\ Targets \in Seq(TargetSet) \ {<<>>}
  /\ \A i, j \in DOMAIN Targets : Targets[i] = Targets[j] => i = j
  /\ "shared" \notin TargetSet

ASSUME TranscriptsAssumption ==
  \A t \in Transcripts :
    /\ t.requires \subseteq Paths
    /\ t.steps \in Seq([uses : SUBSET Paths, expects : SUBSET Paths, captures : Seq(Paths),
                       rules : SUBSET Paths, policy : SUBSET Paths]) \ {<<>>}

VARIABLES
  pc,          \* "plan", "rejected", "validate", "exchange", "judge", "failed", "done"
  complete,    \* --require-all
  transcript,  \* the case: what it requires, and its steps
  root,        \* the variables of each target
  heap,        \* the nested objects
  step, turn,  \* the step under way and the target it is at
  loaded,      \* what each path was when the case started
  captured,    \* what each target captured in this case
  errors       \* what went wrong: a "request" or a "lookup" misses a variable, a
               \* "capture" collides, or it is the "reply"

vars == <<pc, complete, transcript, root, heap, step, turn, loaded, captured, errors>>

-----------------------------------------------------------------------------
(* Values, and a memory: the variables, the nested objects, what was captured *)
(* into them, and whether a capture collided.                                 *)

Value(source, owner, path) ==
  [object |-> FALSE, source |-> source, owner |-> owner, path |-> path]
Object(owner, key) == [object |-> TRUE, source |-> "config", owner |-> owner, path |-> <<key>>]
Absent             == Value("none", "nobody", <<>>)

Owners  == TargetSet \cup {"shared"}
Objects == {Object(o, k) : o \in Owners, k \in Keys}
Empty   == [l \in Leaves |-> Absent]
Now     == [roots |-> root, objects |-> heap, captured |-> captured, collided |-> FALSE]

\* _get_path and _has_path, without lists.
Find(t, path, memory) ==
  LET top == memory.roots[t][path[1]] IN
    IF Len(path) = 1 THEN top
    ELSE IF top.object THEN memory.objects[top][path[2]] ELSE Absent

Lookup(t, path) == Find(t, path, Now)
Has(t, path)    == Lookup(t, path) # Absent

\* A normalizer looks the whole name up as one key, so it finds none with a dot.
FindKey(t, path, memory) == IF Len(path) = 1 THEN Find(t, path, memory) ELSE Absent

\* The path leads into a scalar: ConfigError.
Collides(t, path, memory) ==
  LET top == memory.roots[t][path[1]] IN Len(path) = 2 /\ top # Absent /\ ~top.object

\* _set_path where nothing collides, which makes the missing object.
SetPath(t, path, value, memory) ==
  LET k == path[1]
      top == memory.roots[t][k] IN
    IF Len(path) = 1 THEN [memory EXCEPT !.roots[t][k] = value]
    ELSE IF top = Absent
      THEN [memory EXCEPT !.roots[t][k] = Object(t, k),
                          !.objects[Object(t, k)] = [Empty EXCEPT ![path[2]] = value]]
      ELSE [memory EXCEPT !.objects[top][path[2]] = value]

\* One capture; none is made after one that collided.
Save(t, path, source, memory) ==
  LET value == Value(source, t, path) IN
    IF memory.collided \/ Collides(t, path, memory) THEN [memory EXCEPT !.collided = TRUE]
    ELSE [SetPath(t, path, value, memory) EXCEPT !.captured[t][path] = value]

\* The memory after each of the captures.
Saved(t, paths, source, memory) ==
  LET after[n \in 0 .. Len(paths)] ==
        IF n = 0 THEN memory ELSE Save(t, paths[n], source, after[n - 1])
  IN after

-----------------------------------------------------------------------------
(* load_config.  An item of the configuration is nothing, a scalar, an object *)
(* given by its leaves, or a wrapper of an environment variable nobody set.   *)

Nothing == {"nothing"}
Scalar  == {"scalar"}
Unset   == {"unset"}
IsObjectItem(item) == item \notin {Nothing, Scalar, Unset}

\* _resolve_variables: an optional variable that is not set is left out.
Resolve(owner, key, item) ==
  IF item \in {Nothing, Unset} THEN Absent
  ELSE IF item = Scalar THEN Value("config", owner, <<key>>) ELSE Object(owner, key)

Fields(owner, key, item) ==
  [l \in Leaves |-> IF IsObjectItem(item) /\ l \in item THEN Value("config", owner, <<key, l>>)
                ELSE Absent]

\* Mutant: the first target is merged into the shared part itself.
MergeInPlace(t, key, shared, own) ==
  LET mine == Resolve(t, key, own[t][key])
      first == Resolve(Head(Targets), key, own[Head(Targets)][key]) IN
    IF mine # Absent THEN mine
    ELSE IF first # Absent THEN first ELSE Resolve("shared", key, shared[key])

\* _merge_variables: two objects make a new one, the target's fields over the
\* shared ones; otherwise the target's value, or else the shared one itself.
Merge(t, key, shared, own) ==
  LET mine == Resolve(t, key, own[t][key]) IN
    IF mine = Absent THEN Resolve("shared", key, shared[key]) ELSE mine

MergedFields(t, key, shared, own) ==
  LET mine == Fields(t, key, own)
      common == Fields("shared", key, shared) IN
    [l \in Leaves |-> IF mine[l] = Absent THEN common[l] ELSE mine[l]]

Load(shared, own) ==
  /\ root = [t \in TargetSet |-> [k \in Keys |-> Merge(t, k, shared, own)]]
  /\ heap = [o \in Objects |->
       LET k == o.path[1] IN
         IF o.owner = "shared" THEN Fields("shared", k, shared[k])
         ELSE IF IsObjectItem(own[o.owner][k])
           THEN MergedFields(o.owner, k, shared[k], own[o.owner][k]) ELSE Empty]

-----------------------------------------------------------------------------
(* A transcript requires paths; a step has the paths of its request, of its   *)
(* expectations, of its captures in order, and of the normalizers and of the  *)
(* policy that look variables up after them.                                  *)

Steps     == DOMAIN transcript.steps
ThisStep  == transcript.steps[step]
Captures(s)     == ToSet(transcript.steps[s].captures)
AllCaptures     == UNION {Captures(s) : s \in Steps}
CapturesUpTo(s) == UNION {Captures(r) : r \in 1 .. s}

DuplicateNames ==
  \E r, s \in Steps :
    \E i \in DOMAIN transcript.steps[r].captures, j \in DOMAIN transcript.steps[s].captures :
      /\ <<r, i>> # <<s, j>>
      /\ transcript.steps[r].captures[i] = transcript.steps[s].captures[j]

\* Mutant: a step may use what a later step captures.
TranscriptRejectsShadows == DuplicateNames \/ AllCaptures \cap transcript.requires # {}

\* validate_transcript: the captures have names of their own, shadow no required
\* path, and none is used before the step that makes it.
TranscriptRejects ==
  \/ DuplicateNames
  \/ AllCaptures \cap transcript.requires # {}
  \/ \E s \in Steps :
       (transcript.steps[s].uses \cap AllCaptures) \ CapturesUpTo(s - 1) # {}

\* Mutant: every step is planned from the loaded variables.
PlannedFromLoaded(t) ==
  [s \in 0 .. Len(transcript.steps) |->
     IF s = 0 THEN Now
     ELSE LET names == transcript.steps[s].captures IN Saved(t, names, "plan", Now)[Len(names)]]

\* The planned memory of a target after each step.
Planned(t) ==
  LET after[s \in 0 .. Len(transcript.steps)] ==
        IF s = 0 THEN Now
        ELSE LET names == transcript.steps[s].captures IN
               Saved(t, names, "plan", after[s - 1])[Len(names)]
  IN after

\* Mutant: the loaded variables are not looked at.
ShadowsEarlierCapture(t, s) == Captures(s) \cap CapturesUpTo(s - 1) # {}

\* A capture takes a name that is loaded, or was captured before.
Shadows(t, s) ==
  \E path \in Captures(s) : path \in CapturesUpTo(s - 1) \/ Has(t, path)

Before(now) == now.uses \cup now.expects
After(now)  == now.rules \cup now.policy

\* A path is neither loaded nor captured before it is looked up: by name.
Unresolved(t, s) ==
  LET now == transcript.steps[s] IN
    \/ \E path \in Before(now) : path \notin CapturesUpTo(s - 1) /\ ~Has(t, path)
    \/ \E path \in After(now)  : path \notin CapturesUpTo(s) /\ ~Has(t, path)

\* The request does not render, or a capture collides, in the planned variables.
Unplannable(t, s) ==
  \/ \E path \in transcript.steps[s].uses : Find(t, path, Planned(t)[s - 1]) = Absent
  \/ Planned(t)[s].collided

\* _validate_complete_variable_plan.
PlanRejects ==
  \E t \in TargetSet, s \in Steps : Unresolved(t, s) \/ Shadows(t, s) \/ Unplannable(t, s)

-----------------------------------------------------------------------------
(* A case *)

Init ==
  /\ pc = "plan"
  /\ complete \in BOOLEAN
  /\ transcript \in Transcripts
  /\ \E shared \in [Keys -> SharedItems], own \in [TargetSet -> [Keys -> OwnItems]] :
       Load(shared, own)
  /\ step = 1
  /\ turn = 1
  /\ captured = [t \in TargetSet |-> [path \in Paths |-> Absent]]
  /\ loaded = [t \in TargetSet |-> [path \in Paths |-> Lookup(t, path)]]
  /\ errors = {}

\* A step of the case's control changes no variable of a target.
Goto(label) ==
  /\ pc' = label
  /\ UNCHANGED <<complete, transcript, root, heap, loaded, captured>>

Gated == \E t \in TargetSet, path \in transcript.requires : ~Has(t, path)

\* The corpus is refused, or in a partial run the case is skipped.
Reject ==
  /\ pc = "plan"
  /\ TranscriptRejects \/ Gated \/ (complete /\ PlanRejects)
  /\ Goto("rejected")
  /\ UNCHANGED <<step, turn, errors>>

Start ==
  /\ pc = "plan"
  /\ ~TranscriptRejects /\ ~Gated /\ ~(complete /\ PlanRejects)
  /\ Goto("validate")
  /\ UNCHANGED <<step, turn, errors>>

Missing(ts, paths) == \E t \in ts, path \in paths : ~Has(t, path)

\* Both requests are rendered before either is sent.
Validate ==
  /\ pc = "validate"
  /\ errors' = IF Missing(TargetSet, ThisStep.uses) THEN {"request"} ELSE {}
  /\ Goto(IF errors' = {} THEN "exchange" ELSE "failed")
  /\ turn' = 1
  /\ UNCHANGED step

\* The next target has its turn after an error, too.
Here == Targets[turn]
NextTurn(wrong) ==
  /\ errors' = errors \cup wrong
  /\ pc' = IF turn < Len(Targets) THEN "exchange" ELSE "judge"
  /\ turn' = IF turn < Len(Targets) THEN turn + 1 ELSE turn
  /\ UNCHANGED <<complete, transcript, step, loaded>>

\* There is no reply, or not the one expected, or an expectation names a variable
\* that is missing.
Refused ==
  /\ pc = "exchange"
  /\ \E wrong \in {"reply", "lookup"} :
       (wrong = "lookup" => Missing({Here}, ThisStep.expects)) /\ NextTurn({wrong})
  /\ UNCHANGED <<root, heap, captured>>

\* _apply_captures, as far as the reply gives the values and none collides; then
\* the normalizers look their variables up.
Exchange ==
  /\ pc = "exchange"
  /\ ~Missing({Here}, ThisStep.expects)
  /\ \E given \in 0 .. Len(ThisStep.captures) :
       LET after == Saved(Here, ThisStep.captures, "reply", Now)[given] IN
         /\ root' = after.roots
         /\ heap' = after.objects
         /\ captured' = after.captured
         /\ NextTurn(IF after.collided THEN {"capture"}
                     ELSE IF given < Len(ThisStep.captures) THEN {"reply"}
                     ELSE IF \E path \in ThisStep.rules : FindKey(Here, path, after) = Absent
                       THEN {"lookup"}
                     ELSE {})

\* The case ends with the first step that has an error.  The policy looks its
\* variables up once both have answered.
Judge ==
  /\ pc = "judge"
  /\ errors' = IF errors = {} /\ Missing(TargetSet, ThisStep.policy) THEN {"lookup"} ELSE errors
  /\ Goto(IF errors' # {} THEN "failed"
          ELSE IF step < Len(transcript.steps) THEN "validate" ELSE "done")
  /\ step' = IF step < Len(transcript.steps) THEN step + 1 ELSE step
  /\ UNCHANGED turn

\* A request that is not valid for another reason, or a difference, ends it too.
Differ ==
  /\ pc \in {"validate", "judge"}
  /\ errors' = errors \cup {"reply"}
  /\ Goto("failed")
  /\ UNCHANGED <<step, turn>>

Next == Reject \/ Start \/ Validate \/ Refused \/ Exchange \/ Judge \/ Differ

Spec == Init /\ [][Next]_vars

-----------------------------------------------------------------------------
(* Properties *)

Values == {Absent} \cup {Value("config", o, path) : o \in Owners, path \in Paths}
                   \cup {Value("reply", t, path) : t \in TargetSet, path \in Paths}

\* The variables are dictionaries of scalars and of dictionaries of scalars, and
\* a target holds no object that another target's part made.
TypeOK ==
  /\ pc \in {"plan", "rejected", "validate", "exchange", "judge", "failed", "done"}
  /\ step \in Steps /\ turn \in DOMAIN Targets
  /\ root \in [TargetSet -> [Keys -> Values \cup Objects]]
  /\ \A t \in TargetSet, k \in Keys :
       root[t][k].object => root[t][k] \in {Object(t, k), Object("shared", k)}
  /\ heap \in [Objects -> [Leaves -> Values]]
  /\ captured \in [TargetSet -> [Paths -> Values]]

\* Captures are target-separated: what one target captures is not seen in the
\* variables of another.
TargetSeparated ==
  [][\A t \in TargetSet : captured'[t] = captured[t] =>
       \A path \in Paths : Lookup(t, path)' = Lookup(t, path)]_vars

\* A request that uses a captured variable is sent with what was captured in this
\* very case, never with what an earlier one left: with what this target captured,
\* or, where load_config gave it the shared object itself, with what a target that
\* was asked later captured into it.
UsesFreshCapture ==
  pc = "exchange" => \A path \in ThisStep.uses \cap AllCaptures :
    /\ captured[Here][path] # Absent
    /\ \E t \in TargetSet :
         /\ t = Here \/ root[Here][path[1]] = Object("shared", path[1])
         /\ Lookup(Here, path) = Value("reply", t, path)

FixtureKept == \A t \in TargetSet, path \in transcript.requires : Lookup(t, path) = loaded[t][path]

Running == pc \notin {"plan", "rejected"}

\* In a complete run a case never changes the fixture it declared.
CompleteRunKeepsFixture == complete /\ Running => FixtureKept

\* Captures cannot shadow fixture or session paths, in any run.
CapturesNeverShadow == Running => FixtureKept

\* Once the plan of a complete run is accepted every request of the case finds
\* its variables and no capture collides, whatever is captured over what and
\* whichever objects the targets share.
PlanHolds == complete => errors \cap {"request", "capture"} = {}

\* Once the plan is accepted no variable is missing when it is looked up, by an
\* expectation, a normalizer or the policy either.
PlanFindsAll == complete => "lookup" \notin errors
=============================================================================
