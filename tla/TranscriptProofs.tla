-------------------------- MODULE TranscriptProofs --------------------------
(***************************************************************************)
(* Theorems about what a transcript may say, for every corpus, manifest,    *)
(* matrix and reply.                                                        *)
(*                                                                         *)
(* CoverageLedger: what may run has every packet witnessed; a default run   *)
(* covers the surface and the policies, and sends nothing after a waived    *)
(* reply.                                                                   *)
(*                                                                         *)
(* PolicyMatrix: a reply that passes holds the declared packets only, the   *)
(* required ones in their order, and agrees with the other server's on what *)
(* both may send and on every user but the bot.                             *)
(***************************************************************************)
EXTENDS CoverageLedger, PolicyMatrix, SequenceTheorems, FiniteSetTheorems, FunctionTheorems,
        WellFoundedInduction, TLAPS

\* What discover_transcripts and the sort make of the files.
Loaded ==
  /\ \E S : corpus \in Seq(S)
  /\ corpus # <<>>
  /\ \A i \in DOMAIN corpus : Accepted(corpus[i])
  /\ \A i, j \in DOMAIN corpus : corpus[i].id = corpus[j].id => i = j
  /\ ~options.selection => \A i, j \in DOMAIN corpus : i < j =>
       Rank(corpus[i].id) < Rank(corpus[j].id) \/ Rank(corpus[i].id) = Rank(corpus[j].id)
  /\ (\E S : scenarios \in Seq(S)) /\ scenarios # <<>>
  /\ \A i, j \in DOMAIN scenarios : scenarios[i].id = scenarios[j].id => i = j

\* The transcripts the loop has gone through.
Checked(i) == i \in DOMAIN corpus /\ (pc = "cases" => i < next)

\* The errors are those of the transcripts gone through, and of the manifest.
Noted ==
  /\ next \in DOMAIN corpus
  /\ pc \in {"cases", "manifest", "decide", "rejected", "started", "reported"}
  /\ \A i \in DOMAIN corpus : Checked(i) => CaseErrors(corpus[i]) \subseteq errors
  /\ pc \notin {"cases", "manifest"} => ManifestErrors \subseteq errors
  /\ pc = "started" => MayStart

\* The ledger holds no more than those transcripts do.
Counted ==
  /\ \A p \in declared : \E i \in DOMAIN corpus :
       ~Malformed(corpus[i]) /\ p \in corpus[i].claims
  /\ \A r \in claimedRoutes : \E i \in DOMAIN corpus : r \in corpus[i].routes
  /\ DOMAIN triggered = Policies
  /\ \A policy \in Policies : \A p \in triggered[policy] : \E i \in DOMAIN corpus :
       p \in Triggered(corpus[i], policy)

IInv == Loaded /\ Noted /\ Counted

-----------------------------------------------------------------------------
LEMMA InitLoaded == Init => Loaded
<1> SUFFICES ASSUME Init PROVE Loaded
  OBVIOUS
<1>0. PICK project \in Projects :
        /\ scenarios \in project.scenarios
        /\ \E found \in project.corpora :
             /\ \A i \in DOMAIN found : Accepted(found[i])
             /\ IsInjective(Ids(found))
             /\ \E from \in [DOMAIN found -> DOMAIN found] :
                  /\ IF options.selection THEN \A i \in DOMAIN found : from[i] = i
                                          ELSE Sorts(from, found)
                  /\ corpus = [i \in DOMAIN found |-> found[from[i]]]
  BY DEF Init
<1>1. PICK found \in project.corpora :
        /\ scenarios \in project.scenarios
        /\ \A i \in DOMAIN found : Accepted(found[i])
        /\ IsInjective(Ids(found))
        /\ \E from \in [DOMAIN found -> DOMAIN found] :
             /\ IF options.selection THEN \A i \in DOMAIN found : from[i] = i
                                     ELSE Sorts(from, found)
             /\ corpus = [i \in DOMAIN found |-> found[from[i]]]
  BY <1>0
<1>2. PICK from \in [DOMAIN found -> DOMAIN found] :
        /\ IF options.selection THEN \A i \in DOMAIN found : from[i] = i
                                ELSE Sorts(from, found)
        /\ corpus = [i \in DOMAIN found |-> found[from[i]]]
  BY <1>1
<1>3. found \in Seq(ToSet(found)) /\ found # <<>>
  BY <1>1, ProjectsAssumption
<1>4. /\ DOMAIN found = 1 .. Len(found) /\ Len(found) \in Nat /\ Len(found) # 0
      /\ \A i \in DOMAIN found : found[i] \in ToSet(found)
  BY <1>3, LenProperties, EmptySeq, ElementOfSeq
<1>5. corpus \in Seq(ToSet(found)) /\ DOMAIN corpus = DOMAIN found
  BY <1>2, <1>4
<1>6. \A i, j \in DOMAIN found : found[i].id = found[j].id => i = j
  BY <1>1 DEF Ids, IsInjective
<1>7. \A i, j \in DOMAIN found : from[i] = from[j] => i = j
  BY <1>2 DEF Sorts, IsInjective
<1>8. \A i, j \in DOMAIN corpus : corpus[i].id = corpus[j].id => i = j
  BY <1>2, <1>5, <1>6, <1>7
<1>9. \A i \in DOMAIN corpus : Accepted(corpus[i])
  BY <1>1, <1>2, <1>5
<1>10. corpus # <<>>
  BY <1>4, <1>5
<1>11. ASSUME ~options.selection, NEW i \in DOMAIN corpus, NEW j \in DOMAIN corpus, i < j
       PROVE  Rank(corpus[i].id) < Rank(corpus[j].id) \/ Rank(corpus[i].id) = Rank(corpus[j].id)
  BY <1>2, <1>5, <1>11 DEF Sorts
<1>12. (\E S : scenarios \in Seq(S)) /\ scenarios # <<>>
  BY <1>1, ProjectsAssumption
<1>13. \A i, j \in DOMAIN scenarios : scenarios[i].id = scenarios[j].id => i = j
  BY <1>1, ProjectsAssumption
<1> QED
  BY <1>5, <1>8, <1>9, <1>10, <1>11, <1>12, <1>13 DEF Loaded

LEMMA LoadedStays ==
  Loaded /\ UNCHANGED <<options, scenarios, corpus>> => Loaded'
<1> SUFFICES ASSUME Loaded, UNCHANGED <<options, scenarios, corpus>> PROVE Loaded'
  OBVIOUS
<1>1. ASSUME NEW i \in DOMAIN corpus' PROVE Accepted(corpus[i])'
  <2>1. Accepted(corpus[i])
    BY DEF Loaded
  <2> QED
    BY <2>1 DEF Accepted, StepsOf, MatrixSteps
<1>2. \A id : Rank(id)' = Rank(id)
  BY DEF Rank, Ids
<1>3. ASSUME ~options'.selection, NEW i \in DOMAIN corpus', NEW j \in DOMAIN corpus', i < j
      PROVE  LET a == Rank(corpus[i].id)' b == Rank(corpus[j].id)' IN a < b \/ a = b
  <2>1. Rank(corpus[i].id)' = Rank(corpus[i].id) /\ Rank(corpus[j].id)' = Rank(corpus[j].id)
    BY DEF Rank, Ids
  <2> QED
    BY <1>3, <2>1 DEF Loaded
<1> QED
  BY <1>1, <1>3 DEF Loaded

LEMMA ErrorsStay ==
  UNCHANGED scenarios => \A c : CaseErrors(c)' = CaseErrors(c)
<1> SUFFICES ASSUME UNCHANGED scenarios, NEW c PROVE CaseErrors(c)' = CaseErrors(c)
  OBVIOUS
<1>1. WaiverErrors(c)' = WaiverErrors(c)
  BY DEF WaiverErrors
<1> QED
  BY <1>1 DEF CaseErrors

LEMMA ManifestStays ==
  UNCHANGED <<scenarios, corpus, ledger>> => ManifestErrors' = ManifestErrors
<1> SUFFICES ASSUME UNCHANGED <<scenarios, corpus, ledger>> PROVE ManifestErrors' = ManifestErrors
  OBVIOUS
<1>1. MissingErrors' = MissingErrors
  BY DEF MissingErrors, ledger, Ids
<1>2. \A s : ScenarioErrors(s)' = ScenarioErrors(s)
  BY DEF ScenarioErrors
<1>3. CorpusErrors' = CorpusErrors
  <2>1. OutOfOrder' = OutOfOrder
    BY DEF OutOfOrder, Ids
  <2> QED
    BY <2>1 DEF CorpusErrors, ledger, Ids
<1> QED
  BY <1>1, <1>2, <1>3 DEF ManifestErrors, ledger

-----------------------------------------------------------------------------
LEMMA InitInv == Init => IInv
<1> SUFFICES ASSUME Init PROVE IInv
  OBVIOUS
<1>1. Loaded
  BY InitLoaded
<1>2. 1 \in DOMAIN corpus
  BY <1>1, LenProperties, EmptySeq DEF Loaded
<1>3. Noted
  <2>1. next = 1 /\ pc = "cases"
    BY DEF Init
  <2>2. \A i \in DOMAIN corpus : ~(i < 1)
    BY <1>1, LenProperties DEF Loaded
  <2> QED
    BY <1>2, <2>1, <2>2 DEF Noted, Checked
<1>4. Counted
  BY DEF Init, Counted
<1> QED
  BY <1>1, <1>3, <1>4 DEF IInv

LEMMA CheckCaseKeepsIt == IInv /\ CheckCase => IInv'
<1> SUFFICES ASSUME IInv, CheckCase PROVE IInv'
  OBVIOUS
<1>1. UNCHANGED <<options, scenarios, corpus>>
  BY DEF CheckCase
<1>2. Loaded /\ Loaded'
  BY <1>1, LoadedStays DEF IInv
<1>3. PICK n \in Nat : n = Len(corpus) /\ DOMAIN corpus = 1 .. n /\ next \in 1 .. n
  BY <1>2, LenProperties DEF IInv, Noted, Loaded
<1>4. Noted'
  <2>1. next' \in DOMAIN corpus' /\ pc' \in {"cases", "manifest"}
    BY <1>1, <1>3 DEF CheckCase
  <2>2. ASSUME NEW i \in DOMAIN corpus, Checked(i)' PROVE CaseErrors(corpus[i]) \subseteq errors'
    <3>1. i < next \/ i = next
      BY <1>1, <1>3, <2>2 DEF CheckCase, Checked
    <3>2. CASE i < next
      BY <3>2 DEF IInv, Noted, Checked, CheckCase
    <3>3. CASE i = next
      BY <3>3 DEF CheckCase
    <3> QED
      BY <3>1, <3>2, <3>3
  <2>3. \A c : CaseErrors(c)' = CaseErrors(c)
    BY <1>1, ErrorsStay
  <2>4. \A i \in DOMAIN corpus : Checked(i)' => CaseErrors(corpus[i]) \subseteq errors'
    BY <2>2
  <2>5. \A i \in DOMAIN corpus' : Checked(i)' => CaseErrors(corpus[i])' \subseteq errors'
    <3>1. ASSUME NEW i \in DOMAIN corpus', Checked(i)'
          PROVE CaseErrors(corpus[i])' \subseteq errors'
      <4>1. PICK c : c = corpus[i]
        OBVIOUS
      <4>2. c = corpus'[i]
        BY <1>1, <4>1
      <4>3. CaseErrors(corpus[i])' = CaseErrors(c)
        BY <1>1, <4>1, ErrorsStay DEF CaseErrors, WaiverErrors
      <4> QED
        BY <1>1, <2>4, <3>1, <4>1, <4>3
    <3> QED
      BY <3>1
  <2> QED
    BY <2>1, <2>5 DEF Noted
<1>5. Counted'
  <2>1. \A p \in declared' : \E i \in DOMAIN corpus :
          ~Malformed(corpus[i]) /\ p \in corpus[i].claims
    BY DEF IInv, Counted, Noted, CheckCase
  <2>2. \A r \in claimedRoutes' : \E i \in DOMAIN corpus : r \in corpus[i].routes
    BY DEF IInv, Counted, Noted, CheckCase
  <2>3. DOMAIN triggered' = Policies
    BY DEF CheckCase
  <2>4. ASSUME NEW policy \in Policies, NEW p \in triggered'[policy]
        PROVE  \E i \in DOMAIN corpus : p \in Triggered(corpus[i], policy)
    <3>1. p \in triggered[policy] \cup Triggered(corpus[next], policy)
      BY <2>4 DEF CheckCase
    <3> QED
      BY <3>1 DEF IInv, Counted, Noted
  <2>5. ASSUME NEW policy \in Policies, NEW p \in triggered'[policy]
        PROVE  \E i \in DOMAIN corpus' : p \in Triggered(corpus[i], policy)'
    <3>1. PICK i \in DOMAIN corpus : p \in Triggered(corpus[i], policy)
      BY <2>4
    <3>2. Triggered(corpus[i], policy)' = Triggered(corpus[i], policy)
      BY <1>1 DEF Triggered, Sends
    <3> QED
      BY <1>1, <3>1, <3>2
  <2> QED
    BY <1>1, <2>1, <2>2, <2>3, <2>5 DEF Counted, Malformed
<1> QED
  BY <1>2, <1>4, <1>5 DEF IInv

\* After the loop nothing but the errors and the verdict changes.
LEMMA LedgerStays ==
  ASSUME IInv, UNCHANGED <<options, scenarios, corpus, next, ledger>>,
         errors \subseteq errors', pc # "cases" \/ pc' = "cases",
         pc' \in {"cases", "manifest", "decide", "rejected", "started", "reported"},
         pc' \notin {"cases", "manifest"} => ManifestErrors \subseteq errors',
         pc' = "started" => MayStart'
  PROVE  IInv'
<1>1. Loaded'
  BY LoadedStays DEF IInv
<1>2. ManifestErrors' = ManifestErrors
  BY ManifestStays
<1>3. ASSUME NEW i \in DOMAIN corpus', Checked(i)' PROVE CaseErrors(corpus[i])' \subseteq errors'
  <2>1. CaseErrors(corpus[i])' = CaseErrors(corpus[i])
    BY DEF CaseErrors, WaiverErrors, PolicyErrors, StepErrors, ClaimErrors, AssertionErrors,
           ObserverErrors, EvidenceErrors, Asserted, AssertedOccurrences, Occurrences, Sent,
           Sends, StepsOf, MatrixSteps, CasePolicies, Requested, Malformed, Distinct, Role,
           IsEmptyPoll, IsSessionReadback
  <2>2. Checked(i)
    BY <1>3 DEF Checked, IInv, Noted
  <2> QED
    BY <2>1, <2>2 DEF IInv, Noted
<1>4. Noted'
  BY <1>2, <1>3 DEF IInv, Noted
<1>5. Counted'
  BY DEF IInv, Counted, Malformed, Triggered, Sends, ledger
<1> QED
  BY <1>1, <1>4, <1>5 DEF IInv

LEMMA NextKeepsIt == IInv /\ [Next]_vars => IInv'
<1> SUFFICES ASSUME IInv, [Next]_vars PROVE IInv'
  OBVIOUS
<1>1. CASE CheckCase
  BY <1>1, CheckCaseKeepsIt
<1>2. CASE CheckManifest
  BY <1>2, LedgerStays DEF CheckManifest
<1>3. ASSUME NEW verdict \in {"rejected", "reported", "started"}, End(verdict),
             verdict = "started" => MayStart
      PROVE  IInv'
  <2>1. ManifestErrors \subseteq errors'
    BY <1>3 DEF End, IInv, Noted
  <2>2. MayStart' = MayStart
    BY <1>3 DEF End, MayStart, Consistent
  <2> QED
    BY <1>3, <2>1, <2>2, LedgerStays DEF End
<1>4. CASE Report
  BY <1>3, <1>4 DEF Report
<1>5. CASE StartRun
  BY <1>3, <1>5 DEF StartRun
<1>6. CASE Refuse
  BY <1>3, <1>6 DEF Refuse
<1>7. CASE UNCHANGED vars
  <2>1. MayStart' = MayStart
    BY <1>7 DEF vars, MayStart, Consistent
  <2> QED
    BY <1>7, <2>1, LedgerStays DEF vars, IInv, Noted
<1> QED
  BY <1>1, <1>2, <1>4, <1>5, <1>6, <1>7 DEF Next

THEOREM LedgerInvariant == Spec => []IInv
<1>1. Init => IInv
  BY InitInv
<1>2. IInv /\ [Next]_vars => IInv'
  BY NextKeepsIt
<1> QED
  BY <1>1, <1>2, PTL DEF Spec

-----------------------------------------------------------------------------
\* A code that is not found broken is one whose condition holds.
LEMMA NotBroken ==
  ASSUME NEW checks, NEW code \in DOMAIN checks, code \notin Broken(checks)
  PROVE  checks[code]
  BY Zenon DEF Broken

\* What may run has only the errors of a part.
LEMMA StartedCases ==
  ASSUME IInv, pc = "started", NEW i \in DOMAIN corpus
  PROVE  /\ CaseErrors(corpus[i]) \subseteq PartialCodes
         /\ ManifestErrors \subseteq PartialCodes
         /\ ~options.selection => CaseErrors(corpus[i]) = {} /\ ManifestErrors = {}
<1>1. Consistent /\ (options.selection \/ errors = {})
  BY DEF IInv, Noted, MayStart
<1>2. CaseErrors(corpus[i]) \subseteq errors
  BY DEF IInv, Noted, Checked
<1>3. ManifestErrors \subseteq errors
  BY DEF IInv, Noted
<1> QED
  BY <1>1, <1>2, <1>3 DEF Consistent

\* An observer of an accepted assertion without errors can see what a request did.
LEMMA ObserverSees ==
  ASSUME NEW c, NEW a, a.kind \in Kinds, ObserverErrors(c, a) \subseteq PartialCodes,
         a.observers # {}, NEW s \in a.requests, NEW p \in a.packets
  PROVE  \E o \in a.observers : Sees(c, a.kind, s, o, p)
<1>1. CASE a.kind \in {"immediate-response", "policy-matrix"}
  <2>1. "noncausal_immediate_observer" \notin ObserverErrors(c, a)
    BY DEF PartialCodes
  <2>2. a.requests = a.observers
    BY <1>1, <2>1 DEF ObserverErrors, Broken
  <2> QED
    BY <1>1, <2>2 DEF Sees
<1>2. CASE a.kind = "recipient-poll"
  <2>1. /\ "recipient_observer_not_distinct" \notin ObserverErrors(c, a)
        /\ "recipient_observer_is_not_empty_poll" \notin ObserverErrors(c, a)
    BY DEF PartialCodes
  <2>2. PICK o \in a.observers : o > s /\ Distinct(c, s, o)
    BY <1>2, <2>1 DEF ObserverErrors, Broken
  <2>3. \A q \in a.observers : IsEmptyPoll(c.steps[q])
    BY <1>2, <2>1 DEF ObserverErrors, Broken
  <2> QED
    BY <1>2, <2>2, <2>3 DEF Sees, Distinct
<1>3. CASE a.kind = "state-readback"
  <2>1. /\ "observer_not_after_request" \notin ObserverErrors(c, a)
        /\ "state_readback_route_mismatch" \notin ObserverErrors(c, a)
    BY DEF PartialCodes
  <2>2. PICK o \in a.observers : o > s
    BY <1>3, <2>1 DEF ObserverErrors, Broken
  <2>3. c.steps[o].route \in ReadbackRoutes[p]
    BY <1>3, <2>1, <2>2 DEF ObserverErrors, Broken
  <2> QED
    BY <1>3, <2>2, <2>3 DEF Sees
<1> QED
  BY <1>1, <1>2, <1>3 DEF Kinds

\* Such an observer can also tell a wrong reply.
LEMMA ObserverTells ==
  ASSUME NEW c, NEW a, EvidenceErrors(c, a) \subseteq PartialCodes, NEW o \in a.observers
  PROVE  Tells(c, o)
<1>1. /\ "assertion_body_not_compared" \notin EvidenceErrors(c, a)
      /\ "behavior_observer_without_runtime_predicate" \notin EvidenceErrors(c, a)
  BY DEF PartialCodes
<1>2. c.steps[o].body
  BY <1>1 DEF EvidenceErrors, Broken
<1>3. Malformed(c) \/ c.steps[o].policy # None \/ c.steps[o].predicate
  BY <1>1 DEF EvidenceErrors, Broken
<1> QED
  BY <1>2, <1>3 DEF Tells

\* Every packet that a transcript without case errors sends has such an observer.
LEMMA CaseWitnessed ==
  ASSUME NEW c, Accepted(c), CaseErrors(c) \subseteq PartialCodes, NEW sent \in Occurrences(c)
  PROVE  \E a \in c.assertions : \E o \in a.observers :
           /\ sent[1] \in a.requests /\ sent[2] \in a.packets
           /\ Sees(c, a.kind, sent[1], o, sent[2]) /\ Tells(c, o)
<1>1. AssertionErrors(c) \subseteq PartialCodes
  BY DEF CaseErrors
<1>2. Occurrences(c) \subseteq AssertedOccurrences(c)
  <2>1. "packet_occurrence_not_asserted" \notin AssertionErrors(c)
    BY <1>1 DEF PartialCodes
  <2> QED
    BY <2>1 DEF AssertionErrors, Broken
<1>3. PICK a \in c.assertions : sent \in {o \in a.requests \X a.packets : o[2] \in Sends(c, o[1])}
  BY <1>2 DEF AssertedOccurrences
<1>4. sent[1] \in a.requests /\ sent[2] \in a.packets
  BY <1>3
<1>5. ObserverErrors(c, a) \subseteq PartialCodes /\ EvidenceErrors(c, a) \subseteq PartialCodes
  <2>1. UNION {ObserverErrors(c, b) \cup EvidenceErrors(c, b) : b \in c.assertions}
          \subseteq PartialCodes
    BY <1>1, Zenon DEF AssertionErrors
  <2>2. \A b \in c.assertions :
          ObserverErrors(c, b) \cup EvidenceErrors(c, b) \subseteq PartialCodes
    BY <2>1
  <2> QED
    BY <1>3, <2>2
<1>6. a.kind \in Kinds /\ a.observers # {}
  BY <1>3 DEF Accepted
<1>7. PICK o \in a.observers : Sees(c, a.kind, sent[1], o, sent[2])
  BY <1>4, <1>5, <1>6, ObserverSees
<1>8. Tells(c, o)
  BY <1>5, <1>7, ObserverTells
<1> QED
  BY <1>3, <1>4, <1>7, <1>8

\* Whatever is started, also a selection with errors of a part: each packet of each
\* transcript is asserted by an observer that can see its effect and tell it is
\* wrong (check_transcript_coverage and the gate of main).
THEOREM StartedIsWitnessed == Spec => []EveryPacketIsWitnessed
<1>1. IInv => EveryPacketIsWitnessed
  <2> SUFFICES ASSUME IInv, pc = "started", NEW c \in ToSet(corpus), NEW sent \in Occurrences(c)
               PROVE  \E a \in c.assertions : \E o \in a.observers :
                        /\ sent[1] \in a.requests /\ sent[2] \in a.packets
                        /\ Sees(c, a.kind, sent[1], o, sent[2]) /\ Tells(c, o)
    BY DEF EveryPacketIsWitnessed
  <2>1. PICK i \in DOMAIN corpus : c = corpus[i]
    BY DEF ToSet
  <2>2. Accepted(c) /\ CaseErrors(c) \subseteq PartialCodes
    BY <2>1, StartedCases DEF IInv, Loaded
  <2> QED
    BY <2>2, CaseWitnessed
<1> QED
  BY <1>1, LedgerInvariant, PTL

-----------------------------------------------------------------------------
\* A transcript without errors sends the packets and requests the routes it
\* claims, and compares the replies to those requests.
LEMMA ClaimsHold ==
  ASSUME NEW c, CaseErrors(c) = {}
  PROVE  /\ c.claims \subseteq Sent(c) /\ c.routes \subseteq Requested(c)
         /\ \A s \in StepsOf(c) : c.steps[s].kind = "web" => c.steps[s].body /\ c.steps[s].status
<1>1. ClaimErrors(c) = {} /\ StepErrors(c) = {}
  BY DEF CaseErrors
<1>2. c.claims \subseteq Sent(c)
  <2>1. "unobserved_packet_claim" \notin ClaimErrors(c)
    BY <1>1
  <2> QED
    BY <2>1 DEF ClaimErrors, Broken
<1>3. c.routes \subseteq Requested(c)
  <2>1. "unobserved_route_claim" \notin ClaimErrors(c)
    BY <1>1
  <2> QED
    BY <2>1 DEF ClaimErrors, Broken
<1>4. \A s \in StepsOf(c) : Sends(c, s) # {} \/ c.steps[s].kind = "web" =>
        c.steps[s].body /\ c.steps[s].status
  <2>1. "covered_response_not_compared" \notin StepErrors(c)
    BY <1>1
  <2> QED
    BY <2>1 DEF StepErrors, Broken
<1> QED
  BY <1>2, <1>3, <1>4

\* What the ledger has counted is the whole surface.
LEMMA NothingMissing ==
  ASSUME ManifestErrors = {}
  PROVE  Handled \subseteq declared /\ Routes \subseteq claimedRoutes
<1>1. MissingErrors = {}
  BY DEF ManifestErrors
<1>2. /\ "missing_packet_transcript" \notin MissingErrors
      /\ "missing_route_transcript" \notin MissingErrors
  BY <1>1
<1>3. Handled \subseteq declared
  BY <1>2 DEF MissingErrors, Broken
<1>4. Routes \subseteq claimedRoutes
  BY <1>2 DEF MissingErrors, Broken
<1> QED
  BY <1>3, <1>4

\* A default run sends each handled packet in a transcript that is not malformed,
\* and requests each route and compares the reply.
THEOREM DefaultRunCoversSurface == Spec => []SurfaceIsCovered
<1>1. IInv => SurfaceIsCovered
  <2> SUFFICES ASSUME IInv, pc = "started", ~options.selection
               PROVE  /\ \A p \in Handled : \E c \in ToSet(corpus) : ~Malformed(c) /\ p \in Sent(c)
                      /\ \A r \in Routes : \E c \in ToSet(corpus) : \E s \in StepsOf(c) :
                           /\ c.steps[s].kind = "web" /\ c.steps[s].route = r
                           /\ c.steps[s].body /\ c.steps[s].status
    BY DEF SurfaceIsCovered
  <2>1. \A i \in DOMAIN corpus : CaseErrors(corpus[i]) = {} /\ corpus[i] \in ToSet(corpus)
    BY StartedCases DEF ToSet
  <2>2. Handled \subseteq declared /\ Routes \subseteq claimedRoutes
    BY StartedCases, NothingMissing DEF IInv, Noted
  <2>3. ASSUME NEW p \in Handled
        PROVE  \E c \in ToSet(corpus) : ~Malformed(c) /\ p \in Sent(c)
    <3>1. PICK i \in DOMAIN corpus : ~Malformed(corpus[i]) /\ p \in corpus[i].claims
      BY <2>2 DEF IInv, Counted
    <3> QED
      BY <2>1, <3>1, ClaimsHold
  <2>4. ASSUME NEW r \in Routes
        PROVE  \E c \in ToSet(corpus) : \E s \in StepsOf(c) :
                 /\ c.steps[s].kind = "web" /\ c.steps[s].route = r
                 /\ c.steps[s].body /\ c.steps[s].status
    <3>1. PICK i \in DOMAIN corpus : r \in corpus[i].routes
      BY <2>2 DEF IInv, Counted
    <3>2. PICK s \in StepsOf(corpus[i]) :
            corpus[i].steps[s].kind = "web" /\ corpus[i].steps[s].route = r
      BY <2>1, <3>1, ClaimsHold DEF Requested
    <3> QED
      BY <2>1, <3>2, ClaimsHold
  <2> QED
    BY <2>3, <2>4
<1> QED
  BY <1>1, LedgerInvariant, PTL

-----------------------------------------------------------------------------
\* In a default run every policy difference is tried, by a step that carries its
\* matrix, with each packet it is about.
THEOREM DefaultRunTriesPolicies == Spec => []PoliciesAreTried
<1>1. IInv => PoliciesAreTried
  <2> SUFFICES ASSUME IInv, pc = "started", ~options.selection,
                      NEW policy \in Policies, NEW p \in PolicyPackets[policy]
               PROVE  \E c \in ToSet(corpus) : \E s \in StepsOf(c) :
                        c.steps[s].policy = policy /\ p \in Sends(c, s)
    BY DEF PoliciesAreTried
  <2>1. ManifestErrors = {}
    BY StartedCases DEF IInv, Noted
  <2>2. policy \in exercised
    <3>1. MissingErrors = {}
      BY <2>1 DEF ManifestErrors
    <3>2. "missing_policy_matrix" \notin MissingErrors
      BY <3>1
    <3> QED
      BY <3>2 DEF MissingErrors, Broken
  <2>3. triggered[policy] = PolicyPackets[policy]
    <3>1. "policy_packet_set_mismatch" \notin CorpusErrors
      BY <2>1 DEF ManifestErrors
    <3>2. \A q \in Policies \cap exercised : triggered[q] = PolicyPackets[q]
      BY <3>1 DEF CorpusErrors, Broken
    <3> QED
      BY <2>2, <3>2
  <2>4. PICK i \in DOMAIN corpus : p \in Triggered(corpus[i], policy)
    BY <2>3 DEF IInv, Counted
  <2>5. PICK a \in corpus[i].policyAssertions :
          a.policy = policy /\ p \in Sends(corpus[i], a.trigger)
    BY <2>4 DEF Triggered
  <2>6. a.trigger \in StepsOf(corpus[i]) /\ corpus[i].steps[a.trigger].policy = policy
    BY <2>5 DEF IInv, Loaded, Accepted, MatrixSteps
  <2> QED
    BY <2>5, <2>6 DEF ToSet
<1> QED
  BY <1>1, LedgerInvariant, PTL

\* The scenario at place k is ranked k.
LEMMA RankIsPlace ==
  ASSUME \A i, j \in DOMAIN scenarios : scenarios[i].id = scenarios[j].id => i = j,
         NEW k \in DOMAIN scenarios
  PROVE  Rank(scenarios[k].id) = k
<1>1. scenarios[k].id \in ToSet(Ids(scenarios))
  BY DEF ToSet, Ids
<1> QED
  BY <1>1 DEF Rank

\* In a default run nothing is sent after a waived reply: the transcript is the
\* manifest's last scenario, and the sort puts no other behind it.
THEOREM DefaultRunEndsWithWaiver == Spec => []WaiverIsLast
<1>1. IInv => WaiverIsLast
  <2> SUFFICES ASSUME IInv, pc = "started", ~options.selection, NEW i \in DOMAIN corpus,
                      NEW s \in MatrixSteps(corpus[i]), corpus[i].steps[s].attested
               PROVE  i = Len(corpus) /\ s = Len(corpus[i].steps)
    BY DEF WaiverIsLast
  <2>1. ManifestErrors = {} /\ WaiverErrors(corpus[i]) = {}
    BY StartedCases DEF CaseErrors
  <2>2. PICK m \in Nat : m = Len(scenarios) /\ DOMAIN scenarios = 1 .. m /\ m # 0
    BY LenProperties, EmptySeq DEF IInv, Loaded
  <2>3. s = Len(corpus[i].steps)
    <3>1. "source_attested_policy_not_terminal_step" \notin WaiverErrors(corpus[i])
      BY <2>1
    <3> QED
      BY <3>1 DEF WaiverErrors, Broken
  <2>4. corpus[i].id = Last(scenarios).id
    <3>1. "source_attested_policy_not_terminal_scenario" \notin WaiverErrors(corpus[i])
      BY <2>1
    <3>2. scenarios # <<>>
      BY DEF IInv, Loaded
    <3> QED
      BY <3>1, <3>2 DEF WaiverErrors, Broken
  <2>5. Rank(corpus[i].id) = m
    BY <2>2, <2>4, RankIsPlace DEF IInv, Loaded, Last
  <2>6. PICK n \in Nat : n = Len(corpus) /\ DOMAIN corpus = 1 .. n
    BY LenProperties DEF IInv, Loaded
  <2>7. corpus[n].id \in ToSet(Ids(scenarios))
    <3>1. "unexpected_scenario" \notin CorpusErrors
      BY <2>1 DEF ManifestErrors
    <3>2. scenarios # <<>> => ToSet(Ids(corpus)) \subseteq ToSet(Ids(scenarios))
      BY <3>1 DEF CorpusErrors, Broken
    <3>3. corpus[n].id \in ToSet(Ids(corpus))
      BY <2>6 DEF ToSet, Ids
    <3> QED
      BY <3>2, <3>3 DEF IInv, Loaded
  <2>8. PICK k \in DOMAIN scenarios : corpus[n].id = scenarios[k].id
    BY <2>7 DEF ToSet, Ids
  <2>9. Rank(corpus[n].id) = k
    BY <2>8, RankIsPlace DEF IInv, Loaded
  <2>10. ASSUME i < n PROVE FALSE
    <3>1. m < k \/ m = k
      BY <2>5, <2>6, <2>9, <2>10 DEF IInv, Loaded
    <3>2. corpus[n].id = corpus[i].id
      BY <2>2, <2>4, <2>8, <3>1 DEF Last
    <3> QED
      BY <2>6, <2>10, <3>2 DEF IInv, Loaded
  <2> QED
    BY <2>3, <2>6, <2>10
<1> QED
  BY <1>1, LedgerInvariant, PTL

-----------------------------------------------------------------------------
(* Places in a sequence, counted in their order. *)

(* How many places up to i there are is at most the number of all, and more for a
   later place. *)
LEMMA RanksRise ==
  ASSUME NEW S \in SUBSET Nat, IsFiniteSet(S)
  PROVE  /\ Cardinality(S) \in Nat
         /\ \A i \in S : Cardinality({j \in S : j <= i}) \in 1 .. Cardinality(S)
         /\ \A i, j \in S : i < j =>
              Cardinality({n \in S : n <= i}) < Cardinality({n \in S : n <= j})
<1> DEFINE UpTo(i) == {j \in S : j <= i}
<1>1. Cardinality(S) \in Nat
  BY FS_CardinalityType
<1>2. ASSUME NEW i \in S
      PROVE  /\ IsFiniteSet(UpTo(i))
             /\ Cardinality(UpTo(i)) \in Nat /\ Cardinality(UpTo(i)) <= Cardinality(S)
  <2>1. UpTo(i) \in SUBSET S
    OBVIOUS
  <2> HIDE DEF UpTo
  <2>2. IsFiniteSet(UpTo(i)) /\ Cardinality(UpTo(i)) <= Cardinality(S)
    BY <2>1, FS_Subset
  <2> QED
    BY <2>2, FS_CardinalityType
<1>3. ASSUME NEW i \in S PROVE Cardinality(UpTo(i)) # 0
  <2>1. i \in UpTo(i)
    OBVIOUS
  <2> HIDE DEF UpTo
  <2> QED
    BY <1>2, <2>1, FS_EmptySet
<1>4. ASSUME NEW i \in S, NEW j \in S, i < j PROVE Cardinality(UpTo(i)) < Cardinality(UpTo(j))
  <2>0. i \in Nat /\ j \in Nat /\ \A n \in S : n \in Nat
    OBVIOUS
  <2>1. UpTo(i) \in SUBSET UpTo(j) /\ j \in UpTo(j) /\ j \notin UpTo(i)
    <3>1. \A n \in S : n <= i => n <= j
      BY <1>4, <2>0
    <3>2. j <= j /\ ~ (j <= i)
      BY <1>4, <2>0
    <3> QED
      BY <3>1, <3>2
  <2> HIDE DEF UpTo
  <2>2. Cardinality(UpTo(i)) <= Cardinality(UpTo(j)) /\ Cardinality(UpTo(i)) # Cardinality(UpTo(j))
    <3>1. IsFiniteSet(UpTo(j))
      BY <1>2
    <3>2. Cardinality(UpTo(j)) = Cardinality(UpTo(i)) => UpTo(j) = UpTo(i)
      BY <2>1, <3>1, FS_Subset
    <3>3. Cardinality(UpTo(i)) <= Cardinality(UpTo(j))
      BY <2>1, <3>1, FS_Subset
    <3> QED
      BY <2>1, <3>2, <3>3
  <2> QED
    BY <1>2, <2>2
<1>5. \A i \in S : Cardinality(UpTo(i)) \in 1 .. Cardinality(S)
  <2> HIDE DEF UpTo
  <2> QED
    BY <1>1, <1>2, <1>3
<1> QED
  BY <1>1, <1>4, <1>5

(* The k-th place is there for each k, and each place is the k-th for one k. *)
LEMMA NthIs ==
  ASSUME NEW S \in SUBSET Nat, IsFiniteSet(S)
  PROVE  /\ \A k \in 1 .. Cardinality(S) :
              Nth(S, k) \in S /\ Cardinality({j \in S : j <= Nth(S, k)}) = k
         /\ \A i \in S : Nth(S, Cardinality({j \in S : j <= i})) = i
         /\ \A i \in S : \E k \in 1 .. Cardinality(S) : Nth(S, k) = i
         /\ \A k, m \in 1 .. Cardinality(S) : Nth(S, m) <= Nth(S, k) <=> m <= k
<1> DEFINE rank == [i \in S |-> Cardinality({j \in S : j <= i})]
           all == 1 .. Cardinality(S)
<1>1. Cardinality(S) \in Nat /\ rank \in [S -> all] /\ \A i, j \in S : i < j => rank[i] < rank[j]
  BY RanksRise
<1>2. \A i \in S : rank[i] = Cardinality({j \in S : j <= i})
  OBVIOUS
<1> HIDE DEF rank
<1>3. \A i, j \in S : rank[i] = rank[j] => i = j
  <2> SUFFICES ASSUME NEW i \in S, NEW j \in S, rank[i] = rank[j], i # j PROVE FALSE
    OBVIOUS
  <2>1. i \in Nat /\ j \in Nat /\ rank[i] \in Nat /\ rank[j] \in Nat
    BY <1>1
  <2>2. i < j \/ j < i
    BY <2>1
  <2> QED
    BY <1>1, <2>1, <2>2
<1>4. rank \in Injection(S, all)
  BY <1>1, <1>3 DEF Injection, IsInjective
<1>5. IsFiniteSet(all) /\ Cardinality(all) = Cardinality(S)
  BY <1>1, FS_Interval
<1>6. rank \in Surjection(S, all)
  <2> HIDE DEF all
  <2> QED
    BY <1>4, <1>5, FS_Injection
<1>7. \A k \in all : \E i \in S : rank[i] = k
  BY <1>6 DEF Surjection
<1>8. \A k \in all : Nth(S, k) \in S /\ rank[Nth(S, k)] = k
  BY <1>2, <1>7 DEF Nth
<1>9. \A i \in S : Nth(S, rank[i]) = i
  BY <1>1, <1>3, <1>8
<1>10. ASSUME NEW k \in all, NEW m \in all PROVE Nth(S, m) <= Nth(S, k) <=> m <= k
  <2> DEFINE a == Nth(S, m)
             b == Nth(S, k)
  <2>1. a \in S /\ b \in S /\ rank[a] = m /\ rank[b] = k
    BY <1>8
  <2>2. a \in Nat /\ b \in Nat /\ m \in Nat /\ k \in Nat
    <3>1. a \in Nat /\ b \in Nat
      BY <2>1
    <3>2. m \in Nat /\ k \in Nat
      BY <1>1
    <3> QED
      BY <3>1, <3>2
  <2>3. (a < b => m < k) /\ (b < a => k < m)
    BY <1>1, <2>1
  <2> HIDE DEF a, b
  <2>4. a <= b <=> m <= k
    BY <2>1, <2>2, <2>3
  <2> QED
    BY <2>4 DEF a, b
<1>11. \A i \in S : \E k \in all : Nth(S, k) = i
  BY <1>1, <1>9
<1> QED
  BY <1>2, <1>8, <1>9, <1>10, <1>11

(* Some of the chosen places, chosen by their number, are places of their own. *)
LEMMA AtParts ==
  ASSUME NEW s, NEW S \in SUBSET Nat, IsFiniteSet(S), NEW T \in SUBSET (1 .. Cardinality(S))
  PROVE  At(At(s, S), T) = At(s, {Nth(S, k) : k \in T})
<1> DEFINE A == {Nth(S, k) : k \in T}
<1>1. Cardinality(S) \in Nat /\ T \in SUBSET Nat /\ IsFiniteSet(T)
  <2>1. Cardinality(S) \in Nat
    BY FS_CardinalityType
  <2>2. IsFiniteSet(1 .. Cardinality(S))
    BY <2>1, FS_Interval
  <2>3. T \in SUBSET Nat
    BY <2>1
  <2>4. IsFiniteSet(T)
    BY <2>2, FS_Subset
  <2> QED
    BY <2>1, <2>3, <2>4
<1>2. A \in SUBSET S
  <2>1. \A k \in 1 .. Cardinality(S) : Nth(S, k) \in S
    BY NthIs
  <2> QED
    BY <2>1
<1>3. A \in SUBSET Nat /\ IsFiniteSet(A)
  <2> HIDE DEF A
  <2> QED
    BY <1>2, FS_Subset
<1>4. \A k, m \in T : (Nth(S, m) <= Nth(S, k) <=> m <= k) /\ (Nth(S, m) = Nth(S, k) => m = k)
  <2>1. \A k \in T : k \in 1 .. Cardinality(S)
    OBVIOUS
  <2>2. \A k, m \in T : Nth(S, m) <= Nth(S, k) <=> m <= k
    BY <2>1, NthIs
  <2>3. \A k \in T : k \in 1 .. Cardinality(S) /\ Cardinality({j \in S : j <= Nth(S, k)}) = k
    BY <2>1, NthIs
  <2> QED
    BY <2>2, <2>3
<1>5. ASSUME NEW U \in SUBSET T PROVE Cardinality({Nth(S, k) : k \in U}) = Cardinality(U)
  <2> DEFINE f == [k \in U |-> Nth(S, k)]
             B == {Nth(S, k) : k \in U}
  <2>1. f \in Bijection(U, B)
    BY <1>4 DEF Bijection, Injection, Surjection, IsInjective
  <2>2. ExistsBijection(U, B)
    BY <2>1 DEF ExistsBijection
  <2>3. IsFiniteSet(U)
    BY <1>1, FS_Subset
  <2> HIDE DEF B
  <2>4. Cardinality(B) = Cardinality(U)
    BY <2>2, <2>3, FS_Bijection
  <2> QED
    BY <2>4 DEF B
<1>6. Cardinality(A) = Cardinality(T)
  BY <1>5
<1>7. ASSUME NEW k \in 1 .. Cardinality(T)
      PROVE  Nth(A, k) = Nth(S, Nth(T, k)) /\ Nth(T, k) \in 1 .. Cardinality(S)
  <2> DEFINE m == Nth(T, k)
  <2>1. m \in T /\ Cardinality({j \in T : j <= m}) = k
    BY <1>1, NthIs
  <2> HIDE DEF m
  <2>2. {j \in A : j <= Nth(S, m)} = {Nth(S, j) : j \in {n \in T : n <= m}}
    BY <1>4, <2>1
  <2>3. Cardinality({j \in A : j <= Nth(S, m)}) = k
    BY <1>5, <2>1, <2>2
  <2>4. Nth(S, m) \in A
    BY <2>1
  <2> HIDE DEF A
  <2>5. Nth(A, k) = Nth(S, m)
    BY <1>3, <2>3, <2>4, NthIs
  <2> QED
    BY <2>1, <2>5 DEF m
<1> HIDE DEF A
<1>8. At(At(s, S), T) = At(s, A)
  BY <1>6, <1>7 DEF At
<1> QED
  BY <1>8 DEF A

(* At looks at nothing but the places. *)
LEMMA AtReads ==
  ASSUME NEW s, NEW u, NEW S \in SUBSET Nat, IsFiniteSet(S), \A i \in S : s[i] = u[i]
  PROVE  At(s, S) = At(u, S)
<1>1. \A k \in 1 .. Cardinality(S) : Nth(S, k) \in S
  BY NthIs
<1> QED
  BY <1>1 DEF At

(* What At finds is at the places, and all that is there. *)
LEMMA AtFinds ==
  ASSUME NEW s, NEW S \in SUBSET Nat, IsFiniteSet(S)
  PROVE  /\ DOMAIN At(s, S) = 1 .. Cardinality(S)
         /\ ToSet(At(s, S)) = {s[i] : i \in S}
<1>1. /\ DOMAIN At(s, S) = 1 .. Cardinality(S)
      /\ \A k \in 1 .. Cardinality(S) : At(s, S)[k] = s[Nth(S, k)]
  BY DEF At
<1>2. \A k \in 1 .. Cardinality(S) : Nth(S, k) \in S
  BY NthIs
<1>3. \A i \in S : \E k \in 1 .. Cardinality(S) : Nth(S, k) = i
  BY NthIs
<1>4. ToSet(At(s, S)) = {At(s, S)[k] : k \in 1 .. Cardinality(S)}
  BY <1>1 DEF ToSet
<1>5. ToSet(At(s, S)) = {s[Nth(S, k)] : k \in 1 .. Cardinality(S)}
  BY <1>1, <1>4
<1>6. {s[Nth(S, k)] : k \in 1 .. Cardinality(S)} = {s[i] : i \in S}
  BY <1>2, <1>3
<1> QED
  BY <1>1, <1>5, <1>6

(* Where two selections agree, so do the parts of them that are in Q. *)
LEMMA PartsAgree ==
  ASSUME NEW s, NEW S \in SUBSET Nat, IsFiniteSet(S),
         NEW u, NEW U \in SUBSET Nat, IsFiniteSet(U), At(s, S) = At(u, U),
         NEW Q, NEW A \in SUBSET S, \A i \in S : i \in A <=> s[i] \in Q,
         NEW B \in SUBSET U, \A i \in U : i \in B <=> u[i] \in Q
  PROVE  At(s, A) = At(u, B)
<1> DEFINE T == {k \in 1 .. Cardinality(S) : At(s, S)[k] \in Q}
<1>1. \A k \in 1 .. Cardinality(S) : At(s, S)[k] = s[Nth(S, k)]
  BY DEF At
<1>2. \A k \in 1 .. Cardinality(U) : At(u, U)[k] = u[Nth(U, k)]
  BY DEF At
<1>3. 1 .. Cardinality(S) = 1 .. Cardinality(U)
  BY AtFinds
<1>4. A = {Nth(S, k) : k \in T}
  <2>1. \A k \in 1 .. Cardinality(S) : Nth(S, k) \in S
    BY NthIs
  <2>2. \A i \in S : \E k \in 1 .. Cardinality(S) : Nth(S, k) = i
    BY NthIs
  <2> QED
    BY <1>1, <2>1, <2>2
<1>5. B = {Nth(U, k) : k \in T}
  <2>1. \A k \in 1 .. Cardinality(U) : Nth(U, k) \in U
    BY NthIs
  <2>2. \A i \in U : \E k \in 1 .. Cardinality(U) : Nth(U, k) = i
    BY NthIs
  <2>3. T = {k \in 1 .. Cardinality(U) : At(u, U)[k] \in Q}
    BY <1>3
  <2> QED
    BY <1>2, <2>1, <2>2, <2>3
<1>6. T \in SUBSET (1 .. Cardinality(S)) /\ T \in SUBSET (1 .. Cardinality(U))
  BY <1>3
<1> HIDE DEF T
<1>7. At(At(s, S), T) = At(s, {Nth(S, k) : k \in T})
  BY <1>6, AtParts
<1>8. At(At(u, U), T) = At(u, {Nth(U, k) : k \in T})
  BY <1>6, AtParts
<1> QED
  BY <1>4, <1>5, <1>7, <1>8

-----------------------------------------------------------------------------
(* The walk through the required ids *)

LEMMA SomeLeast ==
  ASSUME NEW S \in SUBSET Nat, S # {}
  PROVE  \E x \in S : \A y \in S : x <= y
<1>1. PICK x \in S : \A y \in S : ~(<<y, x>> \in OpToRel(<, Nat))
  BY NatLessThanWellFounded, WFMin
<1>2. \A y, z \in Nat : y < z => <<y, z>> \in OpToRel(<, Nat)
  BY DEF OpToRel
<1>3. ASSUME NEW y \in S PROVE x <= y
  <2>1. x \in Nat /\ y \in Nat
    OBVIOUS
  <2>2. ~(y < x)
    BY <1>1, <1>2, <2>1, Zenon
  <2> QED
    BY <2>1, <2>2
<1> QED
  BY <1>3

(* What one more of the actual ids makes of the number met. *)
Further(required, actual, m, n) ==
  IF m < Len(required) /\ actual[n] = required[m + 1] THEN m + 1 ELSE m

LEMMA FurtherIsBounded ==
  ASSUME NEW required, Len(required) \in Nat, NEW actual, NEW n, NEW m \in 0 .. Len(required)
  PROVE  /\ Further(required, actual, m, n) \in 0 .. Len(required)
         /\ Further(required, actual, m, n) \in {m, m + 1}
         /\ Further(required, actual, m, n) = m + 1 => actual[n] = required[m + 1]
  BY DEF Further

(* There is a walk through any number of actual ids: a shorter one goes on. *)
LEMMA SomeWalk ==
  ASSUME NEW required, Len(required) \in Nat, NEW actual, NEW last \in Nat
  PROVE  \E f \in [0 .. last -> 0 .. Len(required)] :
           f[0] = 0 /\ \A n \in 1 .. last : f[n] = Further(required, actual, f[n - 1], n)
<1> DEFINE Walk(f, l) ==
             f[0] = 0 /\ \A n \in 1 .. l : f[n] = Further(required, actual, f[n - 1], n)
           without == {l \in Nat : ~\E f \in [0 .. l -> 0 .. Len(required)] : Walk(f, l)}
<1>1. SUFFICES ASSUME without # {} PROVE FALSE
  BY <1>1
<1>2. PICK l \in without : \A k \in without : l <= k
  BY <1>1, SomeLeast
<1>3. CASE l = 0
  <2> DEFINE f == [n \in 0 .. 0 |-> 0]
  <2>1. f \in [0 .. l -> 0 .. Len(required)] /\ Walk(f, l)
    BY <1>3
  <2> QED
    BY <2>1
<1>4. CASE l # 0
  <2>1. l \in Nat /\ l - 1 \in Nat /\ l - 1 < l
    BY <1>4
  <2>2. l - 1 \notin without
    <3>1. \A k \in without : l <= k
      BY <1>2
    <3> HIDE DEF without
    <3> QED
      BY <2>1, <3>1
  <2>3. PICK f \in [0 .. (l - 1) -> 0 .. Len(required)] : Walk(f, l - 1)
    BY <2>1, <2>2
  <2> DEFINE g == [n \in 0 .. l |-> IF n = l THEN Further(required, actual, f[l - 1], l) ELSE f[n]]
  <2>4. f[l - 1] \in 0 .. Len(required)
    BY <2>1
  <2>5. Further(required, actual, f[l - 1], l) \in 0 .. Len(required)
    BY <2>4, FurtherIsBounded
  <2>6. \A n \in 0 .. l : n # l => n \in 0 .. (l - 1)
    BY <2>1
  <2>7. g \in [0 .. l -> 0 .. Len(required)]
    BY <2>5, <2>6
  <2>8. g[0] = 0
    BY <1>4, <2>1, <2>3
  <2>9. ASSUME NEW n \in 1 .. l PROVE g[n] = Further(required, actual, g[n - 1], n)
    <3>1. n \in 0 .. l /\ n - 1 \in 0 .. l /\ n - 1 # l /\ (n = l \/ n \in 1 .. (l - 1))
      BY <2>1
    <3>2. g[n - 1] = f[n - 1]
      BY <3>1
    <3>3. CASE n = l
      BY <3>1, <3>2, <3>3
    <3>4. CASE n # l
      BY <2>3, <3>1, <3>2, <3>4
    <3> QED
      BY <3>3, <3>4
  <2> QED
    BY <2>7, <2>8, <2>9
<1> QED
  BY <1>3, <1>4

(* Met is such a walk. *)
LEMMA MetIsWalked ==
  ASSUME NEW required, Len(required) \in Nat, NEW actual, Len(actual) \in Nat
  PROVE  LET met == Met(required, actual) IN
         /\ met[0] = 0
         /\ \A n \in 1 .. Len(actual) : met[n] = Further(required, actual, met[n - 1], n)
         /\ \A n \in 0 .. Len(actual) : met[n] \in 0 .. Len(required)
<1> DEFINE met == Met(required, actual)
           last == Len(actual)
           Walked(f) ==
             [n \in 0 .. last |-> IF n = 0 THEN 0 ELSE Further(required, actual, f[n - 1], n)]
<1>1. PICK f \in [0 .. last -> 0 .. Len(required)] :
        f[0] = 0 /\ \A n \in 1 .. last : f[n] = Further(required, actual, f[n - 1], n)
  BY SomeWalk
<1>2. \A n \in 0 .. last : n # 0 => n \in 1 .. last
  OBVIOUS
<1>3. f = Walked(f)
  BY <1>1, <1>2
<1>4. met = CHOOSE g : g = Walked(g)
  BY DEF Met, Further
<1>5. met = Walked(met)
  <2> HIDE DEF met, Walked
  <2> QED
    BY <1>3, <1>4
<1> HIDE DEF met
<1>6. met[0] = 0 /\ \A n \in 1 .. last : met[n] = Further(required, actual, met[n - 1], n)
  BY <1>5
<1> DEFINE outside == {n \in 0 .. last : met[n] \notin 0 .. Len(required)}
<1>7. outside = {}
  <2>1. SUFFICES ASSUME outside # {} PROVE FALSE
    OBVIOUS
  <2>0. outside \in SUBSET Nat
    OBVIOUS
  <2>2. PICK n \in outside : \A k \in outside : n <= k
    <3> HIDE DEF outside
    <3> QED
      BY <2>0, <2>1, SomeLeast
  <2>3. n \in 1 .. last /\ n - 1 \in 0 .. last /\ n - 1 < n
    BY <1>6
  <2>4. met[n - 1] \in 0 .. Len(required)
    BY <2>2, <2>3
  <2> QED
    BY <1>6, <2>3, <2>4, FurtherIsBounded
<1> QED
  BY <1>6, <1>7 DEF met

\* The required ids are at places of the actual, one after the other.
Placed(required, actual) ==
  \E at \in [1 .. Len(required) -> 1 .. Len(actual)] :
    \A i \in 1 .. Len(required) : /\ actual[at[i]] = required[i]
                                  /\ \A j \in 1 .. (i - 1) : at[j] < at[i]

(* Where the walk first has met i of the required ids is a place of the i-th. *)
LEMMA SubsequenceHasPlaces ==
  ASSUME NEW required, Len(required) \in Nat, NEW actual, Len(actual) \in Nat,
         IsSubsequence(required, actual)
  PROVE  Placed(required, actual)
<1> DEFINE met == Met(required, actual)
           last == Len(actual)
           Reached(i) == {n \in 0 .. last : i <= met[n]}
           Least(i) == CHOOSE n \in Reached(i) : \A k \in Reached(i) : n <= k
           at == [i \in 1 .. Len(required) |-> Least(i)]
<1>1. /\ met[0] = 0
      /\ \A n \in 1 .. last : met[n] = Further(required, actual, met[n - 1], n)
      /\ \A n \in 0 .. last : met[n] \in 0 .. Len(required)
  BY MetIsWalked
<1>2. met[last] = Len(required)
  BY DEF IsSubsequence
<1> HIDE DEF met
<1>3. ASSUME NEW i \in 1 .. Len(required)
      PROVE  Least(i) \in Reached(i) /\ \A k \in Reached(i) : Least(i) <= k
  <2>1. last \in Reached(i)
    BY <1>2
  <2>2. Reached(i) \in SUBSET Nat
    OBVIOUS
  <2> HIDE DEF Reached
  <2>3. \E n \in Reached(i) : \A k \in Reached(i) : n <= k
    BY <2>1, <2>2, SomeLeast
  <2> QED
    BY <2>3
<1> HIDE DEF Least
<1>4. ASSUME NEW i \in 1 .. Len(required)
      PROVE  Least(i) \in 1 .. last /\ actual[Least(i)] = required[i] /\ met[Least(i) - 1] = i - 1
  <2>1. Least(i) \in 0 .. last /\ i <= met[Least(i)]
    BY <1>3
  <2>2. Least(i) \in 1 .. last /\ Least(i) - 1 \in 0 .. last /\ Least(i) - 1 < Least(i)
    BY <1>1, <2>1
  <2>3. ~(i <= met[Least(i) - 1])
    BY <1>3, <2>2
  <2>4. met[Least(i) - 1] \in 0 .. Len(required) /\ met[Least(i)] \in 0 .. Len(required)
    BY <1>1, <2>2
  <2>5. met[Least(i)] = Further(required, actual, met[Least(i) - 1], Least(i))
    BY <1>1, <2>2
  <2>6. /\ met[Least(i)] \in {met[Least(i) - 1], met[Least(i) - 1] + 1}
        /\ met[Least(i)] = met[Least(i) - 1] + 1 =>
             actual[Least(i)] = required[met[Least(i) - 1] + 1]
    BY <2>4, <2>5, FurtherIsBounded
  <2>7. met[Least(i)] = met[Least(i) - 1] + 1 /\ met[Least(i) - 1] = i - 1
    BY <2>1, <2>3, <2>4, <2>6
  <2>8. met[Least(i) - 1] + 1 = i
    BY <2>7
  <2> QED
    BY <2>2, <2>6, <2>7, <2>8
<1>5. ASSUME NEW i \in 1 .. Len(required), NEW j \in 1 .. (i - 1) PROVE Least(j) < Least(i)
  <2>1. j \in 1 .. Len(required) /\ j <= i - 1
    OBVIOUS
  <2>2. Least(i) \in 1 .. last /\ met[Least(i) - 1] = i - 1
    BY <1>4
  <2>3. Least(i) - 1 \in Reached(j)
    BY <2>1, <2>2
  <2>4. Least(j) <= Least(i) - 1 /\ Least(j) \in 1 .. last
    BY <1>3, <1>4, <2>1, <2>3
  <2> QED
    BY <2>2, <2>4
<1>6. at \in [1 .. Len(required) -> 1 .. last]
  BY <1>4
<1>7. \A i \in 1 .. Len(required) : \A j \in 1 .. (i - 1) : j \in 1 .. Len(required)
  OBVIOUS
<1>8. \A i \in 1 .. Len(required) : /\ actual[at[i]] = required[i]
                                    /\ \A j \in 1 .. (i - 1) : at[j] < at[i]
  BY <1>4, <1>5, <1>7
<1> QED
  BY <1>6, <1>8 DEF Placed

-----------------------------------------------------------------------------
(* Verdicts on a step with a matrix *)

\* What was accepted is allowed, and what the verdicts say of the replies is so.
Judged ==
  /\ matrix \in Matrices
  /\ standing \in {"read", "accepted", "rejected", "passed", "failed", "crashed"}
  /\ standing \notin {"read", "rejected"} => Allowed(matrix)
  /\ reply # Absent => reply \in [Targets -> Replies[matrix.branding]]
  /\ standing \in {"passed", "crashed"} => reply # Absent /\ \A t \in Targets : TargetKept(t)
  /\ standing = "passed" => Holds
  /\ standing = "crashed" => Crashes

LEMMA VerdictStays ==
  ASSUME UNCHANGED <<category, matrix, prior, reply>>
  PROVE  /\ Allowed(matrix)' <=> Allowed(matrix)
         /\ (\A t \in Targets : TargetKept(t))' <=> (\A t \in Targets : TargetKept(t))
         /\ Holds' <=> Holds
         /\ Crashes' <=> Crashes
<1>1. Allowed(matrix)' <=> Allowed(matrix)
  BY DEF Allowed, WaiverAllowed
<1>2. (\A t \in Targets : TargetKept(t))' <=> (\A t \in Targets : TargetKept(t))
  BY DEF TargetKept
<1>3. (\A t \in Targets : BotIsThere(t))' <=> (\A t \in Targets : BotIsThere(t))
  BY DEF BotIsThere, BotAt
<1>4. SelectedAgree' <=> SelectedAgree
  BY DEF SelectedAgree, Compared, WithoutBot, Humans, BotAt
<1>5. RestAgrees' <=> RestAgrees
  BY DEF RestAgrees, Stripped, Kept
<1>6. EarlierAgrees' <=> EarlierAgrees
  BY DEF EarlierAgrees
<1>7. Holds' <=> Holds
  BY <1>3, <1>4, <1>5, <1>6 DEF Holds
<1>8. Crashes' <=> Crashes
  BY DEF Crashes
<1> QED
  BY <1>1, <1>2, <1>7, <1>8

THEOREM VerdictsAreKept == MatrixSpec => []Judged
<1>1. MatrixInit => Judged
  BY DEF MatrixInit, Judged
<1>2. Judged /\ [MatrixNext]_matrixVars => Judged'
  <2> SUFFICES ASSUME Judged, [MatrixNext]_matrixVars PROVE Judged'
    OBVIOUS
  <2>1. CASE Validate
    <3>1. Allowed(matrix)' <=> Allowed(matrix)
      BY <2>1, VerdictStays DEF Validate
    <3> QED
      BY <2>1, <3>1 DEF Validate, Judged
  <2>2. CASE EarlierStep
    <3>1. Allowed(matrix)'
      BY <2>2 DEF EarlierStep, Judged, Allowed, WaiverAllowed
    <3> QED
      BY <2>2, <3>1 DEF EarlierStep, Judged
  <2>3. CASE Answer
    <3>1. Allowed(matrix)'
      BY <2>3 DEF Answer, Judged, Allowed, WaiverAllowed
    <3> QED
      BY <2>3, <3>1 DEF Answer, Judged
  <2>4. CASE CheckPolicy
    <3>1. UNCHANGED <<category, matrix, prior, reply>>
      BY <2>4 DEF CheckPolicy
    <3>2. Allowed(matrix)' /\ reply' # Absent /\ standing' \in {"passed", "failed", "crashed"}
      BY <2>4, <3>1, VerdictStays DEF CheckPolicy, Judged
    <3>3. standing' \in {"passed", "crashed"} => (\A t \in Targets : TargetKept(t))'
      BY <2>4, <3>1, VerdictStays DEF CheckPolicy
    <3>4. (standing' = "passed" => Holds') /\ (standing' = "crashed" => Crashes')
      BY <2>4, <3>1, VerdictStays DEF CheckPolicy
    <3> QED
      BY <3>1, <3>2, <3>3, <3>4 DEF Judged
  <2>5. CASE UNCHANGED matrixVars
    <3>1. UNCHANGED <<category, matrix, prior, reply>> /\ standing' = standing
      BY <2>5 DEF matrixVars
    <3> QED
      BY <3>1, VerdictStays DEF Judged
  <2> QED
    BY <2>1, <2>2, <2>3, <2>4, <2>5 DEF MatrixNext
<1> QED
  BY <1>1, <1>2, PTL DEF MatrixSpec

(* The replies are sequences of packets; where they have packets are naturals. *)
LEMMA RepliesAreLists ==
  ASSUME Judged, standing = "passed", NEW t \in Targets
  PROVE  /\ matrix.branding \in BOOLEAN
         /\ reply[t].packets \in Seq(ToSet(reply[t].packets))
         /\ \A i \in DOMAIN reply[t].packets : reply[t].packets[i].list \in Seq(Users)
         /\ Len(reply[t].packets) \in Nat
         /\ DOMAIN reply[t].packets = 1 .. Len(reply[t].packets)
         /\ \A S \in SUBSET DOMAIN reply[t].packets : S \in SUBSET Nat /\ IsFiniteSet(S)
<1>1. matrix.branding \in BOOLEAN /\ reply[t] \in Replies[matrix.branding]
  BY MatrixAssumption DEF Judged
<1>2. /\ reply[t].packets \in Seq(ToSet(reply[t].packets))
      /\ \A p \in ToSet(reply[t].packets) : p.list \in Seq(Users)
  BY <1>1, MatrixAssumption
<1>3. Len(reply[t].packets) \in Nat /\ DOMAIN reply[t].packets = 1 .. Len(reply[t].packets)
  BY <1>2, LenProperties
<1>4. \A i \in DOMAIN reply[t].packets : reply[t].packets[i] \in ToSet(reply[t].packets)
  BY <1>2, <1>3, ElementOfSeq
<1>5. IsFiniteSet(DOMAIN reply[t].packets)
  BY <1>3, FS_Interval
<1>6. \A S \in SUBSET DOMAIN reply[t].packets : IsFiniteSet(S)
  BY <1>5, FS_Subset
<1>7. DOMAIN reply[t].packets \in SUBSET Nat
  BY <1>3
<1> QED
  BY <1>1, <1>2, <1>3, <1>4, <1>6, <1>7

-----------------------------------------------------------------------------
(* Shared packets behind removals *)

LEMMA NothingIsHidden == Judged => NothingSharedHidden
<1> SUFFICES ASSUME Judged, standing = "passed", matrix.removals # Absent
             PROVE  OfIds(reply["zigcho"].packets, Shared) =
                    OfIds(reply["reference"].packets, Shared)
  BY DEF NothingSharedHidden
<1> DEFINE z == reply["zigcho"].packets
           r == reply["reference"].packets
           Q == {p \in ToSet(z) \cup ToSet(r) : p.id \in Shared}
<1>1. "zigcho" \in Targets /\ "reference" \in Targets
  BY DEF Targets
<1>2. At(z, Kept("zigcho")) = At(r, Kept("reference"))
  BY DEF Judged, Holds, RestAgrees, Stripped
<1>3. ASSUME NEW t \in Targets
      PROVE  /\ Kept(t) \in SUBSET Nat /\ IsFiniteSet(Kept(t))
             /\ {i \in Kept(t) : reply[t].packets[i].id \in Shared} =
                {i \in DOMAIN reply[t].packets : reply[t].packets[i].id \in Shared}
  <2>1. Kept(t) \in SUBSET DOMAIN reply[t].packets
    BY DEF Kept
  <2>2. Other(t) \in Targets
    BY DEF Other, Targets
  <2>3. \A p \in Shared : p \notin matrix.removals[t]
    BY <2>2 DEF Judged, Allowed, RemovalAllowed, Shared
  <2> QED
    BY <2>1, <2>3, RepliesAreLists DEF Kept
<1>4. ASSUME NEW t \in Targets, NEW S \in SUBSET DOMAIN reply[t].packets
      PROVE  \A i \in S : reply[t].packets[i] \in ToSet(reply[t].packets)
  BY RepliesAreLists, ElementOfSeq
<1>5. {i \in Kept("zigcho") : z[i] \in Q} = {i \in Kept("zigcho") : z[i].id \in Shared}
  BY <1>1, <1>4 DEF Kept
<1>6. {i \in Kept("reference") : r[i] \in Q} = {i \in Kept("reference") : r[i].id \in Shared}
  BY <1>1, <1>4 DEF Kept
<1> HIDE DEF Q, z, r
<1>7. At(z, {i \in Kept("zigcho") : z[i] \in Q}) = At(r, {i \in Kept("reference") : r[i] \in Q})
  <2>1. /\ Kept("zigcho") \in SUBSET Nat /\ IsFiniteSet(Kept("zigcho"))
        /\ Kept("reference") \in SUBSET Nat /\ IsFiniteSet(Kept("reference"))
    BY <1>1, <1>3
  <2> DEFINE S == Kept("zigcho")
             U == Kept("reference")
  <2>2. /\ S \in SUBSET Nat /\ IsFiniteSet(S) /\ U \in SUBSET Nat /\ IsFiniteSet(U)
        /\ At(z, S) = At(r, U)
    BY <1>2, <2>1
  <2> HIDE DEF S, U
  <2> DEFINE A == {i \in S : z[i] \in Q}
             B == {i \in U : r[i] \in Q}
  <2>3. /\ A \in SUBSET S /\ \A i \in S : i \in A <=> z[i] \in Q
        /\ B \in SUBSET U /\ \A i \in U : i \in B <=> r[i] \in Q
    OBVIOUS
  <2> HIDE DEF A, B
  <2>4. At(z, A) = At(r, B)
    BY <2>2, <2>3, PartsAgree
  <2> QED
    BY <2>4 DEF A, B, S, U
<1> QED
  BY <1>1, <1>3, <1>5, <1>6, <1>7 DEF OfIds, z, r

(* What both servers may send is compared, whatever else is removed. *)
THEOREM RemovalsHideNothingShared == MatrixSpec => []NothingSharedHidden
  BY VerdictsAreKept, NothingIsHidden, PTL

-----------------------------------------------------------------------------
(* Required packets *)

LEMMA RequiredAreInOrder == Judged => RequiredInOrder
<1> SUFFICES ASSUME Judged, standing = "passed", NEW t \in Targets,
                    matrix.targets[t].required # Absent, matrix.targets[t].packetIds = Absent
             PROVE  \E at \in [DOMAIN matrix.targets[t].required -> DOMAIN PacketIds(reply[t])] :
                      \A i \in DOMAIN at :
                        /\ PacketIds(reply[t])[at[i]] = matrix.targets[t].required[i]
                        /\ \A j \in 1 .. (i - 1) : at[j] < at[i]
  BY DEF RequiredInOrder
<1> DEFINE required == matrix.targets[t].required
           ids == PacketIds(reply[t])
<1>1. Len(required) \in Nat /\ DOMAIN required = 1 .. Len(required)
  BY MatrixAssumption, LenProperties DEF Judged
<1>2. Len(ids) \in Nat /\ DOMAIN ids = 1 .. Len(ids)
  <2>1. ids \in Seq({reply[t].packets[i].id : i \in DOMAIN reply[t].packets})
    BY RepliesAreLists DEF PacketIds
  <2> QED
    BY <2>1, LenProperties
<1>3. IsSubsequence(required, ids)
  BY DEF Judged, TargetKept, HasContract, ContractKept
<1> HIDE DEF required, ids
<1>4. Placed(required, ids)
  BY <1>1, <1>2, <1>3, SubsequenceHasPlaces
<1>5. PICK at \in [1 .. Len(required) -> 1 .. Len(ids)] :
        \A i \in 1 .. Len(required) : /\ ids[at[i]] = required[i]
                                      /\ \A j \in 1 .. (i - 1) : at[j] < at[i]
  BY <1>4 DEF Placed
<1> QED
  BY <1>1, <1>2, <1>5 DEF required, ids

(* A required list of ids is met in its order, whatever lies between. *)
THEOREM RequiredIdsAreInOrder == MatrixSpec => []RequiredInOrder
  BY VerdictsAreKept, RequiredAreInOrder, PTL

-----------------------------------------------------------------------------
(* Declared packets, and waivers *)

LEMMA OnlyDeclaredPass == Judged => OnlyDeclaredPackets
<1> SUFFICES ASSUME Judged, standing = "passed", NEW t \in Targets
             PROVE  \/ ToSet(PacketIds(reply[t])) \subseteq Possible(matrix.targets[t])
                    \/ t = "reference" /\ matrix.attestation # Absent
                    \/ category = "malformed-input" /\ matrix.targets[t].uncompared
  BY DEF OnlyDeclaredPackets
<1>1. ContractAllowed(matrix.targets[t]) /\ WaiverAllowed(matrix) /\ TargetKept(t)
  BY DEF Judged, Allowed
<1>2. CASE HasContract(matrix.targets[t])
  <2>1. ContractKept(matrix.targets[t], reply[t])
    BY <1>1, <1>2 DEF TargetKept
  <2> QED
    BY <1>1, <1>2, <2>1 DEF ContractKept, ContractAllowed, HasContract, Possible
<1>3. CASE ~HasContract(matrix.targets[t])
  <2>1. matrix.targets[t].uncompared /\ t \in Waived(matrix)
    BY <1>1, <1>3 DEF ContractAllowed, Waived
  <2> QED
    BY <1>1, <2>1, MatrixAssumption DEF WaiverAllowed
<1> QED
  BY <1>2, <1>3

(* No reply passes with a packet nobody declared, but for the waived. *)
THEOREM OnlyDeclaredPacketsPass == MatrixSpec => []OnlyDeclaredPackets
  BY VerdictsAreKept, OnlyDeclaredPass, PTL

LEMMA WaiversCompareNothing == Judged => WaiverComparesNothing
<1> SUFFICES ASSUME Judged, standing \notin {"read", "rejected"}, category # "malformed-input"
             PROVE  /\ standing # "crashed"
                    /\ Waived(matrix) # {} =>
                         matrix.attestation # Absent /\ ~matrix.targets["zigcho"].uncompared
  BY DEF WaiverComparesNothing
<1>1. WaiverAllowed(matrix) /\ \A t \in Targets : ContractAllowed(matrix.targets[t])
  BY DEF Judged, Allowed
<1>2. Waived(matrix) # {} => matrix.attestation # Absent /\ ~matrix.targets["zigcho"].uncompared
  BY <1>1, MatrixAssumption DEF WaiverAllowed, Waived, Targets
<1>3. ASSUME standing = "crashed" PROVE FALSE
  <2>1. matrix.compare # {} /\ \A t \in Targets : TargetKept(t)
    BY <1>3 DEF Judged, Crashes
  <2>2. \A t \in Targets : HasContract(matrix.targets[t])
    BY <1>1, <2>1 DEF WaiverAllowed, Waived, ContractAllowed
  <2>3. \A t \in Targets : reply[t].body = "complete"
    BY <2>1, <2>2 DEF TargetKept, ContractKept
  <2> QED
    BY <1>3, <2>3 DEF Judged, Crashes
<1> QED
  BY <1>2, <1>3

(* A waiver stands alone, and nothing is selected from a body that may be text. *)
THEOREM WaiversStandAlone == MatrixSpec => []WaiverComparesNothing
  BY VerdictsAreKept, WaiversCompareNothing, PTL

-----------------------------------------------------------------------------
(* Behind the bot's packets *)

\* What is selected of id from t's reply without the bot.
Selected(t, id) == OfIds(WithoutBot(t), {id})

(* It is what stands at the places of id in the reply that are not the bot's. *)
LEMMA SelectedIs ==
  ASSUME Judged, standing = "passed", NEW t \in Targets, NEW id
  PROVE  LET packets == reply[t].packets
             places  == {i \in Humans(t) : packets[i].id = id} IN
         /\ places \in SUBSET DOMAIN packets
         /\ id # Friends => Selected(t, id) = At(packets, places)
         /\ ToSet(Selected(t, id)) = {Marked(t, packets[i]) : i \in places}
<1> DEFINE packets == reply[t].packets
           H == Humans(t)
           left == At(packets, H)
           W == WithoutBot(t)
           places == {i \in H : packets[i].id = id}
           T == {k \in 1 .. Cardinality(H) : left[k].id = id}
<1>1. H \in SUBSET DOMAIN packets /\ H \in SUBSET Nat /\ IsFiniteSet(H)
  BY RepliesAreLists DEF Humans
<1>2. /\ DOMAIN left = 1 .. Cardinality(H)
      /\ \A k \in 1 .. Cardinality(H) : left[k] = packets[Nth(H, k)]
  BY DEF At
<1>3. DOMAIN W = 1 .. Cardinality(H) /\ \A k \in DOMAIN W : W[k] = Marked(t, left[k])
  BY <1>2 DEF WithoutBot
<1>4. \A k \in DOMAIN W : W[k].id = left[k].id
  BY <1>3 DEF Marked
<1>5. Selected(t, id) = At(W, T)
  BY <1>3, <1>4 DEF Selected, OfIds
<1>6. Cardinality(H) \in Nat
  BY <1>1, FS_CardinalityType
<1>7. T \in SUBSET (1 .. Cardinality(H)) /\ T \in SUBSET Nat /\ IsFiniteSet(T)
  <2>1. IsFiniteSet(1 .. Cardinality(H))
    BY <1>6, FS_Interval
  <2>2. T \in SUBSET (1 .. Cardinality(H))
    OBVIOUS
  <2>3. T \in SUBSET Nat
    BY <1>6
  <2> HIDE DEF T
  <2>4. IsFiniteSet(T)
    BY <2>1, <2>2, FS_Subset
  <2> QED
    BY <2>2, <2>3, <2>4
<1>8. places = {Nth(H, k) : k \in T}
  <2> HIDE DEF H
  <2>1. \A k \in 1 .. Cardinality(H) : Nth(H, k) \in H
    BY <1>1, NthIs
  <2>2. \A i \in H : \E k \in 1 .. Cardinality(H) : Nth(H, k) = i
    BY <1>1, NthIs
  <2> QED
    BY <1>2, <2>1, <2>2
<1>9. ASSUME id # Friends PROVE At(W, T) = At(packets, places)
  <2>1. \A k \in T : W[k] = left[k]
    BY <1>3, <1>9 DEF Marked
  <2> HIDE DEF T, H, W, left, packets, places
  <2>2. At(W, T) = At(left, T)
    BY <1>7, <2>1, AtReads
  <2>3. At(left, T) = At(packets, {Nth(H, k) : k \in T})
    BY <1>1, <1>7, AtParts DEF left
  <2> QED
    BY <1>8, <2>2, <2>3
<1>10. ToSet(At(W, T)) = {Marked(t, packets[i]) : i \in places}
  <2>1. ToSet(At(W, T)) = {W[k] : k \in T}
    <3> HIDE DEF T, W
    <3> QED
      BY <1>7, AtFinds
  <2>2. \A k \in T : W[k] = Marked(t, packets[Nth(H, k)])
    BY <1>2, <1>3
  <2> HIDE DEF T, H, W, left, packets, places
  <2>3. {W[k] : k \in T} = {Marked(t, packets[i]) : i \in {Nth(H, k) : k \in T}}
    BY <2>2
  <2> QED
    BY <1>8, <2>1, <2>3
<1> QED
  BY <1>1, <1>5, <1>9, <1>10

(* For presence and stats those are the packets about anybody but the bot. *)
LEMMA OthersAreSelected ==
  ASSUME Judged, standing = "passed", NEW t \in Targets, NEW id \in {Stats, Presence}
  PROVE  Selected(t, id) = Others(t, id)
<1>1. {i \in Humans(t) : reply[t].packets[i].id = id} =
      {i \in DOMAIN reply[t].packets :
         reply[t].packets[i].id = id /\ reply[t].packets[i].user # Bot[t]}
  BY DEF Humans, BotAt
<1>2. id # Friends
  BY DEF Stats, Presence, Friends
<1> QED
  BY <1>1, <1>2, SelectedIs DEF Others

(* A list of friends says whom it lists besides the bot, marked or not. *)
LEMMA MarkedLists ==
  ASSUME NEW t \in Targets, NEW p, p.id = Friends, p.list \in Seq(Users)
  PROVE  ToSet(Marked(t, p).list) \ {Marker} = ToSet(p.list) \ {Bot[t]}
<1> DEFINE marked == [i \in DOMAIN p.list |-> IF p.list[i] = Bot[t] THEN Marker ELSE p.list[i]]
<1>1. Marked(t, p).list = marked
  BY DEF Marked
<1>2. /\ DOMAIN p.list = 1 .. Len(p.list) /\ Len(p.list) \in Nat
      /\ \A i \in DOMAIN p.list : p.list[i] \in Users
  BY LenProperties, ElementOfSeq
<1>3. ToSet(p.list) = {p.list[i] : i \in DOMAIN p.list}
  BY DEF ToSet
<1>4. ToSet(marked) = {marked[i] : i \in DOMAIN p.list}
  BY DEF ToSet
<1>5. ASSUME NEW u PROVE u \in ToSet(marked) \ {Marker} <=> u \in ToSet(p.list) \ {Bot[t]}
  BY <1>2, <1>3, <1>4, MatrixAssumption
<1> QED
  BY <1>1, <1>5

LEMMA UnionsAgree ==
  ASSUME NEW S, NEW A, NEW B, NEW a, NEW b, \A i \in S : A[i] \ {a} = B[i] \ {b}
  PROVE  (UNION {A[i] : i \in S}) \ {a} = (UNION {B[i] : i \in S}) \ {b}
<1>1. ASSUME NEW u
      PROVE  u \in (UNION {A[i] : i \in S}) \ {a} => u \in (UNION {B[i] : i \in S}) \ {b}
  <2> SUFFICES ASSUME NEW i \in S, u \in A[i], u # a PROVE u \in (UNION {B[j] : j \in S}) \ {b}
    OBVIOUS
  <2>1. u \in B[i] \ {b}
    OBVIOUS
  <2> QED
    BY <2>1
<1>2. ASSUME NEW u
      PROVE  u \in (UNION {B[i] : i \in S}) \ {b} => u \in (UNION {A[i] : i \in S}) \ {a}
  <2> SUFFICES ASSUME NEW i \in S, u \in B[i], u # b PROVE u \in (UNION {A[j] : j \in S}) \ {a}
    OBVIOUS
  <2>1. u \in A[i] \ {a}
    OBVIOUS
  <2> QED
    BY <2>1
<1> QED
  BY <1>1, <1>2

LEMMA ListedIsSelected ==
  ASSUME Judged, standing = "passed", NEW t \in Targets
  PROVE  Listed(t) = (UNION {ToSet(q.list) : q \in ToSet(Selected(t, Friends))}) \ {Marker}
<1> DEFINE packets == reply[t].packets
           places == {i \in DOMAIN packets : packets[i].id = Friends}
<1>1. {i \in Humans(t) : packets[i].id = Friends} = places
  BY DEF Humans, BotAt, Stats, Presence, Friends
<1>2. ToSet(Selected(t, Friends)) = {Marked(t, packets[i]) : i \in places}
  BY <1>1, SelectedIs
<1>3. \A i \in places :
        ToSet(Marked(t, packets[i]).list) \ {Marker} = ToSet(packets[i].list) \ {Bot[t]}
  BY RepliesAreLists, MarkedLists
<1>4. Listed(t) = (UNION {ToSet(packets[i].list) : i \in places}) \ {Bot[t]}
  BY DEF Listed
<1> HIDE DEF places, packets
<1>5. UNION {ToSet(q.list) : q \in {Marked(t, packets[i]) : i \in places}} =
      UNION {ToSet(Marked(t, packets[i]).list) : i \in places}
  OBVIOUS
<1>6. (UNION {ToSet(Marked(t, packets[i]).list) : i \in places}) \ {Marker} =
      (UNION {ToSet(packets[i].list) : i \in places}) \ {Bot[t]}
  <2> DEFINE A == [i \in places |-> ToSet(Marked(t, packets[i]).list)]
             B == [i \in places |-> ToSet(packets[i].list)]
  <2>1. \A i \in places : A[i] \ {Marker} = B[i] \ {Bot[t]}
    BY <1>3
  <2>2. /\ {ToSet(Marked(t, packets[i]).list) : i \in places} = {A[i] : i \in places}
        /\ {ToSet(packets[i].list) : i \in places} = {B[i] : i \in places}
    OBVIOUS
  <2> HIDE DEF A, B
  <2>3. (UNION {A[i] : i \in places}) \ {Marker} = (UNION {B[i] : i \in places}) \ {Bot[t]}
    BY <2>1, UnionsAgree
  <2> QED
    BY <2>2, <2>3
<1> QED
  BY <1>2, <1>4, <1>5, <1>6

LEMMA NobodyIsHidden == Judged => BotHidesNoHuman
<1> SUFFICES ASSUME Judged, standing = "passed", matrix.branding
             PROVE  /\ \A id \in {Stats, Presence} : Others("zigcho", id) = Others("reference", id)
                    /\ Listed("zigcho") = Listed("reference")
  BY DEF BotHidesNoHuman
<1>1. "zigcho" \in Targets /\ "reference" \in Targets
  BY DEF Targets
<1>2. {Stats, Friends, Presence} \subseteq matrix.compare
  BY DEF Judged, Allowed, BrandingAllowed
<1>3. \A id \in {Stats, Friends, Presence} : Selected("zigcho", id) = Selected("reference", id)
  BY <1>2 DEF Judged, Holds, SelectedAgree, Compared, Selected
<1>4. \A id \in {Stats, Presence} : Others("zigcho", id) = Others("reference", id)
  BY <1>1, <1>3, OthersAreSelected
<1>5. Listed("zigcho") = Listed("reference")
  BY <1>1, <1>3, ListedIsSelected
<1> QED
  BY <1>4, <1>5

(* Behind the login bot the two servers list the same people, in one order. *)
THEOREM PeopleAreCompared == MatrixSpec => []BotHidesNoHuman
  BY VerdictsAreKept, NobodyIsHidden, PTL
=============================================================================
