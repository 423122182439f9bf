----------------------------- MODULE PolicyMatrix -----------------------------
(***************************************************************************)
(* A declared policy difference: what _validate_policy_matrix of           *)
(* src/transcript.py lets a transcript say about the replies of the two    *)
(* servers, and what _check_policy_matrix of src/runner.py then compares.  *)
(* A step with a matrix is compared by nothing else, so whatever both let  *)
(* through is a difference nobody will see.                                *)
(*                                                                         *)
(* A packet is its id, the user it is about, the users it lists and the    *)
(* rest of its payload.                                                    *)
(***************************************************************************)
EXTENDS Naturals, Sequences, SequencesExt, FiniteSets

CONSTANTS
  Matrices,     \* the matrices a transcript may carry
  Categories,   \* the categories of its transcript
  Replies,      \* what a target may answer to a login and to other steps, normalised
  Earlier,      \* what a target may have answered to an earlier step
  Attestations, \* the source contracts a waiver may name
  Users,        \* whom a friends packet may list
  Bot,          \* the permanent bot's user id on each target
  Marker,       \* "<permanent-bot>", no user's id
  Absent        \* what a key that is not there holds

Targets == {"zigcho", "reference"}

\* A list of packets or of required ids is a sequence; only users are listed as
\* friends; branding is said or not, and a source contract is something.
ASSUME MatrixAssumption ==
  /\ Marker \notin Users /\ Bot \in [Targets -> Users] /\ Absent \notin Attestations
  /\ \A m \in Matrices :
       /\ m.branding \in BOOLEAN
       /\ \A t \in Targets : LET required == m.targets[t].required IN
            required # Absent => required \in Seq(ToSet(required))
  /\ \A branding \in BOOLEAN : \A r \in Replies[branding] :
       /\ r.packets \in Seq(ToSet(r.packets))
       /\ \A p \in ToSet(r.packets) : p.list \in Seq(Users)

VARIABLES
  standing,  \* "read", "accepted", "rejected", "passed", "failed", "crashed"
  category,
  matrix,
  prior,     \* the replies to the earlier step a matrix may name
  reply      \* the replies to the step itself

matrixVars == <<standing, category, matrix, prior, reply>>

Stats == 11
Friends == 72
Presence == 83

-----------------------------------------------------------------------------
(* What a matrix may say.  An absent key is Absent, an absent list of ids {}. *)

HasContract(expected) == expected.packetIds # Absent \/ expected.required # Absent

\* packet_ids, else allowed_packet_ids.
Possible(expected) ==
  IF expected.packetIds # Absent THEN ToSet(expected.packetIds)
    ELSE IF expected.allowed # Absent THEN expected.allowed ELSE {}

Other(t) == CHOOSE u \in Targets : u # t

Waived(m) == {t \in Targets : m.targets[t].uncompared}

\* A body_policy stands exactly where there is no packet contract.
ContractAllowed(expected) ==
  LET required == IF expected.required # Absent THEN ToSet(expected.required) ELSE {} IN
    /\ expected.uncompared = ~HasContract(expected)
    /\ expected.required # Absent => expected.allowed # Absent
    /\ expected.allowed # Absent => required \subseteq expected.allowed
    /\ expected.duplicates \subseteq
         IF expected.allowed \notin {Absent, {}} THEN expected.allowed ELSE Possible(expected)
    /\ \A c \in expected.counts : c.id \in Possible(expected) /\ c.count > 0

\* Mutant: a waiver does not rule out a comparison, nor name its target.
WaiverAllowedAnywhere(m) == (Waived(m) # {}) = (m.attestation # Absent)

\* Outside malformed input only the reference's body may be waived, by a source
\* attestation, and then nothing is compared with it.
WaiverAllowed(m) ==
  IF Waived(m) # {} /\ category # "malformed-input"
    THEN /\ Waived(m) = {"reference"}
         /\ m.attestation \in Attestations
         /\ m.compare = {} /\ m.removals = Absent /\ m.baseline = {} /\ m.cross = {}
    ELSE m.attestation = Absent

SelectionAllowed(m) ==
  /\ \A t \in Targets : m.compare \subseteq Possible(m.targets[t])
  /\ m.removals # Absent => \A t \in Targets : m.compare \cap m.removals[t] = {}

\* Mutant: any packet of a target's contract may be removed.
RemovalAllowedCommon(m) ==
  m.removals # Absent => \A t \in Targets : m.removals[t] \subseteq Possible(m.targets[t])

\* Only what the other target may not send at all is removed.
RemovalAllowed(m) ==
  m.removals # Absent => \A t \in Targets :
    /\ m.removals[t] \subseteq Possible(m.targets[t])
    /\ m.removals[t] \cap Possible(m.targets[Other(t)]) = {}

BrandingAllowed(m) == m.branding => {Stats, Friends, Presence} \subseteq m.compare

Allowed(m) ==
  /\ \A t \in Targets : ContractAllowed(m.targets[t])
  /\ WaiverAllowed(m) /\ SelectionAllowed(m) /\ RemovalAllowed(m) /\ BrandingAllowed(m)

-----------------------------------------------------------------------------
(* What it makes of two replies *)

\* The k-th of some places, and what s holds at them, in their order.
Nth(places, k) == CHOOSE i \in places : Cardinality({j \in places : j <= i}) = k
At(s, places)  == [k \in 1 .. Cardinality(places) |-> s[Nth(places, k)]]

PacketIds(r)    == [i \in DOMAIN r.packets |-> r.packets[i].id]
Count(s, x)     == Cardinality({i \in DOMAIN s : s[i] = x})
OfIds(s, ids)   == At(s, {i \in DOMAIN s : s[i].id \in ids})

\* Mutant: only that all are there.
IsSubset(required, actual) == ToSet(required) \subseteq ToSet(actual)

\* How many of the required ids the walk has met, in order, after n of the actual.
Met(required, actual) ==
  LET met[n \in 0 .. Len(actual)] ==
        IF n = 0 THEN 0
        ELSE IF met[n - 1] < Len(required) /\ actual[n] = required[met[n - 1] + 1]
               THEN met[n - 1] + 1
               ELSE met[n - 1]
  IN met

IsSubsequence(required, actual) == Met(required, actual)[Len(actual)] = Len(required)

FieldHolds(r, f) ==
  LET matches == OfIds(r.packets, {f.id}) IN
    f.occurrence < Len(matches) /\ matches[f.occurrence + 1].value = f.value

CountHolds(r, c) ==
  Cardinality({i \in DOMAIN r.packets : r.packets[i].id = c.id /\ r.packets[i].value = c.value}) = c.count

\* Mutant: the ids are looked for in what the contract requires only.
ContractKeptRequired(expected, r) ==
  LET ids == PacketIds(r) IN
    /\ r.body = "complete"
    /\ expected.packetIds # Absent => ids = expected.packetIds
    /\ expected.required # Absent => ToSet(expected.required) \subseteq ToSet(ids)

\* The contract of one target, with nothing of the other's reply.
ContractKept(expected, r) ==
  LET ids == PacketIds(r) IN
    /\ r.body = "complete"
    /\ expected.packetIds # Absent => ids = expected.packetIds
    /\ expected.required # Absent => ToSet(expected.required) \subseteq ToSet(ids)
    /\ expected.forbidden \cap ToSet(ids) = {}
    /\ expected.allowed # Absent => ToSet(ids) \subseteq expected.allowed
    /\ expected.packetIds = Absent =>
         /\ \A x \in ToSet(ids) : Count(ids, x) > 1 => x \in expected.duplicates
         /\ expected.required # Absent => IsSubsequence(expected.required, ids)
    /\ \A f \in expected.fields : FieldHolds(r, f)
    /\ \A c \in expected.counts : CountHolds(r, c)

TargetKept(t) ==
  /\ reply[t].status \in matrix.targets[t].statuses
  /\ HasContract(matrix.targets[t]) => ContractKept(matrix.targets[t], reply[t])

\* Where t's reply has a packet of the bot: its presence or its stats.
BotAt(t) == {i \in DOMAIN reply[t].packets :
               reply[t].packets[i].id \in {Stats, Presence} /\ reply[t].packets[i].user = Bot[t]}

\* One presence and one stats packet of the bot, and one friends packet with the
\* bot in it once.
BotIsThere(t) ==
  LET packets == reply[t].packets
      friends == {i \in DOMAIN packets : packets[i].id = Friends} IN
    /\ \A id \in {Stats, Presence} : Cardinality({i \in BotAt(t) : packets[i].id = id}) = 1
    /\ \A i \in BotAt(t) : packets[i].value = "bot"
    /\ Cardinality(friends) = 1 /\ \A i \in friends : Count(packets[i].list, Bot[t]) = 1

\* Mutant: the packets of both bots' ids are taken out on either side.
HumansNoBots(t) ==
  LET packets == reply[t].packets
  IN {i \in DOMAIN packets : ~(packets[i].id \in {Stats, Presence} /\ \E u \in Targets : packets[i].user = Bot[u])}

Humans(t) == DOMAIN reply[t].packets \ BotAt(t)

\* The bot's id is marked in lists of friends.
Marked(t, p) ==
  IF p.id # Friends THEN p
    ELSE [id |-> Friends, user |-> p.user, value |-> p.value,
          list |-> [i \in DOMAIN p.list |-> IF p.list[i] = Bot[t] THEN Marker ELSE p.list[i]]]

\* The bot's own packets are left out.
WithoutBot(t) ==
  [k \in DOMAIN At(reply[t].packets, Humans(t)) |-> Marked(t, At(reply[t].packets, Humans(t))[k])]

Compared(t) == IF matrix.branding THEN WithoutBot(t) ELSE reply[t].packets

\* Each selected id by itself, so that the order between ids does not matter.
SelectedAgree ==
  \A id \in matrix.compare : OfIds(Compared("zigcho"), {id}) = OfIds(Compared("reference"), {id})

Kept(t) == {i \in DOMAIN reply[t].packets : reply[t].packets[i].id \notin matrix.removals[t]}

Stripped(t) ==
  [status |-> reply[t].status, body |-> reply[t].body, packets |-> At(reply[t].packets, Kept(t))]

RestAgrees ==
  matrix.removals # Absent =>
    /\ \A t \in Targets : reply[t].body # "text"
    /\ Stripped("zigcho") = Stripped("reference")

EarlierAgrees ==
  /\ \A t \in matrix.baseline : reply[t] = prior[t]
  /\ \A c \in matrix.cross : reply[c.target] = prior[c.earlier]

\* The bodies selected from are not looked at before their packets are.
Crashes == matrix.compare # {} /\ \E t \in Targets : reply[t].body = "text"

Holds ==
  /\ matrix.branding => \A t \in Targets : BotIsThere(t)
  /\ SelectedAgree /\ RestAgrees /\ EarlierAgrees

-----------------------------------------------------------------------------

MatrixInit ==
  /\ standing = "read"
  /\ category \in Categories
  /\ matrix \in Matrices
  /\ prior = Absent /\ reply = Absent

Validate ==
  /\ standing = "read"
  /\ standing' = IF Allowed(matrix) THEN "accepted" ELSE "rejected"
  /\ UNCHANGED <<category, matrix, prior, reply>>

\* The earlier step passed as any other: whatever it was answered is kept.
EarlierStep ==
  /\ standing = "accepted" /\ prior = Absent
  /\ prior' \in IF matrix.baseline = {} /\ matrix.cross = {} THEN {[t \in Targets |-> Absent]}
                ELSE [Targets -> Earlier]
  /\ UNCHANGED <<standing, category, matrix, reply>>

Answer ==
  /\ standing = "accepted" /\ prior # Absent /\ reply = Absent
  /\ reply' \in [Targets -> Replies[matrix.branding]]
  /\ UNCHANGED <<standing, category, matrix, prior>>

CheckPolicy ==
  /\ standing = "accepted" /\ reply # Absent
  /\ standing' = IF ~\A t \in Targets : TargetKept(t) THEN "failed"
           ELSE IF Crashes THEN "crashed"
           ELSE IF Holds THEN "passed" ELSE "failed"
  /\ UNCHANGED <<category, matrix, prior, reply>>

MatrixNext == Validate \/ EarlierStep \/ Answer \/ CheckPolicy

MatrixSpec == MatrixInit /\ [][MatrixNext]_matrixVars

-----------------------------------------------------------------------------
(* Properties *)

Shared == {p \in UNION {Possible(matrix.targets[t]) : t \in Targets} :
             \A t \in Targets : p \in Possible(matrix.targets[t])}

\* Removing what only one server sends hides nothing both may send: their
\* packets of every shared id agree, in one order.
NothingSharedHidden ==
  standing = "passed" /\ matrix.removals # Absent =>
    OfIds(reply["zigcho"].packets, Shared) = OfIds(reply["reference"].packets, Shared)

\* Every packet in a reply that passed is one the matrix declares for its
\* target; the only other replies are a waived reference's, and malformed input's.
OnlyDeclaredPackets ==
  standing = "passed" => \A t \in Targets :
    \/ ToSet(PacketIds(reply[t])) \subseteq Possible(matrix.targets[t])
    \/ t = "reference" /\ matrix.attestation # Absent
    \/ category = "malformed-input" /\ matrix.targets[t].uncompared

\* What a contract requires is there in its order: some choice of places in the
\* reply, one after the other, holds the required ids.
RequiredInOrder ==
  standing = "passed" => \A t \in Targets :
    LET expected == matrix.targets[t]
        ids      == PacketIds(reply[t]) IN
      expected.required # Absent /\ expected.packetIds = Absent =>
        \E at \in [DOMAIN expected.required -> DOMAIN ids] :
          \A i \in DOMAIN at : /\ ids[at[i]] = expected.required[i]
                               /\ \A j \in 1 .. (i - 1) : at[j] < at[i]

\* A waiver never takes a comparison along that looks as if it were made, and
\* no matrix outside malformed input ends in an exception nobody handles.
WaiverComparesNothing ==
  standing # "read" /\ standing # "rejected" /\ category # "malformed-input" =>
    /\ standing # "crashed"
    /\ Waived(matrix) # {} => matrix.attestation # Absent /\ ~matrix.targets["zigcho"].uncompared

\* The packets of id about anybody but the bot, and whom t's friends packets
\* list besides it.
Others(t, id) == At(reply[t].packets, {i \in DOMAIN reply[t].packets :
                                         reply[t].packets[i].id = id /\ reply[t].packets[i].user # Bot[t]})
Listed(t) == (UNION {ToSet(reply[t].packets[i].list) :
                       i \in {j \in DOMAIN reply[t].packets : reply[t].packets[j].id = Friends}}) \ {Bot[t]}

\* Behind the login bot every other user is compared: presence, stats and
\* friends, with the ids both servers gave them.
BotHidesNoHuman ==
  standing = "passed" /\ matrix.branding =>
    /\ \A id \in {Stats, Presence} : Others("zigcho", id) = Others("reference", id)
    /\ Listed("zigcho") = Listed("reference")
=============================================================================
