--------------------------- MODULE MCPolicyMatrix ---------------------------
(* Packet 8 is one both servers may send, packet 24 one that the contracts   *)
(* allow to one of them, to both or to none.                                 *)
EXTENDS PolicyMatrix, TLC

MCCategories == {"policy-matrix", "malformed-input"}
MCUsers      == {1, 3, 5}
MCBot        == [zigcho |-> 3, reference |-> 1]

Packet(id, user, list, value) == [id |-> id, user |-> user, list |-> list, value |-> value]
Reply(packets) == [status |-> 200, body |-> "complete", packets |-> packets]
Text == [status |-> 400, body |-> "text", packets |-> <<>>]
Cut(packets) == [Reply(packets) EXCEPT !.body = "partial"]

Expected(packetIds, required, allowed, duplicates) ==
  [packetIds |-> packetIds, required |-> required, allowed |-> allowed, duplicates |-> duplicates,
   forbidden |-> {}, uncompared |-> FALSE, statuses |-> {200}, fields |-> {}, counts |-> {}]
NoContract(allowed) ==
  [Expected(Absent, Absent, allowed, {}) EXCEPT !.uncompared = TRUE, !.statuses = {200, 400}]

Matrix(targets) ==
  [targets |-> targets, compare |-> {}, removals |-> Absent, baseline |-> {}, cross |-> {},
   attestation |-> Absent, branding |-> FALSE]

\* Small contracts, the fields and counts they may add, and two mistaken ones.
Contracts ==
  {Expected(<<8>>, Absent, Absent, {}), Expected(<<24, 8>>, Absent, Absent, {}), Expected(<<>>, Absent, Absent, {}),
   Expected(Absent, <<8>>, {8}, {8}), Expected(Absent, <<8>>, {8, 24}, {}), Expected(Absent, <<24, 8>>, {8, 24}, {8}),
   [Expected(Absent, <<8>>, {8, 24}, {8}) EXCEPT !.forbidden = {24}, !.counts = {[id |-> 8, value |-> "x", count |-> 1]}],
   [Expected(Absent, <<8>>, {8}, {8}) EXCEPT !.fields = {[id |-> 8, occurrence |-> 1, value |-> "y"]}],
   NoContract(Absent), NoContract({8}), Expected(Absent, <<8>>, Absent, {}),
   [Expected(<<8>>, Absent, Absent, {}) EXCEPT !.uncompared = TRUE]}
Pairs == [Targets -> Contracts]

Removals == {Absent} \cup {[zigcho |-> z, reference |-> r] : z \in {{}, {8}, {24}}, r \in {{}, {24}}}

StepMatrices ==
  {[Matrix(targets) EXCEPT !.compare = compare, !.removals = removals] :
      targets \in Pairs, compare \in {{}, {8}}, removals \in Removals}
  \cup {[Matrix(targets) EXCEPT !.attestation = "att", !.compare = compare] :
      targets \in Pairs, compare \in {{}, {8}}}
  \cup {[Matrix(targets) EXCEPT !.baseline = {"zigcho"},
             !.cross = {[target |-> "reference", earlier |-> "zigcho"]}] :
      targets \in {p \in Pairs : p["zigcho"] = p["reference"]}}

Packets   == {Packet(8, 5, <<>>, "x"), Packet(8, 5, <<>>, "y"), Packet(24, 5, <<>>, "x")}
StepReplies == {Reply(s) : s \in SeqOf(Packets, 2)} \cup {Text, Cut(<<>>), Cut(<<Packet(8, 5, <<>>, "x")>>)}
MCEarlier == {Reply(<<Packet(8, 5, <<>>, v)>>) : v \in {"x", "y"}}

-----------------------------------------------------------------------------
(* The login: bot and people, their stats, presence and lists of friends. *)

LoginContract == Expected(Absent, <<Friends>>, {Stats, Friends, Presence}, {Stats, Presence, Friends})
LoginMatrices ==
  {[Matrix([t \in Targets |-> LoginContract]) EXCEPT !.compare = compare, !.branding = TRUE] :
     compare \in {{Stats, Friends, Presence}, {Stats, Presence}}}

People == {Packet(id, u, <<>>, "own") : id \in {Stats, Presence}, u \in {1, 3, 5}}
Lists  == {<<1>>, <<3>>, <<1, 3>>, <<3, 5>>, <<5, 1>>, <<5, 3>>, <<3, 3>>}
LoginReplies ==
  {Reply(<<Packet(Presence, bot, <<>>, "bot"), Packet(Stats, bot, <<>>, "bot"),
           Packet(Friends, 0, list, "list")>> \o people) :
     bot \in {1, 3}, list \in Lists, people \in SeqOf(People, 2)}

MCMatrices == StepMatrices \cup LoginMatrices
MCReplies  == [branding \in BOOLEAN |-> IF branding THEN LoginReplies ELSE StepReplies]
=============================================================================
