----------------------- MODULE TargetVariablesProofs -----------------------
(***************************************************************************)
(* The variables of the targets, for every configuration, every set of     *)
(* transcripts and every reply: what a capture changes in a memory, what   *)
(* the captures of a step change one after the other, and from that what   *)
(* becomes of the fixture, what the requests are sent with, and what an    *)
(* accepted plan promises.                                                 *)
(***************************************************************************)
EXTENDS TargetVariables, SequenceTheorems, WellFoundedInduction, TLAPS

-----------------------------------------------------------------------------

(* Recursion over a range of numbers *)

(* What holds at 0 and at each number after one where it holds, holds throughout. *)
LEMMA Climb ==
  ASSUME NEW last \in Nat, NEW good, 0 \in good, \A n \in 1 .. last : n - 1 \in good => n \in good
  PROVE  \A n \in 0 .. last : n \in good
<1> DEFINE bad == {n \in 0 .. last : n \notin good}
<1>1. SUFFICES ASSUME bad # {} PROVE FALSE
  OBVIOUS
<1>2. bad \in SUBSET Nat
  OBVIOUS
<1>3. PICK x \in bad : \A y \in bad : ~(<<y, x>> \in OpToRel(<, Nat))
  <2> HIDE DEF bad
  <2> QED
    BY <1>1, <1>2, NatLessThanWellFounded, WFMin
<1>4. \A y, z \in Nat : y < z => <<y, z>> \in OpToRel(<, Nat)
  BY DEF OpToRel
<1>5. x \in 1 .. last /\ x - 1 \in 0 .. last /\ x - 1 \in Nat /\ x \in Nat /\ x - 1 < x
  OBVIOUS
<1>6. x - 1 \notin bad
  BY <1>3, <1>4, <1>5, Zenon
<1> QED
  BY <1>5, <1>6

\* From base, add takes f from each number to the next.
IsWalk(f, last, base, add) ==
  f[0] = base /\ \A n \in 1 .. last : f[n] = add[<<f[n - 1], n>>]

(* What add tells for every value and number can be followed all the way. *)
LEMMA WalkExists ==
  ASSUME NEW last \in Nat, NEW S, NEW base \in S, NEW add \in [S \X (1 .. last) -> S]
  PROVE  \E f \in [0 .. last -> S] : IsWalk(f, last, base, add)
<1> USE DEF IsWalk
<1> DEFINE Walk(f, l) == IsWalk(f, l, base, add)
           good == {l \in 0 .. last : \E f \in [0 .. l -> S] : Walk(f, l)}
<1>1. 0 \in good
  <2> DEFINE f == [n \in 0 .. 0 |-> base]
  <2>1. f \in [0 .. 0 -> S] /\ Walk(f, 0)
    OBVIOUS
  <2>2. 0 \in 0 .. last
    OBVIOUS
  <2> QED
    BY <2>1, <2>2
<1>2. ASSUME NEW l \in 1 .. last, l - 1 \in good PROVE l \in good
  <2>1. PICK f \in [0 .. (l - 1) -> S] : Walk(f, l - 1)
    BY <1>2
  <2> DEFINE g == [n \in 0 .. l |-> IF n = l THEN add[<<f[l - 1], l>>] ELSE f[n]]
  <2>2. l \in Nat /\ l # 0 /\ l - 1 \in 0 .. (l - 1) /\ l \in 0 .. last
    OBVIOUS
  <2>3. f[l - 1] \in S
    BY <2>2
  <2>4. add[<<f[l - 1], l>>] \in S
    BY <2>3
  <2>5. \A n \in 0 .. l : n # l => n \in 0 .. (l - 1)
    BY <2>2
  <2>6. g \in [0 .. l -> S]
    BY <2>4, <2>5
  <2>7. g[0] = base
    BY <2>1, <2>2
  <2>8. ASSUME NEW n \in 1 .. l PROVE g[n] = add[<<g[n - 1], n>>]
    <3>1. n \in 0 .. l /\ n - 1 \in 0 .. l /\ n - 1 # l /\ (n = l \/ n \in 1 .. (l - 1))
      BY <2>2
    <3>2. g[n - 1] = f[n - 1]
      BY <3>1
    <3>3. CASE n = l
      BY <3>1, <3>2, <3>3
    <3>4. CASE n # l
      BY <2>1, <3>1, <3>2, <3>4
    <3> QED
      BY <3>3, <3>4
  <2> QED
    BY <2>2, <2>6, <2>7, <2>8
<1>3. \A l \in 0 .. last : l \in good
  <2> HIDE DEF good
  <2> QED
    BY <1>1, <1>2, Climb
<1> QED
  BY <1>3

-----------------------------------------------------------------------------
(* Paths and memories *)

(* A path has one part or two. *)
LEMMA PathShapes ==
  /\ \A p \in Paths :
       /\ p[1] \in Keys
       /\ \/ Len(p) = 1 /\ p = <<p[1]>>
          \/ Len(p) = 2 /\ p[2] \in Leaves /\ p = <<p[1], p[2]>>
  /\ \A k \in Keys : <<k>> \in Paths /\ <<k>>[1] = k /\ Len(<<k>>) = 1
  /\ \A k \in Keys, l \in Leaves :
       /\ <<k, l>> \in Paths /\ <<k, l>>[1] = k /\ <<k, l>>[2] = l /\ Len(<<k, l>>) = 2
BY DEF Paths

\* What a memory may hold besides objects, and what a capture puts there.
AreScalars(S, source) ==
  /\ Absent \in S
  /\ \A v \in S : v.object = FALSE
  /\ \A t \in TargetSet, p \in Paths : Value(source, t, p) \in S /\ Value(source, t, p) # Absent

\* A target holds no object that another target's part made.
Roots(S) ==
  {r \in [TargetSet -> [Keys -> S \cup Objects]] :
     \A t \in TargetSet, k \in Keys :
       r[t][k].object => r[t][k] \in {Object(t, k), Object("shared", k)}}

Memories(S) ==
  [roots : Roots(S), objects : [Objects -> [Leaves -> S]],
   captured : [TargetSet -> [Paths -> S]], collided : BOOLEAN]

(* An object says whose it is, and under which key. *)
LEMMA ObjectsDiffer ==
  /\ \A o, p, k, l : Object(o, k) = Object(p, l) => o = p /\ k = l
  /\ \A o, k : Object(o, k).object = TRUE
  /\ \A s, o, p : Value(s, o, p).object = FALSE
  /\ Absent.object = FALSE
  /\ \A t \in TargetSet, k \in Keys :
       Object(t, k) \in Objects /\ Object("shared", k) \in Objects
  /\ \A x \in Objects : x.object = TRUE
<1>1. ASSUME NEW o, NEW p, NEW k, NEW l, Object(o, k) = Object(p, l) PROVE o = p /\ k = l
  <2>1. Object(o, k).owner = o /\ Object(p, l).owner = p
    BY DEF Object
  <2>2. Object(o, k).path = <<k>> /\ Object(p, l).path = <<l>>
    BY DEF Object
  <2>3. <<k>>[1] = k /\ <<l>>[1] = l
    OBVIOUS
  <2> QED
    BY <1>1, <2>1, <2>2, <2>3
<1>2. \A o, k : Object(o, k).object = TRUE
  BY DEF Object
<1>3. \A s, o, p : Value(s, o, p).object = FALSE
  BY DEF Value
<1> QED
  BY <1>1, <1>2, <1>3 DEF Absent, Objects, Owners

(* A root is a scalar or an object that the memory has. *)
LEMMA RootsAre ==
  ASSUME NEW S, NEW source, AreScalars(S, source), NEW m \in Memories(S),
         NEW t \in TargetSet, NEW k \in Keys
  PROVE  /\ m.roots[t][k] \in S \cup Objects
         /\ m.roots[t][k].object \in BOOLEAN
         /\ m.roots[t][k].object =>
              m.roots[t][k] \in Objects /\ m.roots[t][k] \in {Object(t, k), Object("shared", k)}
         /\ ~m.roots[t][k].object => m.roots[t][k] \in S
<1>1. m.roots \in Roots(S)
  BY DEF Memories
<1>2. m.roots[t][k] \in S \cup Objects
  BY <1>1 DEF Roots
<1> QED
  BY <1>1, <1>2, ObjectsDiffer DEF Roots, AreScalars

\* The memory n after t has saved v under p in m.
Changed(m, n, t, p, v) ==
  LET k == p[1]
      top == m.roots[t][k] IN
    /\ Len(p) = 1 => n.roots = [m.roots EXCEPT ![t][k] = v] /\ n.objects = m.objects
    /\ Len(p) = 2 /\ top = Absent =>
         /\ n.roots = [m.roots EXCEPT ![t][k] = Object(t, k)]
         /\ n.objects = [m.objects EXCEPT ![Object(t, k)] = [Empty EXCEPT ![p[2]] = v]]
    /\ Len(p) = 2 /\ top # Absent =>
         n.roots = m.roots /\ n.objects = [m.objects EXCEPT ![top][p[2]] = v]
    /\ n.captured = [m.captured EXCEPT ![t][p] = v]

(* A capture that does not collide changes the one place its path leads to. *)
LEMMA SaveChanges ==
  ASSUME NEW S, NEW source, AreScalars(S, source), NEW m \in Memories(S),
         NEW t \in TargetSet, NEW p \in Paths, ~m.collided, ~Collides(t, p, m)
  PROVE  /\ Changed(m, Save(t, p, source, m), t, p, Value(source, t, p))
         /\ ~Save(t, p, source, m).collided
         /\ Save(t, p, source, m) \in Memories(S)
<1> DEFINE v == Value(source, t, p)
           k == p[1]
           top == m.roots[t][k]
           n == Save(t, p, source, m)
           set == SetPath(t, p, v, m)
<1>0. k \in Keys /\ v \in S /\ m.collided \in BOOLEAN
  BY PathShapes DEF AreScalars, Memories
<1>1. m = [roots |-> m.roots, objects |-> m.objects,
           captured |-> m.captured, collided |-> m.collided]
  BY DEF Memories
<1>2. n = [set EXCEPT !.captured[t][p] = v]
  BY DEF Save
<1>3. m.roots \in Roots(S) /\ m.objects \in [Objects -> [Leaves -> S]]
      /\ m.captured \in [TargetSet -> [Paths -> S]]
  BY DEF Memories
<1>4. [m.captured EXCEPT ![t][p] = v] \in [TargetSet -> [Paths -> S]]
  BY <1>0, <1>3
<1>5. CASE Len(p) = 1
  <2>1. set = [m EXCEPT !.roots[t][k] = v]
    BY <1>5 DEF SetPath
  <2>2. n = [roots |-> [m.roots EXCEPT ![t][k] = v], objects |-> m.objects,
             captured |-> [m.captured EXCEPT ![t][p] = v], collided |-> m.collided]
    BY <1>1, <1>2, <2>1
  <2>3. [m.roots EXCEPT ![t][k] = v] \in Roots(S)
    BY <1>0, <1>3 DEF Roots, AreScalars
  <2>4. n \in Memories(S) /\ n.collided = m.collided
    BY <1>0, <1>3, <1>4, <2>2, <2>3 DEF Memories
  <2>5. Changed(m, n, t, p, v)
    BY <1>5, <2>2 DEF Changed
  <2> QED
    BY <2>4, <2>5
<1>6. CASE Len(p) = 2 /\ top = Absent
  <2> DEFINE o == Object(t, k)
             e == [Empty EXCEPT ![p[2]] = v]
  <2>1. set = [m EXCEPT !.roots[t][k] = o, !.objects[o] = e]
    BY <1>6 DEF SetPath
  <2>2. n = [roots |-> [m.roots EXCEPT ![t][k] = o], objects |-> [m.objects EXCEPT ![o] = e],
             captured |-> [m.captured EXCEPT ![t][p] = v], collided |-> m.collided]
    <3> HIDE DEF o, e, v, k, n, set
    <3> QED
      BY <1>1, <1>2, <2>1
  <2>3. [m.roots EXCEPT ![t][k] = o] \in Roots(S)
    <3>1. o \in Objects
      BY <1>0, ObjectsDiffer
    <3> HIDE DEF o, k
    <3>2. [m.roots EXCEPT ![t][k] = o] \in [TargetSet -> [Keys -> S \cup Objects]]
      BY <1>0, <1>3, <3>1 DEF Roots, k
    <3>3. ASSUME NEW u \in TargetSet, NEW l \in Keys
          PROVE  [m.roots EXCEPT ![t][k] = o][u][l] = IF u = t /\ l = k THEN o ELSE m.roots[u][l]
      BY <1>0, <1>3 DEF Roots
    <3> QED
      BY <1>3, <3>2, <3>3 DEF Roots, o
  <2>4. [m.objects EXCEPT ![o] = e] \in [Objects -> [Leaves -> S]]
    BY <1>0, <1>3, ObjectsDiffer DEF Empty, AreScalars
  <2>5. n \in Memories(S) /\ n.collided = m.collided
    BY <1>0, <1>4, <2>2, <2>3, <2>4 DEF Memories
  <2>6. Changed(m, n, t, p, v)
    BY <1>6, <2>2 DEF Changed
  <2> QED
    BY <2>5, <2>6
<1>7. CASE Len(p) = 2 /\ top # Absent
  <2>1. set = [m EXCEPT !.objects[top][p[2]] = v]
    BY <1>7 DEF SetPath
  <2>2. n = [roots |-> m.roots, objects |-> [m.objects EXCEPT ![top][p[2]] = v],
             captured |-> [m.captured EXCEPT ![t][p] = v], collided |-> m.collided]
    <3> HIDE DEF top, v, k, n, set
    <3> QED
      BY <1>1, <1>2, <2>1
  <2>3. [m.objects EXCEPT ![top][p[2]] = v] \in [Objects -> [Leaves -> S]]
    BY <1>0, <1>3
  <2>4. n \in Memories(S) /\ n.collided = m.collided
    BY <1>0, <1>3, <1>4, <2>2, <2>3 DEF Memories
  <2>5. Changed(m, n, t, p, v)
    BY <1>7, <2>2 DEF Changed
  <2> QED
    BY <2>4, <2>5
<1>8. Len(p) = 1 \/ Len(p) = 2
  BY PathShapes
<1> QED
  BY <1>5, <1>6, <1>7, <1>8

(* A capture after a collision, or one that collides, only notes the collision. *)
LEMMA SaveCollides ==
  ASSUME NEW S, NEW source, NEW m \in Memories(S), NEW t, NEW p,
         m.collided \/ Collides(t, p, m)
  PROVE  LET n == Save(t, p, source, m) IN
           /\ n.roots = m.roots /\ n.objects = m.objects /\ n.captured = m.captured
           /\ n.collided
           /\ n \in Memories(S)
BY DEF Save, Memories

-----------------------------------------------------------------------------
(* What one capture changes for whoever looks a path up *)

\* The one leads into an object that the other is.
Above(p, q) == Len(p) = 1 /\ Len(q) = 2 /\ p[1] = q[1]

(* After a capture its path is found with its value; what else is found differently
   is below the path, or in an object that is shared. *)
LEMMA FoundAfterSave ==
  ASSUME NEW S, NEW source, AreScalars(S, source), NEW m \in Memories(S),
         NEW t \in TargetSet, NEW p \in Paths, NEW n \in Memories(S), NEW v \in S, v # Absent,
         Changed(m, n, t, p, v), ~Collides(t, p, m)
  PROVE  /\ Find(t, p, n) = v
         /\ \A q \in Paths : q # p /\ ~Above(p, q) /\ ~Above(q, p) =>
              Find(t, q, n) = Find(t, q, m)
         /\ \A q \in Paths : Above(q, p) =>
              /\ Find(t, q, n).object
              /\ Find(t, q, m) # Absent => Find(t, q, m).object /\ Find(t, q, n) = Find(t, q, m)
         /\ \A u \in TargetSet, q \in Paths : u # t =>
              \/ Find(u, q, n) = Find(u, q, m)
              \/ /\ q = p /\ Len(p) = 2 /\ Find(u, q, n) = v
                 /\ m.roots[u][p[1]] = Object("shared", p[1])
                 /\ m.roots[t][p[1]] = Object("shared", p[1])
<1> DEFINE k == p[1]
           top == m.roots[t][k]
           o == Object(t, k)
<1>1. k \in Keys /\ v.object = FALSE
  BY PathShapes DEF AreScalars
<1>2. /\ m.roots \in [TargetSet -> [Keys -> S \cup Objects]]
      /\ m.objects \in [Objects -> [Leaves -> S]]
  BY DEF Memories, Roots
<1>3. /\ \A q \in Paths : q[1] \in Keys /\ (Len(q) = 1 \/ (Len(q) = 2 /\ q[2] \in Leaves))
      /\ \A q \in Paths : q[1] = k /\ Len(q) = 1 /\ Len(p) = 1 => q = p
      /\ \A q \in Paths : q[1] = k /\ Len(q) = 2 /\ Len(p) = 2 /\ q[2] = p[2] => q = p
  BY PathShapes
<1>4. ASSUME NEW u \in TargetSet, NEW l \in Keys
      PROVE  /\ m.roots[u][l].object \in BOOLEAN
             /\ m.roots[u][l].object =>
                  m.roots[u][l] \in Objects /\ m.roots[u][l] \in {Object(u, l), Object("shared", l)}
  BY RootsAre
<1>5. CASE Len(p) = 1
  <2>1. n.roots = [m.roots EXCEPT ![t][k] = v] /\ n.objects = m.objects
    BY <1>5 DEF Changed
  <2>2. ASSUME NEW u \in TargetSet, NEW l \in Keys
        PROVE  n.roots[u][l] = IF u = t /\ l = k THEN v ELSE m.roots[u][l]
    BY <1>1, <1>2, <2>1
  <2> QED
    BY <1>1, <1>3, <1>5, <2>1, <2>2 DEF Find, Above
<1>6. CASE Len(p) = 2 /\ top = Absent
  <2>1. /\ n.roots = [m.roots EXCEPT ![t][k] = o]
        /\ n.objects = [m.objects EXCEPT ![o] = [Empty EXCEPT ![p[2]] = v]]
    BY <1>6 DEF Changed
  <2>2. o \in Objects /\ o.object
    BY <1>1, ObjectsDiffer
  <2> HIDE DEF o, k
  <2>3. ASSUME NEW u \in TargetSet, NEW l \in Keys
        PROVE  n.roots[u][l] = IF u = t /\ l = k THEN o ELSE m.roots[u][l]
    BY <1>1, <1>2, <2>1
  <2>4. ASSUME NEW x \in Objects, NEW l \in Leaves
        PROVE  n.objects[x][l] = IF x # o THEN m.objects[x][l] ELSE IF l = p[2] THEN v ELSE Absent
    BY <1>2, <2>1, <2>2 DEF Empty
  <2>5. ASSUME NEW u \in TargetSet, NEW l \in Keys, m.roots[u][l] = o PROVE u = t /\ l = k
    BY <1>1, <1>4, <2>2, <2>5, ObjectsDiffer, TargetsAssumption DEF o
  <2>6. ~m.roots[t][k].object
    BY <1>6, ObjectsDiffer DEF k
  <2>7. Find(t, p, n) = v
    BY <1>1, <1>3, <1>6, <2>2, <2>3, <2>4 DEF Find, k
  <2>8. ASSUME NEW q \in Paths, q # p, ~Above(q, p) PROVE Find(t, q, n) = Find(t, q, m)
    <3>1. CASE Len(q) = 1
      <4>1. q[1] # k
        BY <1>6, <2>8, <3>1 DEF Above, k
      <4> QED
        BY <1>3, <2>3, <3>1, <4>1 DEF Find
    <3>2. CASE Len(q) = 2 /\ q[1] = k
      <4>1. q[2] # p[2] /\ q[2] \in Leaves
        BY <1>3, <1>6, <2>8, <3>2
      <4>2. Find(t, q, n) = Absent
        BY <1>1, <2>2, <2>3, <2>4, <3>2, <4>1 DEF Find
      <4>3. Find(t, q, m) = Absent
        BY <2>6, <3>2 DEF Find
      <4> QED
        BY <4>2, <4>3
    <3>3. CASE Len(q) = 2 /\ q[1] # k
      <4>1. q[1] \in Keys /\ q[2] \in Leaves
        BY <1>3, <3>3
      <4>2. n.roots[t][q[1]] = m.roots[t][q[1]] /\ m.roots[t][q[1]] # o
        BY <2>3, <2>5, <3>3, <4>1
      <4> QED
        BY <1>4, <2>4, <3>3, <4>1, <4>2 DEF Find
    <3> QED
      BY <1>3, <3>1, <3>2, <3>3
  <2>9. ASSUME NEW q \in Paths, Above(q, p)
        PROVE  Find(t, q, n).object /\ Find(t, q, m) = Absent
    BY <1>1, <1>6, <2>2, <2>3, <2>9 DEF Find, Above, k
  <2>10. ASSUME NEW u \in TargetSet, NEW q \in Paths, u # t PROVE Find(u, q, n) = Find(u, q, m)
    <3>1. q[1] \in Keys /\ (Len(q) = 1 \/ (Len(q) = 2 /\ q[2] \in Leaves))
      BY <1>3
    <3>2. n.roots[u][q[1]] = m.roots[u][q[1]] /\ m.roots[u][q[1]] # o
      BY <2>3, <2>5, <2>10, <3>1
    <3> QED
      BY <1>4, <2>4, <3>1, <3>2 DEF Find
  <2> QED
    BY <2>7, <2>8, <2>9, <2>10
<1>7. CASE Len(p) = 2 /\ top # Absent
  <2>1. n.roots = m.roots /\ n.objects = [m.objects EXCEPT ![top][p[2]] = v]
    BY <1>7 DEF Changed
  <2>2. top.object
    BY <1>1, <1>4, <1>7 DEF Collides
  <2>3. top \in Objects /\ top \in {o, Object("shared", k)} /\ p[2] \in Leaves
    BY <1>1, <1>3, <1>4, <1>7, <2>2
  <2> HIDE DEF top, o, k
  <2>4. ASSUME NEW x \in Objects, NEW l \in Leaves
        PROVE  n.objects[x][l] = IF x = top /\ l = p[2] THEN v ELSE m.objects[x][l]
    BY <1>2, <2>1, <2>3
  <2>5. Find(t, p, n) = v
    BY <1>1, <1>7, <2>1, <2>2, <2>3, <2>4 DEF Find, k, top
  <2>6. ASSUME NEW u \in TargetSet, NEW q \in Paths, Find(u, q, n) # Find(u, q, m)
        PROVE  /\ m.roots[u][q[1]] = top /\ Len(q) = 2 /\ q[2] = p[2]
               /\ Find(u, q, n) = v
    BY <1>3, <1>4, <2>1, <2>4, <2>6 DEF Find
  <2>7. ASSUME NEW u \in TargetSet, NEW l \in Keys, m.roots[u][l] = top
        PROVE  l = k /\ (u # t => top = Object("shared", k))
    BY <1>1, <1>4, <2>2, <2>3, <2>7, ObjectsDiffer, TargetsAssumption DEF o
  <2>8. ASSUME NEW u \in TargetSet, NEW q \in Paths, Find(u, q, n) # Find(u, q, m)
        PROVE  q = p /\ (u # t => top = Object("shared", k) /\ m.roots[u][k] = top)
    BY <1>3, <1>7, <2>6, <2>7, <2>8
  <2>9. ASSUME NEW q \in Paths, Above(q, p)
        PROVE  Find(t, q, n) = top /\ Find(t, q, m) = top
    BY <2>1, <2>9 DEF Find, Above, k, top
  <2>10. ASSUME NEW u \in TargetSet, NEW q \in Paths, Find(u, q, n) # Find(u, q, m), u # t
         PROVE  /\ q = p /\ Len(p) = 2 /\ Find(u, q, n) = v
                /\ m.roots[u][k] = Object("shared", k) /\ m.roots[t][k] = Object("shared", k)
    BY <1>7, <2>6, <2>8, <2>10 DEF top
  <2> QED
    BY <2>2, <2>5, <2>8, <2>9, <2>10 DEF k
<1>8. Len(p) = 1 \/ Len(p) = 2
  BY PathShapes
<1> QED
  BY <1>5, <1>6, <1>7, <1>8

-----------------------------------------------------------------------------
(* What holds of a memory, given what the paths were when the case started *)

IsScalar(v) == v # Absent /\ ~v.object

\* A root is a scalar that was loaded or that was captured.
ScalarRoots(m, was) ==
  \A u \in TargetSet, k \in Keys :
    IsScalar(Find(u, <<k>>, m)) <=> IsScalar(was[u][<<k>>]) \/ m.captured[u][<<k>>] # Absent

\* An object of the shared part has been there from the start.
SharedAreLoaded(m, was) ==
  \A u \in TargetSet, k \in Keys :
    m.roots[u][k] = Object("shared", k) => was[u][<<k>>] = Object("shared", k)

\* What was captured is found, as this target captured it or, in an object of the
\* shared part, as some target did, unless the object was captured over.
CapturesHold(m, source) ==
  \A u \in TargetSet, q \in Paths : m.captured[u][q] # Absent =>
    \/ Len(q) = 2 /\ m.captured[u][<<q[1]>>] # Absent
    \/ \E w \in TargetSet :
         /\ w = u \/ m.roots[u][q[1]] = Object("shared", q[1])
         /\ Find(u, q, m) = Value(source, w, q)

\* What was loaded is found.
LoadedKept(m, was) ==
  \A u \in TargetSet, q \in Paths : was[u][q] # Absent => Find(u, q, m) = was[u][q]

\* What the other targets found they still find, if not with the same value.
OthersFind(t, m, n) ==
  \A u \in TargetSet, q \in Paths : u # t /\ Find(u, q, m) # Absent => Find(u, q, n) # Absent

\* A leaf is loaded in an object, and two targets that share one share its leaves.
LoadedNest(was) ==
  /\ \A u \in TargetSet, p, q \in Paths :
       Above(p, q) /\ was[u][q] # Absent => was[u][p] # Absent
  /\ \A u, t \in TargetSet, k \in Keys, q \in Paths :
       /\ was[u][<<k>>] = Object("shared", k) /\ was[t][<<k>>] = Object("shared", k)
       /\ Above(<<k>>, q)
       => was[u][q] = was[t][q]

(* A root is what is found under its key. *)
LEMMA FindRoot ==
  ASSUME NEW m, NEW u, NEW k \in Keys PROVE Find(u, <<k>>, m) = m.roots[u][k]
BY PathShapes DEF Find

(* A capture leaves a memory. *)
LEMMA SaveKeepsMemory ==
  ASSUME NEW S, NEW source, AreScalars(S, source), NEW m \in Memories(S),
         NEW t \in TargetSet, NEW p \in Paths
  PROVE  Save(t, p, source, m) \in Memories(S)
<1>1. m.collided \in BOOLEAN
  BY DEF Memories
<1>2. CASE m.collided \/ Collides(t, p, m)
  BY <1>2, SaveCollides
<1>3. CASE ~m.collided /\ ~Collides(t, p, m)
  BY <1>3, SaveChanges
<1> QED
  BY <1>1, <1>2, <1>3

(* What is the same in two memories holds of both. *)
LEMMA SameHolds ==
  ASSUME NEW m, NEW n, n.roots = m.roots, n.objects = m.objects, n.captured = m.captured,
         NEW was
  PROVE  /\ \A u, q : Find(u, q, n) = Find(u, q, m)
         /\ ScalarRoots(m, was) => ScalarRoots(n, was)
         /\ SharedAreLoaded(m, was) => SharedAreLoaded(n, was)
         /\ \A source : CapturesHold(m, source) => CapturesHold(n, source)
         /\ LoadedKept(m, was) => LoadedKept(n, was)
<1>1. \A u, q : Find(u, q, n) = Find(u, q, m)
  BY DEF Find
<1> QED
  BY <1>1 DEF ScalarRoots, SharedAreLoaded, CapturesHold, LoadedKept

(* What one capture keeps. *)
LEMMA ChangeKeeps ==
  ASSUME NEW S, NEW source, AreScalars(S, source), NEW m \in Memories(S),
         NEW t \in TargetSet, NEW p \in Paths, NEW n \in Memories(S), NEW v \in S, v # Absent,
         v = Value(source, t, p), Changed(m, n, t, p, v), ~Collides(t, p, m), NEW was
  PROVE  /\ ScalarRoots(m, was) => ScalarRoots(n, was)
         /\ SharedAreLoaded(m, was) => SharedAreLoaded(n, was)
         /\ CapturesHold(m, source) => CapturesHold(n, source)
         /\ OthersFind(t, m, n)
         /\ LoadedKept(m, was) /\ SharedAreLoaded(m, was) /\ LoadedNest(was) /\ was[t][p] = Absent
            => LoadedKept(n, was)
<1>1. /\ Find(t, p, n) = v
      /\ \A q \in Paths : q # p /\ ~Above(p, q) /\ ~Above(q, p) => Find(t, q, n) = Find(t, q, m)
      /\ \A q \in Paths : Above(q, p) =>
           /\ Find(t, q, n).object
           /\ Find(t, q, m) # Absent => Find(t, q, m).object /\ Find(t, q, n) = Find(t, q, m)
      /\ \A u \in TargetSet, q \in Paths : u # t =>
           \/ Find(u, q, n) = Find(u, q, m)
           \/ /\ q = p /\ Len(p) = 2 /\ Find(u, q, n) = v
              /\ m.roots[u][p[1]] = Object("shared", p[1])
              /\ m.roots[t][p[1]] = Object("shared", p[1])
  BY FoundAfterSave
<1>2. /\ v.object = FALSE /\ Absent.object = FALSE
      /\ \A u \in TargetSet, q \in Paths : m.captured[u][q] \in S /\ m.captured[u][q].object = FALSE
  BY DEF AreScalars, Memories
<1>3. \A u \in TargetSet, q \in Paths :
        n.captured[u][q] = IF u = t /\ q = p THEN v ELSE m.captured[u][q]
  BY DEF Changed, Memories
<1>4. /\ \A k \in Keys : <<k>> \in Paths /\ Len(<<k>>) = 1 /\ <<k>>[1] = k
      /\ \A q \in Paths : q[1] \in Keys /\ (Len(q) = 1 => q = <<q[1]>>)
  BY PathShapes
<1>5. \A u \in TargetSet, k \in Keys :
        Find(u, <<k>>, n) = n.roots[u][k] /\ Find(u, <<k>>, m) = m.roots[u][k]
  BY FindRoot
<1>6. ASSUME NEW u \in TargetSet, NEW k \in Keys
      PROVE  \/ n.roots[u][k] = m.roots[u][k] /\ ~(u = t /\ p = <<k>>)
             \/ u = t /\ p = <<k>> /\ n.roots[u][k] = v
             \/ u = t /\ Len(p) = 2 /\ m.roots[u][k] = Absent /\ n.roots[u][k] = Object(u, k)
  <2>1. m.roots \in [TargetSet -> [Keys -> S \cup Objects]]
    BY DEF Memories, Roots
  <2>2. p[1] \in Keys /\ (Len(p) = 1 \/ Len(p) = 2)
    BY PathShapes
  <2>3. CASE Len(p) = 1
    <3>1. n.roots = [m.roots EXCEPT ![t][p[1]] = v]
      BY <2>3 DEF Changed
    <3>2. p = <<p[1]>>
      BY <1>4, <2>3
    <3>3. n.roots[u][k] = IF u = t /\ k = p[1] THEN v ELSE m.roots[u][k]
      BY <2>1, <2>2, <3>1
    <3>4. p = <<k>> => k = p[1]
      BY <1>4
    <3> QED
      BY <3>2, <3>3, <3>4
  <2>4. CASE Len(p) = 2
    <3>1. p # <<k>>
      BY <1>4, <2>4
    <3>2. CASE m.roots[t][p[1]] = Absent
      <4>1. n.roots = [m.roots EXCEPT ![t][p[1]] = Object(t, p[1])]
        BY <2>4, <3>2 DEF Changed
      <4>2. n.roots[u][k] = IF u = t /\ k = p[1] THEN Object(t, p[1]) ELSE m.roots[u][k]
        BY <2>1, <2>2, <4>1
      <4> QED
        BY <2>4, <3>1, <3>2, <4>2
    <3>3. CASE m.roots[t][p[1]] # Absent
      BY <2>4, <3>1, <3>3 DEF Changed
    <3> QED
      BY <3>2, <3>3
  <2> QED
    BY <2>2, <2>3, <2>4
<1>7. ScalarRoots(m, was) => ScalarRoots(n, was)
  <2> SUFFICES ASSUME ScalarRoots(m, was), NEW u \in TargetSet, NEW k \in Keys
               PROVE  IsScalar(Find(u, <<k>>, n)) <=>
                        IsScalar(was[u][<<k>>]) \/ n.captured[u][<<k>>] # Absent
    BY DEF ScalarRoots
  <2>1. IsScalar(m.roots[u][k]) <=> IsScalar(was[u][<<k>>]) \/ m.captured[u][<<k>>] # Absent
    BY <1>5 DEF ScalarRoots
  <2>2. <<k>> \in Paths /\ Find(u, <<k>>, n) = n.roots[u][k]
    BY <1>4, <1>5
  <2>3. Object(u, k).object
    BY ObjectsDiffer
  <2>4. CASE n.roots[u][k] = m.roots[u][k] /\ ~(u = t /\ p = <<k>>)
    BY <1>3, <2>1, <2>2, <2>4
  <2>5. CASE u = t /\ p = <<k>> /\ n.roots[u][k] = v
    BY <1>2, <1>3, <2>2, <2>5 DEF IsScalar
  <2>6. CASE u = t /\ Len(p) = 2 /\ m.roots[u][k] = Absent /\ n.roots[u][k] = Object(u, k)
    <3>1. p # <<k>>
      BY <1>4, <2>6
    <3> QED
      BY <1>3, <2>1, <2>2, <2>3, <2>6, <3>1 DEF IsScalar
  <2> QED
    BY <1>6, <2>4, <2>5, <2>6
<1>8. \A u \in TargetSet, k \in Keys :
        n.roots[u][k] = Object("shared", k) => m.roots[u][k] = Object("shared", k)
  BY <1>2, <1>6, ObjectsDiffer, TargetsAssumption
<1>9. SharedAreLoaded(m, was) => SharedAreLoaded(n, was)
  BY <1>8 DEF SharedAreLoaded
<1>10. ASSUME CapturesHold(m, source) PROVE CapturesHold(n, source)
  <2> SUFFICES ASSUME NEW u \in TargetSet, NEW q \in Paths, n.captured[u][q] # Absent,
                      Len(q) = 2 => n.captured[u][<<q[1]>>] = Absent
               PROVE  \E w \in TargetSet :
                        /\ w = u \/ n.roots[u][q[1]] = Object("shared", q[1])
                        /\ Find(u, q, n) = Value(source, w, q)
    BY DEF CapturesHold
  <2>1. CASE u = t /\ q = p
    BY <1>1, <2>1
  <2>2. CASE ~(u = t /\ q = p)
    <3>1. q[1] \in Keys /\ <<q[1]>> \in Paths /\ (Len(q) = 1 => q = <<q[1]>>)
      BY <1>4
    <3>2. m.captured[u][q] # Absent /\ (Len(q) = 2 => m.captured[u][<<q[1]>>] = Absent)
      BY <1>3, <2>2, <3>1
    <3>3. PICK w \in TargetSet :
            /\ w = u \/ m.roots[u][q[1]] = Object("shared", q[1])
            /\ Find(u, q, m) = Value(source, w, q)
      BY <3>2, <1>10 DEF CapturesHold
    <3>4. Value(source, w, q).object = FALSE /\ Object("shared", q[1]) # Absent
      BY ObjectsDiffer
    <3>5. Find(u, q, m) # Absent
      BY <3>3 DEF AreScalars
    <3>6. ~(u = t /\ Above(p, q)) /\ ~(u = t /\ Above(q, p)) /\ ~(u = t /\ p = <<q[1]>>)
      <4>1. ASSUME u = t, Above(p, q) PROVE FALSE
        BY <1>3, <1>4, <3>1, <4>1 DEF Above
      <4>2. ASSUME u = t, Above(q, p) PROVE FALSE
        BY <1>1, <3>3, <3>4, <3>5, <4>2
      <4>3. ASSUME u = t, p = <<q[1]>> PROVE FALSE
        <5>1. Len(q) = 1 \/ Len(q) = 2
          BY PathShapes
        <5> QED
          BY <1>4, <2>2, <3>1, <4>1, <4>3, <5>1 DEF Above
      <4> QED
        BY <4>1, <4>2, <4>3
    <3>7. m.roots[u][q[1]] = Object("shared", q[1]) => n.roots[u][q[1]] = m.roots[u][q[1]]
      BY <1>6, <3>1, <3>4, <3>6
    <3>8. CASE Find(u, q, n) = Find(u, q, m)
      BY <3>3, <3>7, <3>8
    <3>9. CASE Find(u, q, n) # Find(u, q, m)
      <4>1. u # t
        BY <1>1, <2>2, <3>6, <3>9
      <4>2. q = p /\ Find(u, q, n) = v /\ m.roots[u][p[1]] = Object("shared", p[1])
        BY <1>1, <3>9, <4>1
      <4> QED
        BY <3>7, <4>2
    <3> QED
      BY <3>8, <3>9
  <2> QED
    BY <2>1, <2>2
<1>11. OthersFind(t, m, n)
  BY <1>1 DEF OthersFind
<1>12. ASSUME LoadedKept(m, was), SharedAreLoaded(m, was), LoadedNest(was), was[t][p] = Absent
       PROVE  LoadedKept(n, was)
  <2> SUFFICES ASSUME NEW u \in TargetSet, NEW q \in Paths, was[u][q] # Absent
               PROVE  Find(u, q, n) = was[u][q]
    BY DEF LoadedKept
  <2>1. Find(u, q, m) = was[u][q]
    BY <1>12 DEF LoadedKept
  <2>2. CASE u = t
    <3>1. q # p /\ ~Above(p, q)
      BY <1>12, <2>2 DEF LoadedNest
    <3> QED
      BY <1>1, <2>1, <2>2, <3>1
  <2>3. CASE u # t
    <3> SUFFICES ASSUME Find(u, q, n) # Find(u, q, m) PROVE FALSE
      BY <2>1
    <3> DEFINE k == p[1]
    <3>1. /\ q = p /\ Len(p) = 2 /\ k \in Keys
          /\ m.roots[u][k] = Object("shared", k) /\ m.roots[t][k] = Object("shared", k)
      BY <1>1, <1>4, <2>3
    <3>2. Above(<<k>>, q)
      BY <1>4, <3>1 DEF Above
    <3>3. was[u][q] = was[t][q]
      BY <1>12, <3>1, <3>2 DEF SharedAreLoaded, LoadedNest
    <3> QED
      BY <1>12, <3>1, <3>3
  <2> QED
    BY <2>2, <2>3
<1> QED
  BY <1>7, <1>9, <1>10, <1>11, <1>12

-----------------------------------------------------------------------------
(* What the captures of a step change *)

(* Saved goes from the memory through one capture after the other. *)
LEMMA SavedIs ==
  ASSUME NEW S, NEW source, AreScalars(S, source), NEW m \in Memories(S),
         NEW t \in TargetSet, NEW paths \in Seq(Paths)
  PROVE  /\ Saved(t, paths, source, m)[0] = m
         /\ \A n \in 1 .. Len(paths) :
              /\ paths[n] \in Paths
              /\ Saved(t, paths, source, m)[n] =
                   Save(t, paths[n], source, Saved(t, paths, source, m)[n - 1])
         /\ \A n \in 0 .. Len(paths) : Saved(t, paths, source, m)[n] \in Memories(S)
<1> DEFINE last == Len(paths)
           all == Memories(S)
           Further(x, n) == Save(t, paths[n], source, x)
           Walked(f) == [n \in 0 .. last |-> IF n = 0 THEN m ELSE Further(f[n - 1], n)]
           after == CHOOSE f : f = Walked(f)
           add == [x \in all \X (1 .. last) |-> Further(x[1], x[2])]
<1>1. last \in Nat /\ \A n \in 1 .. last : paths[n] \in Paths
  BY LenProperties, ElementOfSeq
<1>2. \A x \in all, n \in 1 .. last : Further(x, n) \in all
  BY <1>1, SaveKeepsMemory
<1> HIDE DEF all, Further
<1>3. add \in [all \X (1 .. last) -> all]
  BY <1>2
<1>4. \A x \in all : \A n \in 1 .. last : add[<<x, n>>] = Further(x, n)
  OBVIOUS
<1>5. PICK f \in [0 .. last -> all] : f[0] = m /\ \A n \in 1 .. last : f[n] = add[<<f[n - 1], n>>]
  <2>1. m \in all
    BY DEF all
  <2> HIDE DEF last, add
  <2>2. \E f \in [0 .. last -> all] : IsWalk(f, last, m, add)
    BY <1>1, <1>3, <2>1, WalkExists
  <2> QED
    BY <2>2 DEF IsWalk
<1> HIDE DEF add
<1>6. \A n \in 0 .. last : n # 0 => n \in 1 .. last /\ n - 1 \in 0 .. last
  BY <1>1
<1>7. \A n \in 1 .. last : n \in 0 .. last /\ n - 1 \in 0 .. last /\ f[n] = Further(f[n - 1], n)
  BY <1>1, <1>4, <1>5
<1>8. f = Walked(f)
  BY <1>5, <1>6, <1>7
<1>9. after = Walked(after)
  <2> HIDE DEF Walked
  <2> QED
    BY <1>8
<1>10. Saved(t, paths, source, m) = after
  BY DEF Saved, Further
<1> HIDE DEF after, last
<1>11. after[0] = m /\ \A n \in 1 .. last : after[n] = Further(after[n - 1], n)
  BY <1>1, <1>6, <1>9
<1> DEFINE good == {n \in 0 .. last : after[n] \in all}
<1>12. 0 \in good
  BY <1>1, <1>11 DEF all
<1>13. \A n \in 1 .. last : n - 1 \in good => n \in good
  BY <1>1, <1>2, <1>11
<1>14. \A n \in 0 .. last : n \in good
  <2> HIDE DEF good
  <2> QED
    BY <1>1, <1>12, <1>13, Climb
<1>15. \A n \in 0 .. last : after[n] \in all
  BY <1>14
<1> QED
  BY <1>1, <1>10, <1>11, <1>15 DEF all, Further, last

\* The capture n does not collide: by name.
Free(t, paths, m, was, n) ==
  Len(paths[n]) = 2 =>
    /\ ~IsScalar(was[t][<<paths[n][1]>>])
    /\ m.captured[t][<<paths[n][1]>>] = Absent
    /\ \A j \in 1 .. n - 1 : paths[j] # <<paths[n][1]>>

\* After n captures those names are captured, or fewer after a collision.
CapturedSo(t, paths, m, w, n) ==
  /\ \A u \in TargetSet, q \in Paths : u # t => w.captured[u][q] = m.captured[u][q]
  /\ \A q \in Paths :
       w.captured[t][q] # Absent => m.captured[t][q] # Absent \/ \E j \in 1 .. n : paths[j] = q
  /\ ~w.collided => \A q \in Paths :
       m.captured[t][q] # Absent \/ (\E j \in 1 .. n : paths[j] = q) => w.captured[t][q] # Absent

(* The captures of a step, one after the other: what they keep of the memory they
   start from, and when one of them collides. *)
LEMMA SavedKeeps ==
  ASSUME NEW S, NEW source, AreScalars(S, source), NEW m \in Memories(S), ~m.collided,
         NEW t \in TargetSet, NEW paths \in Seq(Paths), NEW was, ScalarRoots(m, was),
         NEW n \in 0 .. Len(paths)
  PROVE  LET w == Saved(t, paths, source, m)[n] IN
         /\ w \in Memories(S)
         /\ CapturedSo(t, paths, m, w, n)
         /\ ~w.collided <=> \A j \in 1 .. n : Free(t, paths, m, was, j)
         /\ ScalarRoots(w, was)
         /\ SharedAreLoaded(m, was) => SharedAreLoaded(w, was)
         /\ CapturesHold(m, source) => CapturesHold(w, source)
         /\ OthersFind(t, m, w)
         /\ /\ LoadedKept(m, was) /\ SharedAreLoaded(m, was) /\ LoadedNest(was)
            /\ \A j \in 1 .. Len(paths) : was[t][paths[j]] = Absent
            => LoadedKept(w, was)
<1> DEFINE last == Len(paths)
           w == Saved(t, paths, source, m)
           Unloaded == \A j \in 1 .. last : was[t][paths[j]] = Absent
           Counted(i) == /\ CapturedSo(t, paths, m, w[i], i)
                         /\ ~w[i].collided <=> \A j \in 1 .. i : Free(t, paths, m, was, j)
           Kept(i) == /\ ScalarRoots(w[i], was)
                      /\ SharedAreLoaded(m, was) => SharedAreLoaded(w[i], was)
                      /\ CapturesHold(m, source) => CapturesHold(w[i], source)
                      /\ OthersFind(t, m, w[i])
                      /\ /\ LoadedKept(m, was) /\ SharedAreLoaded(m, was)
                         /\ LoadedNest(was) /\ Unloaded
                         => LoadedKept(w[i], was)
           good == {i \in 0 .. last : Counted(i) /\ Kept(i)}
<1>1. /\ last \in Nat /\ w[0] = m
      /\ \A i \in 1 .. last : paths[i] \in Paths /\ w[i] = Save(t, paths[i], source, w[i - 1])
      /\ \A i \in 0 .. last : w[i] \in Memories(S)
  BY SavedIs, LenProperties
<1>2. 0 \in good
  BY <1>1 DEF CapturedSo, OthersFind
<1>3. ASSUME NEW i \in 1 .. last, i - 1 \in good PROVE i \in good
  <2> DEFINE p == paths[i]
             x == w[i - 1]
             v == Value(source, t, p)
  <2>1. /\ i - 1 \in 0 .. last /\ i \in 0 .. last /\ i \in Nat /\ p \in Paths
        /\ x \in Memories(S) /\ w[i] \in Memories(S) /\ w[i] = Save(t, p, source, x)
        /\ \A j \in 1 .. i : j = i \/ j \in 1 .. (i - 1)
        /\ \A j \in 1 .. (i - 1) : j \in 1 .. i
    BY <1>1
  <2>2. Counted(i - 1) /\ Kept(i - 1)
    BY <1>3
  <2>3. v \in S /\ v # Absent /\ x.collided \in BOOLEAN /\ w[i].collided \in BOOLEAN
    BY <2>1 DEF AreScalars, Memories
  <2> HIDE DEF w, v, good
  <2>4. ~x.collided => (Collides(t, p, x) <=> ~Free(t, paths, m, was, i))
    <3> SUFFICES ASSUME ~x.collided PROVE Collides(t, p, x) <=> ~Free(t, paths, m, was, i)
      OBVIOUS
    <3> DEFINE k == p[1]
    <3>1. k \in Keys /\ <<k>> \in Paths
      BY <2>1, PathShapes
    <3>2. IsScalar(x.roots[t][k]) <=> IsScalar(was[t][<<k>>]) \/ x.captured[t][<<k>>] # Absent
      BY <2>2, <3>1, FindRoot DEF ScalarRoots
    <3>3. x.captured[t][<<k>>] # Absent <=>
            m.captured[t][<<k>>] # Absent \/ \E j \in 1 .. i - 1 : paths[j] = <<k>>
      BY <2>2, <3>1 DEF CapturedSo
    <3> QED
      BY <3>2, <3>3 DEF Collides, Free, IsScalar
  <2>5. CASE x.collided \/ Collides(t, p, x)
    <3>1. /\ w[i].roots = x.roots /\ w[i].objects = x.objects /\ w[i].captured = x.captured
          /\ w[i].collided
      BY <2>1, <2>5, SaveCollides
    <3>2. Counted(i)
      BY <2>1, <2>2, <2>3, <2>4, <2>5, <3>1 DEF CapturedSo
    <3>3. Kept(i)
      <4>1. OthersFind(t, m, w[i])
        BY <2>2, <3>1, SameHolds DEF OthersFind
      <4> HIDE DEF Unloaded
      <4> QED
        BY <2>2, <3>1, <4>1, SameHolds
    <3> QED
      BY <2>1, <3>2, <3>3 DEF good
  <2>6. CASE ~x.collided /\ ~Collides(t, p, x)
    <3>1. Changed(x, w[i], t, p, v) /\ ~w[i].collided
      BY <2>1, <2>6, SaveChanges DEF v
    <3>2. \A u \in TargetSet, q \in Paths :
            w[i].captured[u][q] = IF u = t /\ q = p THEN v ELSE x.captured[u][q]
      <4> HIDE DEF x, p
      <4>1. w[i].captured = [x.captured EXCEPT ![t][p] = v]
        BY <3>1 DEF Changed
      <4>2. x.captured \in [TargetSet -> [Paths -> S]]
        BY <2>1 DEF Memories
      <4> QED
        BY <2>1, <4>1, <4>2
    <3>3. CapturedSo(t, paths, m, w[i], i)
      <4>1. \A u \in TargetSet, q \in Paths : u # t => w[i].captured[u][q] = m.captured[u][q]
        BY <2>2, <3>2 DEF CapturedSo
      <4>2. ASSUME NEW q \in Paths, w[i].captured[t][q] # Absent
            PROVE  m.captured[t][q] # Absent \/ \E j \in 1 .. i : paths[j] = q
        <5>1. CASE q = p
          BY <2>1, <5>1
        <5>2. CASE q # p
          BY <2>1, <2>2, <3>2, <4>2, <5>2 DEF CapturedSo
        <5> QED
          BY <5>1, <5>2
      <4>3. ASSUME NEW q \in Paths, m.captured[t][q] # Absent \/ \E j \in 1 .. i : paths[j] = q
            PROVE  w[i].captured[t][q] # Absent
        <5>1. CASE q = p
          BY <2>3, <3>2, <5>1
        <5>2. CASE q # p
          <6>1. m.captured[t][q] # Absent \/ \E j \in 1 .. i - 1 : paths[j] = q
            BY <2>1, <4>3, <5>2
          <6>2. x.captured[t][q] # Absent
            BY <2>2, <2>6, <6>1 DEF CapturedSo
          <6> QED
            BY <3>2, <5>2, <6>2
        <5> QED
          BY <5>1, <5>2
      <4> QED
        BY <4>1, <4>2, <4>3 DEF CapturedSo
    <3>4. \A j \in 1 .. i : Free(t, paths, m, was, j)
      BY <2>1, <2>2, <2>4, <2>6
    <3>5. Unloaded => was[t][p] = Absent
      OBVIOUS
    <3>6. Kept(i)
      <4>1. /\ ScalarRoots(x, was) => ScalarRoots(w[i], was)
            /\ SharedAreLoaded(x, was) => SharedAreLoaded(w[i], was)
            /\ CapturesHold(x, source) => CapturesHold(w[i], source)
            /\ OthersFind(t, x, w[i])
            /\ /\ LoadedKept(x, was) /\ SharedAreLoaded(x, was)
               /\ LoadedNest(was) /\ was[t][p] = Absent
               => LoadedKept(w[i], was)
        <5>1. v = Value(source, t, p)
          BY DEF v
        <5> HIDE DEF p, x, v, Unloaded
        <5> QED
          BY <2>1, <2>3, <2>6, <3>1, <5>1, ChangeKeeps
      <4>2. OthersFind(t, m, w[i])
        BY <2>2, <4>1 DEF OthersFind
      <4> HIDE DEF Unloaded
      <4> QED
        BY <2>2, <3>5, <4>1, <4>2
    <3> QED
      BY <2>1, <3>1, <3>3, <3>4, <3>6 DEF good
  <2> QED
    BY <2>3, <2>5, <2>6
<1>4. \A i \in 0 .. last : i \in good
  <2> HIDE DEF good
  <2> QED
    BY <1>1, <1>2, <1>3, Climb
<1> QED
  BY <1>1, <1>4

-----------------------------------------------------------------------------
(* Transcripts and their captures *)

(* The parts of a transcript are what the assumption says. *)
LEMMA StepsAre ==
  ASSUME transcript \in Transcripts
  PROVE  /\ Steps = 1 .. Len(transcript.steps) /\ Len(transcript.steps) \in Nat \ {0}
         /\ transcript.requires \subseteq Paths
         /\ \A s \in Steps :
              /\ transcript.steps[s].captures \in Seq(Paths)
              /\ DOMAIN transcript.steps[s].captures = 1 .. Len(transcript.steps[s].captures)
              /\ Len(transcript.steps[s].captures) \in Nat
              /\ Captures(s) \subseteq Paths
              /\ \A q : q \in Captures(s) <=>
                   \E j \in 1 .. Len(transcript.steps[s].captures) :
                     transcript.steps[s].captures[j] = q
              /\ transcript.steps[s].uses \subseteq Paths
              /\ Before(transcript.steps[s]) \subseteq Paths
              /\ After(transcript.steps[s]) \subseteq Paths
<1> DEFINE Kind == [uses : SUBSET Paths, expects : SUBSET Paths, captures : Seq(Paths),
                    rules : SUBSET Paths, policy : SUBSET Paths]
<1>1. transcript.requires \subseteq Paths /\ transcript.steps \in Seq(Kind) \ {<<>>}
  BY TranscriptsAssumption
<1>2. Steps = 1 .. Len(transcript.steps) /\ Len(transcript.steps) \in Nat \ {0}
  BY <1>1, LenProperties, EmptySeq DEF Steps
<1>3. ASSUME NEW s \in Steps PROVE transcript.steps[s] \in Kind
  BY <1>1, <1>2, ElementOfSeq
<1>4. ASSUME NEW s \in Steps
      PROVE  /\ transcript.steps[s].captures \in Seq(Paths)
             /\ transcript.steps[s].uses \subseteq Paths
             /\ Before(transcript.steps[s]) \subseteq Paths
             /\ After(transcript.steps[s]) \subseteq Paths
  BY <1>3 DEF Before, After
<1>5. ASSUME NEW s \in Steps
      PROVE  /\ DOMAIN transcript.steps[s].captures = 1 .. Len(transcript.steps[s].captures)
             /\ Len(transcript.steps[s].captures) \in Nat
             /\ Captures(s) \subseteq Paths
             /\ \A q : q \in Captures(s) <=>
                  \E j \in 1 .. Len(transcript.steps[s].captures) :
                    transcript.steps[s].captures[j] = q
  <2> DEFINE c == transcript.steps[s].captures
  <2>1. c \in Seq(Paths)
    BY <1>4
  <2>2. DOMAIN c = 1 .. Len(c) /\ Len(c) \in Nat /\ \A j \in 1 .. Len(c) : c[j] \in Paths
    BY <2>1, LenProperties, ElementOfSeq
  <2>3. Captures(s) = {c[j] : j \in DOMAIN c}
    BY DEF Captures, ToSet
  <2> QED
    BY <2>2, <2>3
<1> QED
  BY <1>1, <1>2, <1>4, <1>5

(* The captures up to a step are those before it and its own. *)
LEMMA UpTo ==
  ASSUME transcript \in Transcripts
  PROVE  /\ CapturesUpTo(0) = {}
         /\ \A s \in Steps : CapturesUpTo(s) = CapturesUpTo(s - 1) \cup Captures(s)
         /\ \A s \in Steps : \A q : q \in CapturesUpTo(s - 1) <=>
              \E r \in 1 .. s - 1 : r \in Steps /\ q \in Captures(r)
         /\ \A s \in Steps : CapturesUpTo(s) \subseteq Paths /\ CapturesUpTo(s - 1) \subseteq Paths
<1>1. Steps = 1 .. Len(transcript.steps) /\ Len(transcript.steps) \in Nat
  BY StepsAre
<1>2. CapturesUpTo(0) = {}
  BY DEF CapturesUpTo
<1>3. ASSUME NEW s \in Steps PROVE CapturesUpTo(s) = CapturesUpTo(s - 1) \cup Captures(s)
  <2>1. /\ s \in 1 .. s /\ \A r \in 1 .. s : r = s \/ r \in 1 .. (s - 1)
        /\ \A r \in 1 .. (s - 1) : r \in 1 .. s
    BY <1>1
  <2> HIDE DEF Captures
  <2> QED
    BY <2>1 DEF CapturesUpTo
<1>4. ASSUME NEW s \in Steps, NEW q
      PROVE  q \in CapturesUpTo(s - 1) <=> \E r \in 1 .. s - 1 : r \in Steps /\ q \in Captures(r)
  <2>1. \A r \in 1 .. s - 1 : r \in Steps
    BY <1>1
  <2> QED
    BY <2>1 DEF CapturesUpTo
<1>5. ASSUME NEW s \in Steps
      PROVE  CapturesUpTo(s) \subseteq Paths /\ CapturesUpTo(s - 1) \subseteq Paths
  BY <1>3, <1>4, StepsAre
<1> QED
  BY <1>2, <1>3, <1>4, <1>5

-----------------------------------------------------------------------------
(* The plan *)

\* What an accepted plan says of the names: every path is captured before it is
\* looked up or was loaded, no capture takes a loaded one, and neither a request
\* nor a capture leads into what was captured as a scalar before.
PlanSays ==
  \A t \in TargetSet, s \in Steps :
    LET now == transcript.steps[s] IN
      /\ \A p \in Before(now) : p \in CapturesUpTo(s - 1) \/ loaded[t][p] # Absent
      /\ \A p \in After(now) : p \in CapturesUpTo(s) \/ loaded[t][p] # Absent
      /\ \A p \in Captures(s) : loaded[t][p] = Absent
      /\ \A p \in now.uses : Len(p) = 2 => <<p[1]>> \notin CapturesUpTo(s - 1)
      /\ \A j \in 1 .. Len(now.captures) : Len(now.captures[j]) = 2 =>
           LET top == <<now.captures[j][1]>> IN
             /\ ~IsScalar(loaded[t][top])
             /\ top \notin CapturesUpTo(s - 1)
             /\ \A i \in 1 .. j - 1 : now.captures[i] # top

PlanValues == Values \cup {Value("plan", t, p) : t \in TargetSet, p \in Paths}

(* Neither a value that was loaded or captured nor a planned one is an object. *)
LEMMA ValuesAreScalars == AreScalars(Values, "reply") /\ AreScalars(PlanValues, "plan")
<1>1. /\ \A v \in PlanValues : v.object = FALSE
      /\ Absent \in Values /\ Values \subseteq PlanValues
      /\ \A t \in TargetSet, p \in Paths :
           Value("reply", t, p) \in Values /\ Value("plan", t, p) \in PlanValues
  BY ObjectsDiffer DEF PlanValues, Values
<1>2. /\ \A o, p : Value("reply", o, p).source = "reply" /\ Value("plan", o, p).source = "plan"
      /\ Absent.source = "none"
  BY DEF Absent, Value
<1>3. \A o, p : Value("reply", o, p) # Absent /\ Value("plan", o, p) # Absent
  BY <1>2
<1> QED
  BY <1>1, <1>3 DEF AreScalars

(* The variables are a memory. *)
LEMMA NowIsMemory ==
  /\ TypeOK => Now \in Memories(Values) /\ Now \in Memories(PlanValues)
  /\ ~Now.collided
  /\ Now.roots = root /\ Now.objects = heap /\ Now.captured = captured
<1>1. Values \subseteq PlanValues
  BY DEF PlanValues
<1> QED
  BY <1>1 DEF Now, TypeOK, Memories, Roots

(* The plan goes from the variables of a target through one step after the other. *)
LEMMA PlannedIs ==
  ASSUME TypeOK, transcript \in Transcripts, NEW t \in TargetSet
  PROVE  /\ Planned(t)[0] = Now
         /\ \A s \in Steps : Planned(t)[s] =
              LET c == transcript.steps[s].captures IN
                Saved(t, c, "plan", Planned(t)[s - 1])[Len(c)]
         /\ \A s \in 0 .. Len(transcript.steps) : Planned(t)[s] \in Memories(PlanValues)
<1> DEFINE last == Len(transcript.steps)
           all == Memories(PlanValues)
           Further(x, s) ==
             LET c == transcript.steps[s].captures IN Saved(t, c, "plan", x)[Len(c)]
           Walked(f) == [s \in 0 .. last |-> IF s = 0 THEN Now ELSE Further(f[s - 1], s)]
           after == CHOOSE f : f = Walked(f)
           add == [x \in all \X (1 .. last) |-> Further(x[1], x[2])]
<1>1. last \in Nat /\ Steps = 1 .. last
  BY StepsAre
<1>2. \A x \in all, s \in 1 .. last : Further(x, s) \in all
  <2> SUFFICES ASSUME NEW x \in all, NEW s \in 1 .. last PROVE Further(x, s) \in all
    OBVIOUS
  <2> DEFINE c == transcript.steps[s].captures
  <2>1. c \in Seq(Paths) /\ Len(c) \in Nat
    BY <1>1, StepsAre
  <2>2. Len(c) \in 0 .. Len(c)
    BY <2>1
  <2> HIDE DEF c
  <2>3. Saved(t, c, "plan", x)[Len(c)] \in all
    BY <2>1, <2>2, SavedIs, ValuesAreScalars
  <2> QED
    BY <2>3 DEF c
<1>3. Now \in all
  BY NowIsMemory
<1> HIDE DEF all, Further
<1>4. add \in [all \X (1 .. last) -> all]
  BY <1>2
<1>5. \A x \in all : \A s \in 1 .. last : add[<<x, s>>] = Further(x, s)
  OBVIOUS
<1>6. PICK f \in [0 .. last -> all] : f[0] = Now /\ \A s \in 1 .. last : f[s] = add[<<f[s - 1], s>>]
  <2> HIDE DEF last, add
  <2>1. \E f \in [0 .. last -> all] : IsWalk(f, last, Now, add)
    BY <1>1, <1>3, <1>4, WalkExists
  <2> QED
    BY <2>1 DEF IsWalk
<1> HIDE DEF add
<1>7. \A s \in 0 .. last : s # 0 => s \in 1 .. last /\ s - 1 \in 0 .. last
  BY <1>1
<1>8. \A s \in 1 .. last : s \in 0 .. last /\ s - 1 \in 0 .. last /\ f[s] = Further(f[s - 1], s)
  <2>1. \A s \in 1 .. last : s \in 0 .. last /\ s - 1 \in 0 .. last /\ f[s - 1] \in all
    BY <1>1, <1>6
  <2>2. \A s \in 1 .. last : f[s] = Further(f[s - 1], s)
    BY <1>5, <1>6, <2>1
  <2> QED
    BY <2>1, <2>2
<1>9. f = Walked(f)
  BY <1>6, <1>7, <1>8
<1>10. after = Walked(after)
  <2> HIDE DEF Walked
  <2> QED
    BY <1>9
<1>11. Planned(t) = after
  BY DEF Planned, Further
<1> HIDE DEF after, last
<1>12. after[0] = Now /\ \A s \in 1 .. last : after[s] = Further(after[s - 1], s)
  BY <1>1, <1>7, <1>10
<1> DEFINE good == {s \in 0 .. last : after[s] \in all}
<1>13. 0 \in good
  BY <1>1, <1>3, <1>12
<1>14. \A s \in 1 .. last : s - 1 \in good => s \in good
  BY <1>1, <1>2, <1>12
<1>15. \A s \in 0 .. last : s \in good
  <2> HIDE DEF good
  <2> QED
    BY <1>1, <1>13, <1>14, Climb
<1>16. \A s \in 0 .. last : after[s] \in all
  BY <1>15
<1> QED
  BY <1>1, <1>11, <1>12, <1>16 DEF all, Further, last

\* Before the case starts nothing is captured, and every path is as it was loaded.
Fresh ==
  /\ \A u \in TargetSet, q \in Paths : captured[u][q] = Absent
  /\ \A u \in TargetSet, q \in Paths : loaded[u][q] = Lookup(u, q)

(* Fresh roots are those that were loaded. *)
LEMMA FreshScalars ==
  ASSUME TypeOK, Fresh
  PROVE  ScalarRoots(Now, loaded)
<1> SUFFICES ASSUME NEW u \in TargetSet, NEW k \in Keys
             PROVE  IsScalar(Find(u, <<k>>, Now)) <=>
                      IsScalar(loaded[u][<<k>>]) \/ Now.captured[u][<<k>>] # Absent
  BY DEF ScalarRoots
<1>1. <<k>> \in Paths
  BY PathShapes
<1> QED
  BY <1>1, NowIsMemory DEF Fresh, Lookup

(* A plan that is accepted says all that; that no capture collides comes from
   following the planned variables from step to step. *)
LEMMA AcceptedPlanSays ==
  ASSUME TypeOK, transcript \in Transcripts, Fresh, ~PlanRejects
  PROVE  PlanSays
<1>1. ASSUME NEW t \in TargetSet
      PROVE  /\ \A s \in Steps : \A j \in 1 .. Len(transcript.steps[s].captures) :
                  LET c == transcript.steps[s].captures
                      top == <<c[j][1]>> IN
                    Len(c[j]) = 2 =>
                      /\ ~IsScalar(loaded[t][top])
                      /\ top \notin CapturesUpTo(s - 1)
                      /\ \A i \in 1 .. j - 1 : c[i] # top
             /\ \A s \in Steps : \A p \in transcript.steps[s].uses :
                  Len(p) = 2 => <<p[1]>> \notin CapturesUpTo(s - 1)
  <2> DEFINE last == Len(transcript.steps)
             after == Planned(t)
             Said(s) == /\ ~after[s].collided
                        /\ ScalarRoots(after[s], loaded)
                        /\ \A q \in Paths :
                             after[s].captured[t][q] # Absent <=> q \in CapturesUpTo(s)
             c(s) == transcript.steps[s].captures
             FreeIn(s) == \A j \in 1 .. Len(c(s)) : Free(t, c(s), after[s - 1], loaded, j)
             good == {s \in 0 .. last : Said(s)}
  <2>1. last \in Nat /\ Steps = 1 .. last
    BY StepsAre
  <2>2. \A s \in Steps : ~after[s].collided
    BY DEF PlanRejects, Unplannable
  <2>3. /\ after[0] = Now
        /\ \A s \in Steps : after[s] = Saved(t, c(s), "plan", after[s - 1])[Len(c(s))]
        /\ \A s \in 0 .. last : after[s] \in Memories(PlanValues)
    BY PlannedIs
  <2> HIDE DEF after
  <2>4. 0 \in good
    BY <2>1, <2>3, FreshScalars, NowIsMemory, UpTo DEF Fresh
  <2>5. ASSUME NEW s \in Steps, Said(s - 1) PROVE Said(s) /\ FreeIn(s)
    <3> DEFINE d == c(s)
               m == after[s - 1]
               n == Len(d)
    <3>1. /\ s - 1 \in 0 .. last /\ m \in Memories(PlanValues) /\ d \in Seq(Paths) /\ n \in Nat
          /\ n \in 0 .. n /\ after[s] = Saved(t, d, "plan", m)[n] /\ ~m.collided
          /\ ScalarRoots(m, loaded) /\ ~after[s].collided
      BY <2>1, <2>2, <2>3, <2>5, StepsAre
    <3> HIDE DEF d, m
    <3>2. /\ CapturedSo(t, d, m, after[s], n)
          /\ ~after[s].collided <=> \A j \in 1 .. n : Free(t, d, m, loaded, j)
          /\ ScalarRoots(after[s], loaded)
      <4>1. n = Len(d) /\ n \in 0 .. Len(d)
        BY <3>1
      <4> HIDE DEF n
      <4> QED
        BY <3>1, <4>1, SavedKeeps, ValuesAreScalars
    <3>3. \A q \in Paths : m.captured[t][q] # Absent <=> q \in CapturesUpTo(s - 1)
      BY <2>5 DEF m
    <3>4. \A q : (\E j \in 1 .. n : d[j] = q) <=> q \in Captures(s)
      BY StepsAre DEF d
    <3>5. CapturesUpTo(s) = CapturesUpTo(s - 1) \cup Captures(s)
      BY UpTo
    <3>6. \A q \in Paths : after[s].captured[t][q] # Absent <=> q \in CapturesUpTo(s)
      BY <3>1, <3>2, <3>3, <3>4, <3>5 DEF CapturedSo
    <3>7. FreeIn(s)
      BY <3>1, <3>2 DEF d, m
    <3> QED
      BY <3>1, <3>2, <3>6, <3>7
  <2>6. \A s \in 0 .. last : s \in good
    <3>1. \A s \in 1 .. last : s - 1 \in good => s \in good
      BY <2>1, <2>5
    <3> HIDE DEF good
    <3> QED
      BY <2>1, <2>4, <3>1, Climb
  <2>7. ASSUME NEW s \in Steps, NEW j \in 1 .. Len(c(s)), Len(c(s)[j]) = 2
        PROVE  LET top == <<c(s)[j][1]>> IN
                 /\ ~IsScalar(loaded[t][top])
                 /\ top \notin CapturesUpTo(s - 1)
                 /\ \A i \in 1 .. j - 1 : c(s)[i] # top
    <3>1. Said(s - 1) /\ FreeIn(s)
      <4>1. s - 1 \in 0 .. last
        BY <2>1
      <4> HIDE DEF FreeIn
      <4> QED
        BY <2>5, <2>6, <4>1
    <3>2. c(s)[j] \in Paths
      BY StepsAre, ElementOfSeq
    <3>3. <<c(s)[j][1]>> \in Paths
      BY <3>2, PathShapes
    <3> QED
      BY <2>7, <3>1, <3>3 DEF Free
  <2>8. ASSUME NEW s \in Steps, NEW p \in transcript.steps[s].uses, Len(p) = 2
        PROVE  <<p[1]>> \notin CapturesUpTo(s - 1)
    <3>1. p \in Paths /\ p[1] \in Keys /\ <<p[1]>> \in Paths
      BY StepsAre, PathShapes
    <3>2. Said(s - 1)
      <4>1. s - 1 \in 0 .. last
        BY <2>1
      <4> QED
        BY <2>6, <4>1
    <3>3. Find(t, p, after[s - 1]) # Absent
      BY DEF PlanRejects, Unplannable, after
    <3>4. ~IsScalar(Find(t, <<p[1]>>, after[s - 1]))
      BY <2>8, <3>1, <3>3, FindRoot DEF Find, IsScalar
    <3> QED
      BY <3>1, <3>2, <3>4 DEF ScalarRoots
  <2> QED
    BY <2>7, <2>8
<1>2. ASSUME NEW t \in TargetSet, NEW s \in Steps
      PROVE  /\ \A p \in Before(transcript.steps[s]) :
                  p \in CapturesUpTo(s - 1) \/ loaded[t][p] # Absent
             /\ \A p \in After(transcript.steps[s]) :
                  p \in CapturesUpTo(s) \/ loaded[t][p] # Absent
             /\ \A p \in Captures(s) : loaded[t][p] = Absent
  <2>1. ~Unresolved(t, s) /\ ~Shadows(t, s)
    BY DEF PlanRejects
  <2>2. \A p \in Paths : Has(t, p) <=> loaded[t][p] # Absent
    BY DEF Fresh, Has
  <2> QED
    BY <2>1, <2>2, StepsAre DEF Unresolved, Shadows
<1> QED
  BY <1>1, <1>2 DEF PlanSays

-----------------------------------------------------------------------------
(* The invariant *)

Typed == TypeOK /\ complete \in BOOLEAN /\ transcript \in Transcripts

\* The steps whose captures the target i has behind it.
Done(i) == IF pc \in {"judge", "done"} \/ (pc = "exchange" /\ i < turn) THEN step ELSE step - 1

\* A target has captured nothing but what the steps behind it capture, and all of
\* that as long as nothing went wrong with it.
CapturedSoFar ==
  pc \in {"plan", "validate", "exchange", "judge", "done"} =>
    \A i \in DOMAIN Targets, q \in Paths :
      /\ captured[Targets[i]][q] # Absent => q \in CapturesUpTo(Done(i))
      /\ errors = {} \/ (pc = "exchange" /\ i >= turn) =>
           (q \in CapturesUpTo(Done(i)) => captured[Targets[i]][q] # Absent)

NoErrorBetween == pc \in {"plan", "validate", "done"} => errors = {}

\* A case that runs was accepted, and in a complete run so was its plan.
Accepted ==
  Running =>
    /\ ~TranscriptRejects
    /\ \A t \in TargetSet, p \in transcript.requires : loaded[t][p] # Absent
    /\ complete => PlanSays

MemoryHolds ==
  /\ ScalarRoots(Now, loaded)
  /\ SharedAreLoaded(Now, loaded)
  /\ LoadedNest(loaded)
  /\ CapturesHold(Now, "reply")
  /\ complete => LoadedKept(Now, loaded)

IInv ==
  /\ Typed
  /\ pc = "plan" => Fresh /\ step = 1
  /\ CapturedSoFar
  /\ NoErrorBetween
  /\ Accepted
  /\ MemoryHolds

(* Every target has its turn at one place of the list. *)
LEMMA TargetsAre ==
  /\ Len(Targets) \in Nat \ {0} /\ DOMAIN Targets = 1 .. Len(Targets)
  /\ \A i \in DOMAIN Targets : Targets[i] \in TargetSet
  /\ \A t \in TargetSet : \E i \in DOMAIN Targets : t = Targets[i]
<1>1. Targets \in Seq(TargetSet) /\ Targets # <<>>
  BY TargetsAssumption
<1>2. TargetSet = {Targets[i] : i \in DOMAIN Targets}
  BY DEF TargetSet, ToSet
<1> QED
  BY <1>1, <1>2, LenProperties, EmptySeq

(* What the configuration gives is typed. *)
LEMMA LoadIsTyped ==
  ASSUME NEW shared, NEW own, Load(shared, own)
  PROVE  /\ root \in [TargetSet -> [Keys -> Values \cup Objects]]
         /\ \A t \in TargetSet, k \in Keys :
              root[t][k].object => root[t][k] \in {Object(t, k), Object("shared", k)}
         /\ heap \in [Objects -> [Leaves -> Values]]
<1>1. /\ Absent \in Values
      /\ \A o \in Owners, p \in Paths : Value("config", o, p) \in Values
      /\ \A v \in Values : v.object = FALSE
  BY ObjectsDiffer DEF Values
<1>2. /\ \A k \in Keys : <<k>> \in Paths
      /\ \A k \in Keys, l \in Leaves : <<k, l>> \in Paths
  BY PathShapes
<1>3. \A o \in Owners, k \in Keys : \A item :
        Resolve(o, k, item) \in Values \cup {Object(o, k)} /\ Object(o, k) \in Objects
  BY <1>1, <1>2 DEF Resolve, Objects
<1>4. "shared" \in Owners /\ TargetSet \subseteq Owners
  BY DEF Owners
<1>5. ASSUME NEW t \in TargetSet, NEW k \in Keys
      PROVE  Merge(t, k, shared, own) \in Values \cup {Object(t, k), Object("shared", k)}
  BY <1>3, <1>4 DEF Merge
<1>6. root = [t \in TargetSet |-> [k \in Keys |-> Merge(t, k, shared, own)]]
  BY DEF Load
<1>7. \A o \in Owners, k \in Keys : \A item : Fields(o, k, item) \in [Leaves -> Values]
  BY <1>1, <1>2 DEF Fields
<1>8. \A t \in TargetSet, k \in Keys : \A s, i : MergedFields(t, k, s, i) \in [Leaves -> Values]
  BY <1>4, <1>7 DEF MergedFields
<1>9. ASSUME NEW x \in Objects
      PROVE  x.owner \in Owners /\ x.path[1] \in Keys
  <2>1. PICK o \in Owners, k \in Keys : x = Object(o, k)
    BY DEF Objects
  <2>2. x.owner = o /\ x.path = <<k>>
    BY <2>1 DEF Object
  <2> QED
    BY <2>2
<1>10. heap \in [Objects -> [Leaves -> Values]]
  <2>1. Empty \in [Leaves -> Values]
    BY <1>1 DEF Empty
  <2>2. \A x \in Objects : x.owner \in TargetSet \/ x.owner = "shared"
    BY <1>9 DEF Owners
  <2> QED
    BY <1>4, <1>7, <1>8, <1>9, <2>1, <2>2, Zenon DEF Load
<1>11. root \in [TargetSet -> [Keys -> Values \cup Objects]]
  BY <1>3, <1>4, <1>5, <1>6
<1>12. ASSUME NEW t \in TargetSet, NEW k \in Keys, root[t][k].object
       PROVE  root[t][k] \in {Object(t, k), Object("shared", k)}
  BY <1>1, <1>5, <1>6, <1>12
<1> QED
  BY <1>10, <1>11, <1>12

(* The invariant, action by action. *)
LEMMA InitIInv == Init => IInv
<1> SUFFICES ASSUME Init PROVE IInv
  OBVIOUS
<1>1. PICK shared \in [Keys -> SharedItems], own \in [TargetSet -> [Keys -> OwnItems]] :
        Load(shared, own)
  BY DEF Init
<1>2. TypeOK
  <2>1. step \in Steps /\ turn \in DOMAIN Targets
    BY StepsAre, TargetsAre DEF Init
  <2>2. Absent \in Values
    BY DEF Values
  <2> QED
    BY <1>1, <2>1, <2>2, LoadIsTyped DEF Init, TypeOK
<1>3. Fresh
  BY DEF Init, Fresh
<1>4. ScalarRoots(Now, loaded)
  BY <1>2, <1>3, FreshScalars
<1>5. \A u \in TargetSet, q \in Paths : loaded[u][q] = Find(u, q, Now)
  BY <1>3 DEF Fresh, Lookup
<1>6. /\ \A k \in Keys : <<k>> \in Paths /\ <<k>>[1] = k
      /\ \A u, k : k \in Keys => Find(u, <<k>>, Now) = Now.roots[u][k]
  BY PathShapes, FindRoot
<1>7. SharedAreLoaded(Now, loaded)
  BY <1>5, <1>6 DEF SharedAreLoaded
<1>8. LoadedKept(Now, loaded)
  BY <1>5 DEF LoadedKept
<1>9. LoadedNest(loaded)
  <2>1. ASSUME NEW u \in TargetSet, NEW p \in Paths, NEW q \in Paths, Above(p, q),
               Find(u, q, Now) # Absent
        PROVE  Find(u, p, Now) # Absent
    BY <2>1, ObjectsDiffer DEF Find, Above
  <2>2. ASSUME NEW u \in TargetSet, NEW t \in TargetSet, NEW k \in Keys, NEW q \in Paths,
               Find(u, <<k>>, Now) = Object("shared", k), Find(t, <<k>>, Now) = Object("shared", k),
               Above(<<k>>, q)
        PROVE  Find(u, q, Now) = Find(t, q, Now)
    <3>1. q[1] = k /\ Now.roots[u][k] = Now.roots[t][k]
      BY <1>6, <2>2 DEF Above
    <3> QED
      BY <3>1 DEF Find
  <2> QED
    BY <1>5, <1>6, <2>1, <2>2 DEF LoadedNest
<1>10. CapturedSoFar
  <2>1. CapturesUpTo(0) = {} /\ \A i \in DOMAIN Targets : Targets[i] \in TargetSet
    BY UpTo, TargetsAre DEF Init
  <2>2. \A i : Done(i) = 0
    BY DEF Done, Init
  <2> QED
    BY <1>3, <2>1, <2>2 DEF CapturedSoFar, Fresh
<1>11. CapturesHold(Now, "reply")
  BY <1>3, NowIsMemory DEF CapturesHold, Fresh
<1> QED
  BY <1>2, <1>3, <1>4, <1>7, <1>8, <1>9, <1>10, <1>11
     DEF Init, IInv, Typed, NoErrorBetween, Accepted, Running, MemoryHolds

(* What is said of the transcript and of the start stays. *)
LEMMA StaticsStay ==
  ASSUME UNCHANGED <<transcript, loaded>>
  PROVE  /\ \A s : CapturesUpTo(s)' = CapturesUpTo(s)
         /\ TranscriptRejects' <=> TranscriptRejects
         /\ PlanSays' <=> PlanSays
         /\ Steps' = Steps
<1>1. \A s : CapturesUpTo(s)' = CapturesUpTo(s) /\ Captures(s)' = Captures(s)
  BY DEF CapturesUpTo, Captures
<1>2. Steps' = Steps /\ AllCaptures' = AllCaptures
  BY DEF Steps, AllCaptures, Captures
<1>3. DuplicateNames' <=> DuplicateNames
  BY DEF DuplicateNames, Steps
<1>4. TranscriptRejects' <=> TranscriptRejects
  BY <1>1, <1>2, <1>3 DEF TranscriptRejects
<1>5. PlanSays' <=> PlanSays
  BY <1>1, <1>2 DEF PlanSays
<1> QED
  BY <1>1, <1>2, <1>4, <1>5

(* The memory after a step is what the step left in the variables. *)
LEMMA NextMemory ==
  ASSUME NEW n, root' = n.roots, heap' = n.objects, captured' = n.captured
  PROVE  /\ \A u, q : Lookup(u, q)' = Find(u, q, n)
         /\ UNCHANGED <<loaded, complete>> /\ LoadedNest(loaded)
            /\ ScalarRoots(n, loaded) /\ SharedAreLoaded(n, loaded) /\ CapturesHold(n, "reply")
            /\ (complete => LoadedKept(n, loaded))
            => MemoryHolds'
<1>1. \A u, q : Find(u, q, Now)' = Find(u, q, n)
  BY DEF Find, Now
<1>2. Now'.captured = n.captured /\ Now'.roots = n.roots
  BY DEF Now
<1>3. UNCHANGED loaded =>
        /\ ScalarRoots(n, loaded) => ScalarRoots(Now, loaded)'
        /\ SharedAreLoaded(n, loaded) => SharedAreLoaded(Now, loaded)'
        /\ LoadedKept(n, loaded) => LoadedKept(Now, loaded)'
        /\ LoadedNest(loaded) => LoadedNest(loaded)'
  BY <1>1, <1>2 DEF ScalarRoots, SharedAreLoaded, LoadedKept, LoadedNest
<1>4. CapturesHold(n, "reply") => CapturesHold(Now, "reply")'
  BY <1>1, <1>2 DEF CapturesHold
<1> QED
  BY <1>1, <1>3, <1>4 DEF MemoryHolds, Lookup

(* A step of the control leaves the memory as it is. *)
LEMMA ControlKeeps ==
  ASSUME IInv, UNCHANGED <<complete, transcript, root, heap, loaded, captured>>
  PROVE  MemoryHolds'
BY NowIsMemory, NextMemory DEF IInv, MemoryHolds

(* The case starts accepted. *)
LEMMA StartKeepsIInv == ASSUME IInv, Start PROVE IInv'
<1>1. UNCHANGED <<complete, transcript, root, heap, loaded, captured, step, turn, errors>>
      /\ pc = "plan" /\ pc' = "validate"
  BY DEF Start, Goto
<1>2. MemoryHolds'
  BY <1>1, ControlKeeps
<1>3. Typed'
  BY <1>1 DEF IInv, Typed, TypeOK, Steps
<1>4. CapturedSoFar'
  <2>1. \A i : Done(i)' = Done(i)
    BY <1>1 DEF Done
  <2> QED
    BY <1>1, <2>1, StaticsStay DEF IInv, CapturedSoFar
<1>5. NoErrorBetween'
  BY <1>1 DEF IInv, NoErrorBetween
<1>6. Accepted'
  <2>1. ~TranscriptRejects /\ ~Gated /\ (complete => ~PlanRejects) /\ Fresh /\ TypeOK
        /\ transcript \in Transcripts
    BY <1>1 DEF Start, IInv, Typed
  <2>2. complete => PlanSays
    BY <2>1, AcceptedPlanSays
  <2>3. \A t \in TargetSet, p \in transcript.requires : loaded[t][p] # Absent
    BY <2>1, StepsAre DEF Gated, Has, Fresh
  <2> QED
    BY <1>1, <2>1, <2>2, <2>3, StaticsStay DEF Accepted
<1> QED
  BY <1>1, <1>2, <1>3, <1>4, <1>5, <1>6 DEF IInv

LEMMA RejectKeepsIInv == ASSUME IInv, Reject PROVE IInv'
<1>1. UNCHANGED <<complete, transcript, root, heap, loaded, captured, step, turn, errors>>
      /\ pc = "plan" /\ pc' = "rejected"
  BY DEF Reject, Goto
<1>2. MemoryHolds'
  BY <1>1, ControlKeeps
<1>3. Typed'
  BY <1>1 DEF IInv, Typed, TypeOK, Steps
<1> QED
  BY <1>1, <1>2, <1>3 DEF IInv, CapturedSoFar, NoErrorBetween, Accepted, Running

(* An accepted case stays accepted. *)
LEMMA AcceptedStays ==
  ASSUME IInv, UNCHANGED <<complete, transcript, loaded>>, Running
  PROVE  Accepted'
BY StaticsStay DEF IInv, Accepted

LEMMA ValidateKeepsIInv == ASSUME IInv, Validate PROVE IInv'
<1>1. UNCHANGED <<complete, transcript, root, heap, loaded, captured, step>>
      /\ pc = "validate" /\ turn' = 1
      /\ \/ errors' = {} /\ pc' = "exchange"
         \/ errors' # {} /\ pc' = "failed"
  BY DEF Validate, Goto
<1>2. MemoryHolds' /\ Accepted'
  BY <1>1, ControlKeeps, AcceptedStays DEF Running
<1>3. Typed'
  BY <1>1, TargetsAre DEF IInv, Typed, TypeOK, Steps
<1>4. CapturedSoFar'
  <2> SUFFICES ASSUME pc' = "exchange" PROVE CapturedSoFar'
    BY <1>1 DEF CapturedSoFar
  <2>1. \A i \in DOMAIN Targets : Done(i)' = Done(i)
    BY <1>1, TargetsAre DEF Done
  <2>2. errors = {}
    BY <1>1 DEF IInv, NoErrorBetween
  <2> QED
    BY <1>1, <2>1, <2>2, StaticsStay DEF IInv, CapturedSoFar
<1> QED
  BY <1>1, <1>2, <1>3, <1>4 DEF IInv, NoErrorBetween

LEMMA DifferKeepsIInv == ASSUME IInv, Differ PROVE IInv'
<1>1. UNCHANGED <<complete, transcript, root, heap, loaded, captured, step, turn>>
      /\ pc \in {"validate", "judge"} /\ pc' = "failed"
  BY DEF Differ, Goto
<1>2. MemoryHolds' /\ Accepted'
  BY <1>1, ControlKeeps, AcceptedStays DEF Running
<1>3. Typed'
  BY <1>1 DEF IInv, Typed, TypeOK, Steps
<1> QED
  BY <1>1, <1>2, <1>3 DEF IInv, CapturedSoFar, NoErrorBetween

LEMMA JudgeKeepsIInv == ASSUME IInv, Judge PROVE IInv'
<1>1. UNCHANGED <<complete, transcript, root, heap, loaded, captured, turn>>
      /\ pc = "judge" /\ (errors # {} => errors' # {})
      /\ \/ pc' = "failed" /\ errors' # {}
         \/ pc' = "validate" /\ errors' = {} /\ step' = step + 1
         \/ pc' = "done" /\ errors' = {} /\ step' = step
      /\ step' = IF step < Len(transcript.steps) THEN step + 1 ELSE step
  BY DEF Judge, Goto
<1>2. MemoryHolds' /\ Accepted'
  BY <1>1, ControlKeeps, AcceptedStays DEF Running
<1>3. Steps = 1 .. Len(transcript.steps) /\ Len(transcript.steps) \in Nat /\ step \in Steps
  BY StepsAre DEF IInv, Typed, TypeOK
<1>4. Typed'
  <2>1. step' \in Steps
    BY <1>1, <1>3
  <2> QED
    BY <1>1, <2>1 DEF IInv, Typed, TypeOK, Steps
<1>5. CapturedSoFar'
  <2> SUFFICES ASSUME pc' # "failed" PROVE CapturedSoFar'
    BY <1>1 DEF CapturedSoFar
  <2>1. \A i \in DOMAIN Targets : Done(i)' = Done(i)
    BY <1>1, <1>3 DEF Done
  <2>2. errors = {}
    BY <1>1
  <2> QED
    BY <1>1, <2>1, <2>2, StaticsStay DEF IInv, CapturedSoFar
<1> QED
  BY <1>1, <1>2, <1>4, <1>5 DEF IInv, NoErrorBetween

(* The turn passes on. *)
LEMMA TurnPasses ==
  ASSUME IInv, pc = "exchange", NEW wrong, NextTurn(wrong)
  PROVE  /\ UNCHANGED <<complete, transcript, step, loaded>>
         /\ pc' \in {"exchange", "judge"} /\ turn' \in DOMAIN Targets
         /\ errors' = errors \cup wrong
         /\ \A i \in DOMAIN Targets :
              /\ Done(i) = IF i < turn THEN step ELSE step - 1
              /\ Done(i)' = IF i <= turn THEN step ELSE step - 1
              /\ pc' = "exchange" /\ i >= turn' => i > turn
<1>1. turn \in DOMAIN Targets /\ DOMAIN Targets = 1 .. Len(Targets) /\ Len(Targets) \in Nat
  BY TargetsAre DEF IInv, Typed, TypeOK
<1> QED
  BY <1>1 DEF NextTurn, Done

LEMMA RefusedKeepsIInv == ASSUME IInv, Refused PROVE IInv'
<1>1. PICK wrong \in {"reply", "lookup"} : NextTurn({wrong})
  BY DEF Refused
<1>2. pc = "exchange" /\ UNCHANGED <<root, heap, captured>>
  BY DEF Refused
<1>3. /\ UNCHANGED <<complete, transcript, step, loaded>>
      /\ pc' \in {"exchange", "judge"} /\ turn' \in DOMAIN Targets
      /\ errors' # {}
      /\ \A i \in DOMAIN Targets :
           /\ Done(i) = IF i < turn THEN step ELSE step - 1
           /\ Done(i)' = IF i <= turn THEN step ELSE step - 1
           /\ pc' = "exchange" /\ i >= turn' => i > turn
  BY <1>1, <1>2, TurnPasses
<1>4. MemoryHolds' /\ Accepted'
  BY <1>2, <1>3, ControlKeeps, AcceptedStays DEF Running
<1>5. Typed'
  BY <1>2, <1>3 DEF IInv, Typed, TypeOK, Steps
<1>6. CapturedSoFar'
  <2>1. CapturesUpTo(step - 1) \subseteq CapturesUpTo(step)
    BY UpTo DEF IInv, Typed, TypeOK
  <2>2. /\ turn \in Nat /\ \A i \in DOMAIN Targets : i \in Nat
    BY TargetsAre DEF IInv, Typed, TypeOK
  <2> SUFFICES ASSUME NEW i \in DOMAIN Targets, NEW q \in Paths
               PROVE  /\ captured[Targets[i]][q] # Absent => q \in CapturesUpTo(Done(i)')
                      /\ pc' = "exchange" /\ i >= turn' =>
                           (q \in CapturesUpTo(Done(i)') => captured[Targets[i]][q] # Absent)
    BY <1>2, <1>3, StaticsStay DEF CapturedSoFar
  <2>3. /\ captured[Targets[i]][q] # Absent => q \in CapturesUpTo(Done(i))
        /\ i >= turn => (q \in CapturesUpTo(Done(i)) => captured[Targets[i]][q] # Absent)
    BY <1>2 DEF IInv, CapturedSoFar
  <2> QED
    BY <1>3, <2>1, <2>2, <2>3
<1> QED
  BY <1>3, <1>4, <1>5, <1>6 DEF IInv, NoErrorBetween

-----------------------------------------------------------------------------
(* The turn of a target *)

(* A target saves captures of the step under way into its variables. *)
LEMMA ExchangeIs ==
  ASSUME IInv, Exchange
  PROVE  /\ pc = "exchange" /\ TypeOK /\ transcript \in Transcripts
         /\ UNCHANGED <<complete, transcript, step, loaded>>
         /\ turn \in DOMAIN Targets /\ Here \in TargetSet /\ step \in Steps
         /\ ThisStep = transcript.steps[step]
         /\ ThisStep.captures \in Seq(Paths) /\ Len(ThisStep.captures) \in Nat
         /\ \E given \in 0 .. Len(ThisStep.captures) :
              LET n == Saved(Here, ThisStep.captures, "reply", Now)[given] IN
                /\ root' = n.roots /\ heap' = n.objects /\ captured' = n.captured
                /\ NextTurn(IF n.collided THEN {"capture"}
                            ELSE IF given < Len(ThisStep.captures) THEN {"reply"}
                            ELSE IF \E path \in ThisStep.rules : FindKey(Here, path, n) = Absent
                              THEN {"lookup"}
                            ELSE {})
<1>1. TypeOK /\ transcript \in Transcripts /\ step \in Steps /\ turn \in DOMAIN Targets
  BY DEF IInv, Typed, TypeOK
<1>2. Here \in TargetSet
  BY <1>1, TargetsAre DEF Here
<1>3. ThisStep = transcript.steps[step]
  BY DEF ThisStep
<1>4. ThisStep.captures \in Seq(Paths) /\ Len(ThisStep.captures) \in Nat
  BY <1>1, <1>3, StepsAre
<1>5. UNCHANGED <<complete, transcript, step, loaded>> /\ pc = "exchange"
  BY DEF Exchange, NextTurn
<1> QED
  BY <1>1, <1>2, <1>3, <1>4, <1>5, Zenon DEF Exchange

(* Until its turn is over a target has captured what the steps before capture. *)
LEMMA CapturedBefore ==
  ASSUME IInv, pc = "exchange", NEW q \in Paths
  PROVE  captured[Here][q] # Absent <=> q \in CapturesUpTo(step - 1)
<1>1. turn \in DOMAIN Targets /\ turn \in Nat
  BY TargetsAre DEF IInv, Typed, TypeOK
<1>2. Done(turn) = step - 1
  BY <1>1 DEF Done
<1> QED
  BY <1>1, <1>2 DEF IInv, CapturedSoFar, Here

\* What SavedKeeps says of the captures of this turn.
LEMMA TurnSaves ==
  ASSUME IInv, Exchange, NEW given \in 0 .. Len(ThisStep.captures)
  PROVE  LET c == ThisStep.captures
             n == Saved(Here, c, "reply", Now)[given] IN
         /\ n \in Memories(Values)
         /\ CapturedSo(Here, c, Now, n, given)
         /\ ~n.collided <=> \A j \in 1 .. given : Free(Here, c, Now, loaded, j)
         /\ ScalarRoots(n, loaded) /\ SharedAreLoaded(n, loaded) /\ LoadedNest(loaded)
         /\ CapturesHold(n, "reply")
         /\ OthersFind(Here, Now, n)
         /\ complete => LoadedKept(n, loaded)
<1> DEFINE c == ThisStep.captures
           n == Saved(Here, c, "reply", Now)[given]
<1>1. /\ TypeOK /\ transcript \in Transcripts /\ Here \in TargetSet /\ step \in Steps
      /\ c = transcript.steps[step].captures
      /\ c \in Seq(Paths) /\ Len(c) \in Nat /\ pc = "exchange" /\ given \in 0 .. Len(c)
  BY ExchangeIs
<1>2. /\ Now \in Memories(Values) /\ ~Now.collided /\ Now.captured = captured
  BY <1>1, NowIsMemory
<1>3. ScalarRoots(Now, loaded) /\ SharedAreLoaded(Now, loaded) /\ LoadedNest(loaded)
      /\ CapturesHold(Now, "reply") /\ (complete => LoadedKept(Now, loaded))
  BY DEF IInv, MemoryHolds
<1>4. complete => \A j \in 1 .. Len(c) : loaded[Here][c[j]] = Absent
  <2>1. complete => PlanSays
    BY <1>1 DEF IInv, Accepted, Running
  <2>2. \A j \in 1 .. Len(c) : c[j] \in Captures(step)
    BY <1>1, StepsAre
  <2> QED
    BY <1>1, <2>1, <2>2 DEF PlanSays
<1> HIDE DEF c
<1> QED
  BY <1>1, <1>2, <1>3, <1>4, SavedKeeps, ValuesAreScalars DEF c

LEMMA ExchangeKeepsIInv == ASSUME IInv, Exchange PROVE IInv'
<1> DEFINE c == ThisStep.captures
           n(given) == Saved(Here, c, "reply", Now)[given]
           wrong(given) == IF n(given).collided THEN {"capture"}
                           ELSE IF given < Len(c) THEN {"reply"}
                           ELSE IF \E path \in ThisStep.rules : FindKey(Here, path, n(given)) = Absent
                             THEN {"lookup"}
                           ELSE {}
<1>1. /\ pc = "exchange" /\ TypeOK /\ transcript \in Transcripts
      /\ UNCHANGED <<complete, transcript, step, loaded>>
      /\ turn \in DOMAIN Targets /\ Here \in TargetSet /\ step \in Steps
      /\ c = transcript.steps[step].captures
      /\ c \in Seq(Paths) /\ Len(c) \in Nat
  BY ExchangeIs
<1>2. PICK given \in 0 .. Len(c) :
        /\ root' = n(given).roots /\ heap' = n(given).objects /\ captured' = n(given).captured
        /\ NextTurn(wrong(given))
  BY ExchangeIs
<1> DEFINE w == n(given)
<1>3. /\ w \in Memories(Values)
      /\ CapturedSo(Here, c, Now, w, given)
      /\ ScalarRoots(w, loaded) /\ SharedAreLoaded(w, loaded) /\ LoadedNest(loaded)
      /\ CapturesHold(w, "reply")
      /\ complete => LoadedKept(w, loaded)
  BY TurnSaves
<1>4. root' = w.roots /\ heap' = w.objects /\ captured' = w.captured
  BY <1>2
<1>5. /\ pc' \in {"exchange", "judge"} /\ turn' \in DOMAIN Targets
      /\ errors' = errors \cup wrong(given)
      /\ \A i \in DOMAIN Targets :
           /\ Done(i) = IF i < turn THEN step ELSE step - 1
           /\ Done(i)' = IF i <= turn THEN step ELSE step - 1
           /\ pc' = "exchange" /\ i >= turn' => i > turn
  <2> HIDE DEF wrong
  <2> QED
    BY <1>1, <1>2, TurnPasses
<1>6. errors' = {} => errors = {} /\ ~w.collided /\ given = Len(c)
  <2>1. errors' = {} => errors = {} /\ wrong(given) = {}
    <3> HIDE DEF wrong
    <3> QED
      BY <1>5
  <2>2. wrong(given) = {} => ~n(given).collided /\ ~(given < Len(c))
    <3> HIDE DEF n, c
    <3> QED
      OBVIOUS
  <2>3. ~(given < Len(c)) => given = Len(c)
    BY <1>1, <1>2
  <2> QED
    BY <2>1, <2>2, <2>3
<1> HIDE DEF w, wrong, n, c
<1>7. MemoryHolds'
  BY <1>1, <1>3, <1>4, NextMemory
<1>8. Accepted'
  BY <1>1, AcceptedStays DEF Running
<1>9. Typed'
  <2>1. /\ root' \in Roots(Values) /\ heap' \in [Objects -> [Leaves -> Values]]
        /\ captured' \in [TargetSet -> [Paths -> Values]]
    BY <1>3, <1>4 DEF Memories
  <2> QED
    BY <1>1, <1>5, <2>1 DEF IInv, Typed, TypeOK, Steps, Roots
<1>10. CapturedSoFar'
  <2>1. /\ CapturesUpTo(step) = CapturesUpTo(step - 1) \cup Captures(step)
        /\ \A q : q \in Captures(step) <=> \E j \in 1 .. Len(c) : c[j] = q
    BY <1>1, UpTo, StepsAre
  <2>2. turn \in Nat /\ (\A i \in DOMAIN Targets : i \in Nat /\ Targets[i] \in TargetSet)
    BY <1>1, TargetsAre
  <2> SUFFICES ASSUME NEW i \in DOMAIN Targets, NEW q \in Paths
               PROVE  /\ captured'[Targets[i]][q] # Absent => q \in CapturesUpTo(Done(i)')
                      /\ errors' = {} \/ (pc' = "exchange" /\ i >= turn') =>
                           (q \in CapturesUpTo(Done(i)') => captured'[Targets[i]][q] # Absent)
    BY <1>1, <1>5, StaticsStay DEF CapturedSoFar
  <2>3. /\ captured[Targets[i]][q] # Absent => q \in CapturesUpTo(Done(i))
        /\ errors = {} \/ i >= turn =>
             (q \in CapturesUpTo(Done(i)) => captured[Targets[i]][q] # Absent)
    BY <1>1 DEF IInv, CapturedSoFar
  <2>4. CASE i # turn
    <3>1. Targets[i] # Here /\ Targets[i] \in TargetSet
      BY <1>1, <2>2, <2>4, TargetsAssumption DEF Here
    <3>2. captured'[Targets[i]][q] = captured[Targets[i]][q]
      BY <1>3, <1>4, <3>1, NowIsMemory DEF CapturedSo
    <3>3. Done(i)' = Done(i)
      BY <1>5, <2>2, <2>4
    <3> QED
      BY <1>5, <1>6, <2>2, <2>3, <2>4, <3>2, <3>3
  <2>5. CASE i = turn
    <3>1. Done(i) = step - 1 /\ Done(i)' = step /\ Targets[i] = Here
      BY <1>5, <2>2, <2>5 DEF Here
    <3>2. captured[Here][q] # Absent <=> q \in CapturesUpTo(step - 1)
      BY <1>1, CapturedBefore
    <3>3. captured'[Here][q] # Absent => q \in CapturesUpTo(step)
      <4>1. \A j \in 1 .. given : j \in 1 .. Len(c)
        BY <1>1, <1>2
      <4> QED
        BY <1>3, <1>4, <2>1, <3>2, <4>1, NowIsMemory DEF CapturedSo
    <3>4. errors' = {} => (q \in CapturesUpTo(step) => captured'[Here][q] # Absent)
      BY <1>3, <1>4, <1>6, <2>1, <3>2, NowIsMemory DEF CapturedSo
    <3>5. ~(pc' = "exchange" /\ i >= turn')
      BY <1>5, <2>2, <2>5
    <3> QED
      BY <3>1, <3>3, <3>4, <3>5
  <2> QED
    BY <2>4, <2>5
<1> QED
  BY <1>1, <1>5, <1>7, <1>8, <1>9, <1>10 DEF IInv, NoErrorBetween

LEMMA NextKeepsIInv == IInv /\ [Next]_vars => IInv'
<1> SUFFICES ASSUME IInv, [Next]_vars PROVE IInv'
  OBVIOUS
<1>1. CASE UNCHANGED vars
  <2>1. /\ UNCHANGED <<pc, complete, transcript, root, heap, step, turn, loaded, captured, errors>>
    BY <1>1 DEF vars
  <2>2. MemoryHolds'
    BY <2>1, ControlKeeps
  <2>3. Typed' /\ (pc = "plan" => Fresh' /\ step' = 1)
    BY <2>1 DEF IInv, Typed, TypeOK, Steps, Fresh, Lookup, Now, Find
  <2>4. CapturedSoFar'
    <3>1. \A i : Done(i)' = Done(i)
      BY <2>1 DEF Done
    <3> QED
      BY <2>1, <3>1, StaticsStay DEF IInv, CapturedSoFar
  <2>5. NoErrorBetween' /\ Accepted'
    BY <2>1, StaticsStay DEF IInv, NoErrorBetween, Accepted, Running
  <2> QED
    BY <2>1, <2>2, <2>3, <2>4, <2>5 DEF IInv
<1> QED
  BY <1>1, RejectKeepsIInv, StartKeepsIInv, ValidateKeepsIInv, RefusedKeepsIInv, ExchangeKeepsIInv,
     JudgeKeepsIInv, DifferKeepsIInv DEF Next

LEMMA AlwaysIInv == Spec => []IInv
BY InitIInv, NextKeepsIInv, PTL DEF Spec

(* Type correctness: the variables stay dictionaries of scalars and of
   dictionaries of scalars, and no target holds an object of another's part. *)
THEOREM VariablesTypeCorrect == Spec => []TypeOK
BY AlwaysIInv, PTL DEF IInv, Typed

(* In a complete run no capture changes what the case declared as its fixture:
   the plan has refused every capture that could. *)
THEOREM CompleteRunsKeepTheFixture == Spec => []CompleteRunKeepsFixture
<1>1. IInv => CompleteRunKeepsFixture
  <2> SUFFICES ASSUME IInv, complete, Running, NEW t \in TargetSet, NEW p \in transcript.requires
               PROVE  Lookup(t, p) = loaded[t][p]
    BY DEF CompleteRunKeepsFixture, FixtureKept
  <2>1. p \in Paths /\ loaded[t][p] # Absent
    BY StepsAre DEF IInv, Typed, Accepted
  <2> QED
    BY <2>1 DEF IInv, MemoryHolds, LoadedKept, Lookup
<1> QED
  BY <1>1, AlwaysIInv, PTL

-----------------------------------------------------------------------------
(* What the requests are sent with *)

\* Once the requests are rendered, the targets whose turn is to come find the
\* variables of theirs.
Rendered ==
  pc = "exchange" =>
    \A i \in DOMAIN Targets, p \in ThisStep.uses : i >= turn => Has(Targets[i], p)

(* The captures of one target leave the requests of the others renderable. *)
LEMMA RequestsStayRendered == IInv /\ Rendered /\ [Next]_vars => Rendered'
<1> SUFFICES ASSUME IInv, Rendered, [Next]_vars, pc' = "exchange" PROVE Rendered'
  BY DEF Rendered
<1>1. CASE UNCHANGED vars
  BY <1>1 DEF vars, Rendered, ThisStep, Has, Lookup, Now, Find
<1>2. CASE Validate
  <2>1. UNCHANGED <<transcript, root, heap, step>> /\ ~Missing(TargetSet, ThisStep.uses)
    BY <1>2 DEF Validate, Goto
  <2>2. \A i \in DOMAIN Targets : Targets[i] \in TargetSet
    BY TargetsAre
  <2>3. ThisStep' = ThisStep /\ \A u, q : Has(u, q)' <=> Has(u, q)
    BY <2>1 DEF ThisStep, Has, Lookup, Now, Find
  <2> QED
    BY <2>1, <2>2, <2>3 DEF Rendered, Missing
<1>3. CASE Refused \/ Exchange
  <2>1. PICK wrong : pc = "exchange" /\ NextTurn(wrong)
    BY <1>3, Zenon DEF Refused, Exchange
  <2>2. turn \in Nat /\ turn' = turn + 1 /\ UNCHANGED <<transcript, step>>
    BY <2>1, TargetsAre DEF NextTurn, IInv, Typed, TypeOK
  <2>3. ASSUME NEW u \in TargetSet, NEW q \in Paths, u # Here, Has(u, q) PROVE Has(u, q)'
    <3>1. CASE Refused
      BY <2>3, <3>1 DEF Refused, Has, Lookup, Now, Find
    <3>2. CASE Exchange
      <4>1. PICK given \in 0 .. Len(ThisStep.captures) :
              LET n == Saved(Here, ThisStep.captures, "reply", Now)[given] IN
                root' = n.roots /\ heap' = n.objects /\ captured' = n.captured
        BY <3>2, ExchangeIs
      <4> DEFINE n == Saved(Here, ThisStep.captures, "reply", Now)[given]
      <4>2. root' = n.roots /\ heap' = n.objects /\ captured' = n.captured
        BY <4>1
      <4>3. OthersFind(Here, Now, n)
        BY <3>2, TurnSaves
      <4> HIDE DEF n
      <4>4. Lookup(u, q)' = Find(u, q, n)
        BY <4>2, NextMemory
      <4> QED
        BY <2>3, <4>3, <4>4 DEF OthersFind, Has, Lookup
    <3> QED
      BY <1>3, <3>1, <3>2
  <2> SUFFICES ASSUME NEW i \in DOMAIN Targets, NEW p \in ThisStep.uses, i >= turn + 1
               PROVE  Has(Targets[i], p)'
    BY <2>2 DEF Rendered, ThisStep
  <2>4. i # turn /\ i >= turn /\ Targets[i] \in TargetSet /\ turn \in DOMAIN Targets
    BY <2>2, TargetsAre DEF IInv, Typed, TypeOK
  <2>5. p \in Paths /\ Targets[i] # Here
    BY <2>4, StepsAre, TargetsAssumption DEF IInv, Typed, TypeOK, ThisStep, Here
  <2> QED
    BY <2>1, <2>3, <2>4, <2>5 DEF Rendered
<1> QED
  BY <1>1, <1>2, <1>3 DEF Next, Reject, Start, Judge, Differ, Goto

(* A request that uses a captured variable is sent with what was captured in this
   very case: by this target, or into an object that it shares.  Whatever is
   captured over what: a capture over an object takes the variable away, and then
   the request is not sent. *)
THEOREM FreshCapturesAreUsed == Spec => []UsesFreshCapture
<1>1. Init => Rendered
  BY DEF Init, Rendered
<1>2. IInv /\ Rendered => UsesFreshCapture
  <2> SUFFICES ASSUME IInv, Rendered, pc = "exchange", NEW p \in ThisStep.uses \cap AllCaptures
               PROVE  /\ captured[Here][p] # Absent
                      /\ \E t \in TargetSet :
                           /\ t = Here \/ root[Here][p[1]] = Object("shared", p[1])
                           /\ Lookup(Here, p) = Value("reply", t, p)
    BY DEF UsesFreshCapture
  <2>1. /\ step \in Steps /\ transcript \in Transcripts /\ turn \in DOMAIN Targets
        /\ turn >= turn /\ ThisStep = transcript.steps[step]
    BY TargetsAre DEF IInv, Typed, TypeOK, ThisStep
  <2>2. p \in Paths /\ Here \in TargetSet /\ p[1] \in Keys /\ <<p[1]>> \in Paths
    BY <2>1, StepsAre, TargetsAre, PathShapes DEF Here
  <2>3. p \in CapturesUpTo(step - 1)
    BY <2>1 DEF IInv, Accepted, Running, TranscriptRejects
  <2>4. captured[Here][p] # Absent
    BY <2>2, <2>3, CapturedBefore
  <2>5. Find(Here, p, Now) # Absent
    BY <2>1 DEF Rendered, Has, Lookup, Here
  <2>6. Len(p) = 2 => captured[Here][<<p[1]>>] = Absent
    <3> SUFFICES ASSUME Len(p) = 2, captured[Here][<<p[1]>>] # Absent PROVE FALSE
      OBVIOUS
    <3>1. IsScalar(Find(Here, <<p[1]>>, Now))
      BY <2>2, NowIsMemory DEF IInv, MemoryHolds, ScalarRoots
    <3> QED
      BY <2>2, <2>5, <3>1, FindRoot DEF Find, IsScalar
  <2>7. CapturesHold(Now, "reply") /\ Now.captured = captured /\ Now.roots = root
    BY NowIsMemory DEF IInv, MemoryHolds
  <2> QED
    BY <2>2, <2>4, <2>6, <2>7 DEF CapturesHold, Lookup
<1> QED
  BY <1>1, <1>2, InitIInv, NextKeepsIInv, RequestsStayRendered, PTL DEF Spec

-----------------------------------------------------------------------------
(* The plan of a complete run *)

\* With a plan that was accepted every request finds its variables ...
LEMMA RequestsFindAll ==
  ASSUME IInv, pc = "validate", complete PROVE ~Missing(TargetSet, ThisStep.uses)
<1>1. /\ step \in Steps /\ transcript \in Transcripts
      /\ ThisStep = transcript.steps[step] /\ PlanSays
      /\ LoadedKept(Now, loaded) /\ CapturesHold(Now, "reply")
  BY DEF IInv, Typed, TypeOK, ThisStep, Accepted, Running, MemoryHolds
<1> SUFFICES ASSUME NEW t \in TargetSet, NEW p \in ThisStep.uses PROVE Find(t, p, Now) # Absent
  BY DEF Missing, Has, Lookup
<1>2. /\ p \in Paths /\ <<p[1]>> \in Paths
      /\ p \in CapturesUpTo(step - 1) \/ loaded[t][p] # Absent
      /\ Len(p) = 2 => <<p[1]>> \notin CapturesUpTo(step - 1)
  <2>1. p \in Before(ThisStep) /\ p \in Paths
    BY <1>1, StepsAre DEF Before
  <2> QED
    BY <1>1, <2>1, PathShapes DEF PlanSays
<1>3. \A q \in Paths : captured[t][q] # Absent <=> q \in CapturesUpTo(step - 1)
  <2>1. PICK i \in DOMAIN Targets : t = Targets[i]
    BY TargetsAre
  <2>2. Done(i) = step - 1 /\ errors = {}
    BY DEF Done, IInv, NoErrorBetween
  <2> QED
    BY <2>1, <2>2 DEF IInv, CapturedSoFar
<1>4. CASE loaded[t][p] # Absent
  BY <1>1, <1>2, <1>4 DEF LoadedKept
<1>5. CASE p \in CapturesUpTo(step - 1)
  <2>1. PICK w \in TargetSet : Find(t, p, Now) = Value("reply", w, p)
    BY <1>1, <1>2, <1>3, <1>5, NowIsMemory DEF CapturesHold
  <2> QED
    BY <1>2, <2>1, ValuesAreScalars DEF AreScalars
<1> QED
  BY <1>2, <1>4, <1>5

\* ... and no capture collides.
LEMMA CapturesDoNotCollide ==
  ASSUME IInv, Exchange, complete
  PROVE  errors' \subseteq errors \cup {"reply", "lookup"}
<1> DEFINE c == ThisStep.captures
           n(given) == Saved(Here, c, "reply", Now)[given]
<1>1. /\ pc = "exchange" /\ TypeOK /\ transcript \in Transcripts
      /\ Here \in TargetSet /\ step \in Steps /\ ThisStep = transcript.steps[step]
      /\ c \in Seq(Paths) /\ Len(c) \in Nat /\ PlanSays
  BY ExchangeIs DEF IInv, Accepted, Running
<1>2. PICK given \in 0 .. Len(c) :
        NextTurn(IF n(given).collided THEN {"capture"}
                 ELSE IF given < Len(c) THEN {"reply"}
                 ELSE IF \E path \in ThisStep.rules : FindKey(Here, path, n(given)) = Absent
                   THEN {"lookup"}
                 ELSE {})
  BY ExchangeIs
<1> DEFINE w == n(given)
<1>3. ~w.collided <=> \A j \in 1 .. given : Free(Here, c, Now, loaded, j)
  BY <1>1, TurnSaves
<1> HIDE DEF w, n
<1>4. ~w.collided
  <2> SUFFICES ASSUME NEW j \in 1 .. given, Len(c[j]) = 2
               PROVE  /\ ~IsScalar(loaded[Here][<<c[j][1]>>])
                      /\ Now.captured[Here][<<c[j][1]>>] = Absent
                      /\ \A i \in 1 .. j - 1 : c[i] # <<c[j][1]>>
    BY <1>3 DEF Free
  <2>1. j \in 1 .. Len(c) /\ c[j] \in Paths
    BY <1>1, <1>2, ElementOfSeq
  <2>2. <<c[j][1]>> \in Paths
    BY <2>1, PathShapes
  <2>3. /\ ~IsScalar(loaded[Here][<<c[j][1]>>])
        /\ <<c[j][1]>> \notin CapturesUpTo(step - 1)
        /\ \A i \in 1 .. j - 1 : c[i] # <<c[j][1]>>
    BY <1>1, <2>1 DEF PlanSays
  <2> QED
    BY <1>1, <2>2, <2>3, CapturedBefore, NowIsMemory
<1> QED
  BY <1>2, <1>4 DEF NextTurn, w

(* What an accepted plan promises: in a complete run every request finds its
   variables and no capture collides, whatever the replies, whatever the captures
   are captured over and whichever objects the targets share. *)
THEOREM PlansHold == Spec => []PlanHolds
<1>1. Init => PlanHolds
  BY DEF Init, PlanHolds
<1>2. IInv /\ PlanHolds /\ [Next]_vars => PlanHolds'
  <2> SUFFICES ASSUME IInv, PlanHolds, [Next]_vars, complete'
               PROVE  errors' \cap {"request", "capture"} = {}
    BY DEF PlanHolds
  <2>1. complete
    BY DEF Next, Reject, Start, Validate, Refused, Exchange, NextTurn, Judge, Differ, Goto, vars
  <2>2. errors \cap {"request", "capture"} = {}
    BY <2>1 DEF PlanHolds
  <2>3. CASE Validate
    BY <2>1, <2>3, RequestsFindAll DEF Validate
  <2>4. CASE Exchange
    BY <2>1, <2>2, <2>4, CapturesDoNotCollide
  <2>5. CASE Refused \/ Judge \/ Differ
    <3>1. errors' \subseteq errors \cup {"reply", "lookup"}
      BY <2>5 DEF Refused, NextTurn, Judge, Differ
    <3> QED
      BY <2>2, <3>1
  <2>6. CASE Reject \/ Start \/ UNCHANGED vars
    BY <2>2, <2>6 DEF Reject, Start, vars
  <2> QED
    BY <2>3, <2>4, <2>5, <2>6 DEF Next
<1> QED
  BY <1>1, <1>2, AlwaysIInv, PTL DEF Spec
=============================================================================
