---------------------------- MODULE FxVm_proofs ------------------------------
(***************************************************************************)
(* FxVm, for any devices and files: the history shape tells what the two   *)
(* stacks hold, and Regular files are run as the ladders they stand for.   *)
(*                                                                         *)
(* First the recursive definitions, then the blocks of a rung as places of *)
(* the stack, the outcomes of every instruction, the invariant, and the    *)
(* ladder.                                                                 *)
(***************************************************************************)
EXTENDS FxVm, ListLemmas

-----------------------------------------------------------------------------
(* The recursive definitions.                                              *)

\* What the stack holds is given clause by clause.
LEMMA ShapesAre ==
    ASSUME NEW p, Len(p) \in Nat, NEW s \in 0..Len(p)
    PROVE  /\ Shapes(p, s)[0] = Empty
           /\ \A i \in 1..Len(p) - s : Shapes(p, s)[i] = After(Shapes(p, s)[i - 1], p[s + i])
<1> DEFINE N == Len(p) - s
           Upto(g, k) == g = [i \in 0..k |-> IF i = 0 THEN Empty ELSE After(g[i - 1], p[s + i])]
           Good(k) == \E g : Upto(g, k)
<1>1. N \in Nat
  OBVIOUS
<1> HIDE DEF N
<1>2. Good(0)
  <2>1. Upto([i \in 0..0 |-> Empty], 0)
    OBVIOUS
  <2>. QED BY <2>1
<1>3. ASSUME NEW k \in Nat, k # 0, Good(k - 1)
      PROVE  Good(k)
  <2>1. PICK g : Upto(g, k - 1)
    BY <1>3
  <2> DEFINE h == [i \in 0..k |-> IF i < k THEN g[i] ELSE After(g[k - 1], p[s + k])]
  <2>2. \A i \in 0..k - 1 : h[i] = g[i] /\ g[i] = IF i = 0 THEN Empty ELSE After(g[i - 1], p[s + i])
    BY <2>1, <1>3
  <2>3. h[k] = After(g[k - 1], p[s + k]) /\ h[k - 1] = g[k - 1]
    BY <2>2, <1>3
  <2> HIDE DEF h
  <2>4. ASSUME NEW i \in 0..k
        PROVE  h[i] = IF i = 0 THEN Empty ELSE After(h[i - 1], p[s + i])
    <3>1. CASE i = k
      BY <3>1, <2>3, <1>3
    <3>2. CASE i # k
      <4>1. i \in 0..k - 1 /\ (i # 0 => i - 1 \in 0..k - 1)
        BY <3>2, <1>3
      <4>. QED BY <4>1, <2>2
    <3>. QED BY <3>1, <3>2
  <2>5. h = [i \in 0..k |-> h[i]]
    BY DEF h
  <2>6. Upto(h, k)
    BY <2>4, <2>5
  <2>. QED BY <2>6
<1> HIDE DEF Good
<1>4. Good(N)
  <2> DEFINE bad == {k \in 0..N : ~Good(k)}
  <2>. SUFFICES ASSUME bad # {} PROVE FALSE
    BY <1>1
  <2>1. bad \subseteq Nat
    OBVIOUS
  <2>2. PICK k \in bad : \A i \in bad : k <= i
    BY <2>1, MinOfSet
  <2>3. k \in Nat /\ k <= N /\ ~Good(k) /\ k # 0
    BY <2>2, <1>2, <1>1
  <2>4. k - 1 \in 0..N /\ ~(k <= k - 1)
    BY <2>3, <1>1
  <2>5. Good(k - 1)
    BY <2>2, <2>4
  <2>. QED BY <2>3, <2>5, <1>3
<1>5. Upto(Shapes(p, s), N)
  <2>1. Shapes(p, s) = CHOOSE g : Upto(g, N)
    BY DEF Shapes, N
  <2>2. \E g : Upto(g, N)
    BY <1>4 DEF Good
  <2>. QED BY <2>1, <2>2
<1>. QED BY <1>5, <1>1 DEF N

\* The units of a range are looked for one after the other.
LEMMA LookedAre ==
    ASSUME NEW m, NEW range, Len(range) \in Nat
    PROVE  /\ Looked(m, range)[0] = {m}
           /\ \A i \in 1..Len(range) :
                Looked(m, range)[i] = UNION {Or_Dies(n, range[i]) : n \in Looked(m, range)[i - 1]}
<1> DEFINE N == Len(range)
           none == {m}
           Then(S, i) == UNION {Or_Dies(n, range[i]) : n \in S}
           Upto(g, k) == g = [i \in 0..k |-> IF i = 0 THEN none ELSE Then(g[i - 1], i)]
           Good(k) == \E g : Upto(g, k)
<1>0. Looked(m, range) = CHOOSE g : Upto(g, N)
  BY DEF Looked
<1>1. N \in Nat
  OBVIOUS
<1> HIDE DEF N, Then, none
<1>2. Good(0)
  <2>1. Upto([i \in 0..0 |-> none], 0)
    OBVIOUS
  <2>. QED BY <2>1
<1>3. ASSUME NEW k \in Nat, k # 0, Good(k - 1)
      PROVE  Good(k)
  <2>1. PICK g : Upto(g, k - 1)
    BY <1>3
  <2> DEFINE h == [i \in 0..k |-> IF i < k THEN g[i] ELSE Then(g[k - 1], k)]
  <2>2. \A i \in 0..k - 1 : h[i] = g[i] /\ g[i] = IF i = 0 THEN none ELSE Then(g[i - 1], i)
    BY <2>1, <1>3
  <2>3. h[k] = Then(g[k - 1], k) /\ h[k - 1] = g[k - 1]
    BY <2>2, <1>3
  <2> HIDE DEF h
  <2>4. ASSUME NEW i \in 0..k
        PROVE  h[i] = IF i = 0 THEN none ELSE Then(h[i - 1], i)
    <3>1. CASE i = k
      BY <3>1, <2>3, <1>3
    <3>2. CASE i # k
      <4>1. i \in 0..k - 1 /\ (i # 0 => i - 1 \in 0..k - 1)
        BY <3>2, <1>3
      <4>. QED BY <4>1, <2>2
    <3>. QED BY <3>1, <3>2
  <2>5. h = [i \in 0..k |-> h[i]]
    BY DEF h
  <2>6. Upto(h, k)
    BY <2>4, <2>5
  <2>. QED BY <2>6
<1> HIDE DEF Good
<1>4. Good(N)
  <2> DEFINE bad == {k \in 0..N : ~Good(k)}
  <2>. SUFFICES ASSUME bad # {} PROVE FALSE
    BY <1>1
  <2>1. bad \subseteq Nat
    OBVIOUS
  <2>2. PICK k \in bad : \A i \in bad : k <= i
    BY <2>1, MinOfSet
  <2>3. k \in Nat /\ k <= N /\ ~Good(k) /\ k # 0
    BY <2>2, <1>2, <1>1
  <2>4. k - 1 \in 0..N /\ ~(k <= k - 1)
    BY <2>3, <1>1
  <2>5. Good(k - 1)
    BY <2>2, <2>4
  <2>. QED BY <2>3, <2>5, <1>3
<1>5. Upto(Looked(m, range), N)
  <2>1. \E g : Upto(g, N)
    BY <1>4 DEF Good
  <2>. QED BY <1>0, <2>1
<1>6. /\ Looked(m, range)[0] = none
      /\ \A i \in 1..N : Looked(m, range)[i] = Then(Looked(m, range)[i - 1], i)
  BY <1>5, <1>1
<1>. QED BY <1>6 DEF N, Then, none

-----------------------------------------------------------------------------
(* Machines, field by field.                                               *)

LEMMA Fields ==
    ASSUME NEW m \in Machine
    PROVE  /\ m.stack \in Seq(BOOLEAN) /\ m.stack4m \in Seq(BOOLEAN)
           /\ m.connected \in BOOLEAN /\ m.alive \in BOOLEAN
           /\ m.device \in [Mapped -> BOOLEAN]
           /\ DOMAIN m.unit \subseteq Unit /\ m.unit \in [DOMAIN m.unit -> SoftUnit]
           /\ \A u \in DOMAIN m.unit : m.unit[u].now \in BOOLEAN /\ m.unit[u].saved \in BOOLEAN
<1>1. m.unit \in UNION {[S -> SoftUnit] : S \in SUBSET Unit}
  BY DEF Machine
<1>2. DOMAIN m.unit \subseteq Unit /\ m.unit \in [DOMAIN m.unit -> SoftUnit]
  BY <1>1
<1>. QED BY <1>2 DEF Machine, SoftUnit

\* A machine with other stacks, units, device.
With6(a, b, u, k, d, v) ==
    [stack |-> a, stack4m |-> b, unit |-> u, connected |-> k, device |-> d, alive |-> v]

LEMMA Built ==
    ASSUME NEW a \in Seq(BOOLEAN), NEW b \in Seq(BOOLEAN),
           NEW u, DOMAIN u \subseteq Unit, u \in [DOMAIN u -> SoftUnit], NEW k \in BOOLEAN,
           NEW d \in [Mapped -> BOOLEAN], NEW v \in BOOLEAN
    PROVE  With6(a, b, u, k, d, v) \in Machine
<1>1. u \in UNION {[T -> SoftUnit] : T \in SUBSET Unit}
  OBVIOUS
<1>. QED BY <1>1 DEF With6, Machine

LEMMA Same6 ==
    ASSUME NEW m \in Machine
    PROVE  /\ m = With6(m.stack, m.stack4m, m.unit, m.connected, m.device, m.alive)
           /\ \A a : [m EXCEPT !.stack = a] = With6(a, m.stack4m, m.unit, m.connected, m.device, m.alive)
           /\ \A b : [m EXCEPT !.stack4m = b] = With6(m.stack, b, m.unit, m.connected, m.device, m.alive)
           /\ \A u : [m EXCEPT !.unit = u] = With6(m.stack, m.stack4m, u, m.connected, m.device, m.alive)
           /\ \A d : [m EXCEPT !.device = d] = With6(m.stack, m.stack4m, m.unit, m.connected, d, m.alive)
           /\ \A v : [m EXCEPT !.alive = v] = With6(m.stack, m.stack4m, m.unit, m.connected, m.device, v)
BY DEF Machine, With6

LEMMA Remade ==
    ASSUME NEW m \in Machine, NEW a \in Seq(BOOLEAN), NEW b \in Seq(BOOLEAN),
           NEW u \in [DOMAIN m.unit -> SoftUnit], NEW d \in [Mapped -> BOOLEAN], NEW v \in BOOLEAN
    PROVE  With6(a, b, u, m.connected, d, v) \in Machine
<1>1. DOMAIN m.unit \subseteq Unit /\ m.connected \in BOOLEAN
  BY Fields
<1>2. DOMAIN u \subseteq Unit /\ u \in [DOMAIN u -> SoftUnit]
  BY <1>1
<1>. QED BY <1>1, <1>2, Built

LEMMA DeadIs ==
    ASSUME NEW m \in Machine
    PROVE  /\ Dead(m) \in Machine /\ ~Dead(m).alive
           /\ Dead(m).stack = m.stack /\ Dead(m).stack4m = m.stack4m /\ Dead(m).unit = m.unit
           /\ Dead(m).connected = m.connected /\ Dead(m).device = m.device
<1>1. Dead(m) = With6(m.stack, m.stack4m, m.unit, m.connected, m.device, FALSE)
  BY Same6 DEF Dead
<1>2. Dead(m) \in Machine
  <2>1. /\ m.stack \in Seq(BOOLEAN) /\ m.stack4m \in Seq(BOOLEAN) /\ m.unit \in [DOMAIN m.unit -> SoftUnit]
        /\ m.device \in [Mapped -> BOOLEAN] /\ FALSE \in BOOLEAN
    BY Fields
  <2>2. With6(m.stack, m.stack4m, m.unit, m.connected, m.device, FALSE) \in Machine
    BY <2>1, Remade
  <2>. QED BY <1>1, <2>2
<1>. QED BY <1>1, <1>2 DEF With6

LEMMA PushIs ==
    ASSUME NEW m \in Machine, NEW v \in BOOLEAN
    PROVE  Push(m, v) \in Machine
           /\ Push(m, v) = With6(Append(m.stack, v), m.stack4m, m.unit, m.connected, m.device, m.alive)
<1>1. Push(m, v) = With6(Append(m.stack, v), m.stack4m, m.unit, m.connected, m.device, m.alive)
  BY Same6 DEF Push
<1>2. /\ Append(m.stack, v) \in Seq(BOOLEAN) /\ m.stack4m \in Seq(BOOLEAN)
      /\ m.unit \in [DOMAIN m.unit -> SoftUnit] /\ m.device \in [Mapped -> BOOLEAN] /\ m.alive \in BOOLEAN
  BY Fields
<1> DEFINE s == Append(m.stack, v)
<1> HIDE DEF s
<1>3. With6(s, m.stack4m, m.unit, m.connected, m.device, m.alive) \in Machine
  <2>1. s \in Seq(BOOLEAN)
    BY <1>2 DEF s
  <2>. QED BY <2>1, <1>2, Remade
<1>. QED BY <1>1, <1>3 DEF s

\* The beginning and the end of a sequence.
LEMMA FrontAndLast ==
    ASSUME NEW S, NEW s \in Seq(S), s # <<>>
    PROVE  /\ Front(s) \in Seq(S) /\ Len(Front(s)) = Len(s) - 1 /\ Len(s) \in Nat \ {0}
           /\ \A i \in 1..Len(s) - 1 : Front(s)[i] = s[i]
           /\ Last(s) = s[Len(s)] /\ Last(s) \in S
<1>1. Len(s) \in Nat \ {0}
  OBVIOUS
<1>2. Front(s) = SubSeq(s, 1, Len(s) - 1)
  BY DEF Front
<1>3. Front(s) \in Seq(S) /\ Len(Front(s)) = Len(s) - 1
  <2>1. \A i \in 1..Len(s) - 1 : s[i] \in S
    BY <1>1
  <2>2. 1 \in Int /\ Len(s) - 1 \in Int
    BY <1>1
  <2>3. SubSeq(s, 1, Len(s) - 1) \in Seq(S)
    BY <2>1, <2>2, SubSeqProperties
  <2>4. Len(SubSeq(s, 1, Len(s) - 1)) = Len(s) - 1
    <3>1. CASE Len(s) = 1
      BY <3>1, SubSeqEmpty
    <3>2. CASE Len(s) # 1
      <4>1. \A n \in 1..Len(s) : Len(SubSeq(s, 1, n)) = n
        OBVIOUS
      <4>2. Len(s) - 1 \in 1..Len(s)
        BY <1>1, <3>2
      <4>. QED BY <4>1, <4>2, Zenon
    <3>. QED BY <3>1, <3>2
  <2>. QED BY <2>3, <2>4, <1>2
<1>4. \A i \in 1..Len(s) - 1 : Front(s)[i] = s[i]
  BY <1>1, <1>2, SubSeqProperties
<1>5. Last(s) = s[Len(s)] /\ Last(s) \in S
  BY <1>1 DEF Last
<1>. QED BY <1>1, <1>3, <1>4, <1>5

LEMMA DropIs ==
    ASSUME NEW m \in Machine, m.stack # <<>>
    PROVE  Drop(m) \in Machine
           /\ Drop(m) = With6(Front(m.stack), m.stack4m, m.unit, m.connected, m.device, m.alive)
           /\ Top(m) = m.stack[Len(m.stack)] /\ Top(m) \in BOOLEAN
<1>1. Drop(m) = With6(Front(m.stack), m.stack4m, m.unit, m.connected, m.device, m.alive)
  BY Same6 DEF Drop
<1>2. m.stack \in Seq(BOOLEAN)
  BY Fields
<1>3. Front(m.stack) \in Seq(BOOLEAN) /\ Last(m.stack) = m.stack[Len(m.stack)] /\ Last(m.stack) \in BOOLEAN
  BY <1>2, FrontAndLast
<1>. QED BY <1>1, <1>3, Fields, Remade DEF Top

\* A unit that is given a value, in the machine and in the device.
Valued(m, u, v) ==
    [w \in DOMAIN m.unit |-> IF w = u THEN [now |-> v, saved |-> m.unit[u].now] ELSE m.unit[w]]

LEMMA SetValueIs ==
    ASSUME NEW m \in Machine, NEW u \in DOMAIN m.unit, NEW v \in BOOLEAN
    PROVE  SetValue(m, u, v) \in Machine
           /\ SetValue(m, u, v) = With6(m.stack, m.stack4m, Valued(m, u, v), m.connected, m.device, m.alive)
<1>1. SetValue(m, u, v).unit = Valued(m, u, v)
  BY DEF SetValue, Machine, Valued
<1>2. SetValue(m, u, v) = [m EXCEPT !.unit = SetValue(m, u, v).unit]
  BY DEF SetValue, Machine
<1>3. SetValue(m, u, v) = With6(m.stack, m.stack4m, Valued(m, u, v), m.connected, m.device, m.alive)
  BY <1>1, <1>2, Same6
<1>4. Valued(m, u, v) \in [DOMAIN m.unit -> SoftUnit]
  BY Fields DEF Valued, SoftUnit
<1>. QED BY <1>3, <1>4, Fields, Remade

LEMMA SetStateIs ==
    ASSUME NEW m \in Machine, NEW u \in DOMAIN m.unit, NEW v \in BOOLEAN
    PROVE  SetState(m, u, v) \in Machine
           /\ SetState(m, u, v) =
                With6(m.stack, m.stack4m, Valued(m, u, v), m.connected,
                      IF m.connected THEN [m.device EXCEPT ![u] = v] ELSE m.device, m.alive)
<1> DEFINE n == SetValue(m, u, v)
<1>1. n \in Machine /\ n = With6(m.stack, m.stack4m, Valued(m, u, v), m.connected, m.device, m.alive)
  BY SetValueIs
<1>2. /\ n.stack = m.stack /\ n.stack4m = m.stack4m /\ n.unit = Valued(m, u, v)
      /\ n.connected = m.connected /\ n.device = m.device /\ n.alive = m.alive
  BY <1>1 DEF With6
<1>3. SetState(m, u, v) = IF m.connected THEN [n EXCEPT !.device[u] = v] ELSE n
  BY DEF SetState
<1> HIDE DEF n
<1>4. [n EXCEPT !.device[u] = v] = [n EXCEPT !.device = [n.device EXCEPT ![u] = v]]
  BY <1>1 DEF Machine
<1>5. [n EXCEPT !.device[u] = v] =
        With6(m.stack, m.stack4m, Valued(m, u, v), m.connected, [m.device EXCEPT ![u] = v], m.alive)
  BY <1>1, <1>2, <1>4, Same6
<1>6. [m.device EXCEPT ![u] = v] \in [Mapped -> BOOLEAN]
  BY Fields
<1>7. Valued(m, u, v) \in [DOMAIN m.unit -> SoftUnit]
  BY Fields DEF Valued, SoftUnit
<1>8. [n EXCEPT !.device[u] = v] \in Machine
  <2>1. m.stack \in Seq(BOOLEAN) /\ m.stack4m \in Seq(BOOLEAN) /\ m.alive \in BOOLEAN
    BY Fields
  <2>. QED BY <1>5, <1>6, <1>7, <2>1, Remade
<1>. QED BY <1>1, <1>3, <1>5, <1>8

-----------------------------------------------------------------------------
(* What the search for a unit leaves.                                      *)

\* n is m with units it has met since, those of the device if it is connected and has not ended.
Grown(m, n) ==
    /\ n \in Machine /\ n.stack = m.stack /\ n.stack4m = m.stack4m
    /\ n.connected = m.connected /\ n.device = m.device
    /\ DOMAIN m.unit \subseteq DOMAIN n.unit
    /\ \A u \in DOMAIN n.unit : n.unit[u] = IF u \in DOMAIN m.unit THEN m.unit[u] ELSE NewUnit(m, u)
    /\ n.alive /\ m.connected => DOMAIN n.unit \subseteq DOMAIN m.unit \cup Mapped

Met(m, u, n) == Grown(m, n) /\ n.alive /\ u \in DOMAIN n.unit
Ended(m, n) == Grown(m, n) /\ ~n.alive

LEMMA GrownSelf ==
    ASSUME NEW m \in Machine
    PROVE  Grown(m, m) /\ Ended(m, Dead(m))
<1>1. Grown(m, m)
  BY DEF Grown
<1>2. Ended(m, Dead(m))
  BY DeadIs DEF Grown, Ended
<1>. QED BY <1>1, <1>2

LEMMA GrownTwice ==
    ASSUME NEW a \in Machine, NEW b, NEW c, Grown(a, b), Grown(b, c), b.alive
    PROVE  Grown(a, c)
<1>1. b \in Machine /\ c \in Machine
  BY DEF Grown
<1>2. \A u : NewUnit(a, u) = NewUnit(b, u)
  BY DEF Grown, NewUnit, ReadSoftUnit
<1>3. \A u \in DOMAIN c.unit : c.unit[u] = IF u \in DOMAIN a.unit THEN a.unit[u] ELSE NewUnit(a, u)
  BY <1>2 DEF Grown
<1>. QED BY <1>1, <1>3 DEF Grown

LEMMA NewIs ==
    ASSUME NEW m \in Machine, NEW u \in Unit
    PROVE  NewUnit(m, u) \in SoftUnit
<1>1. (m.connected /\ u \in Mapped /\ Kind[u] \notin {"C", "T"} /\ ReadSoftUnit(m, u)) \in BOOLEAN
  BY Fields DEF ReadSoftUnit
<1>. QED BY <1>1 DEF NewUnit, SoftUnit

LEMMA MadeIs ==
    ASSUME NEW m \in Machine, NEW u \in Unit, u \notin DOMAIN m.unit
    PROVE  /\ Made(m, u) \in Machine /\ Made(m, u).alive = m.alive
           /\ u \in DOMAIN Made(m, u).unit
           /\ ~m.connected \/ u \in Mapped => Grown(m, Made(m, u))
           /\ Ended(m, Dead(Made(m, u)))
<1> DEFINE D == DOMAIN m.unit \cup {u}
           F == [w \in D |-> IF w = u THEN NewUnit(m, u) ELSE m.unit[w]]
<1>1. Made(m, u) = With6(m.stack, m.stack4m, F, m.connected, m.device, m.alive)
  BY Same6 DEF Made
<1>2. D \subseteq Unit /\ F \in [D -> SoftUnit]
  BY Fields, NewIs
<1>3. /\ m.stack \in Seq(BOOLEAN) /\ m.stack4m \in Seq(BOOLEAN)
      /\ m.connected \in BOOLEAN /\ m.alive \in BOOLEAN /\ m.device \in [Mapped -> BOOLEAN]
  BY Fields
<1>4. DOMAIN F = D
  OBVIOUS
<1>5. \A w \in D : F[w] = IF w \in DOMAIN m.unit THEN m.unit[w] ELSE NewUnit(m, w)
  OBVIOUS
<1> HIDE DEF F, D
<1>6. With6(m.stack, m.stack4m, F, m.connected, m.device, m.alive) \in Machine
  BY <1>2, <1>3, <1>4, Built
<1> DEFINE n == Made(m, u)
<1>7. /\ n \in Machine /\ n.stack = m.stack /\ n.stack4m = m.stack4m /\ n.unit = F
      /\ n.connected = m.connected /\ n.device = m.device /\ n.alive = m.alive
  BY <1>1, <1>6 DEF With6
<1> HIDE DEF n
<1>8. DOMAIN n.unit = DOMAIN m.unit \cup {u}
  BY <1>4, <1>7 DEF D
<1>9. \A w \in DOMAIN n.unit : n.unit[w] = IF w \in DOMAIN m.unit THEN m.unit[w] ELSE NewUnit(m, w)
  BY <1>4, <1>5, <1>7
<1>10. ~m.connected \/ u \in Mapped => Grown(m, n)
  BY <1>7, <1>8, <1>9, <1>3 DEF Grown
<1>11. Ended(m, Dead(n))
  BY <1>7, <1>8, <1>9, DeadIs DEF Grown, Ended
<1>. QED BY <1>7, <1>8, <1>10, <1>11 DEF n

\* A unit other than a data register, of the device if there is one, is found or the program ends.
LEMMA Sought ==
    ASSUME NEW m \in Machine, m.alive, NEW u \in Unit, Kind[u] # "D", m.connected => u \in Mapped,
           NEW g \in GetSoftUnit(m, u)
    PROVE  IF g.found THEN Met(m, u, g.m) ELSE Ended(m, g.m)
<1>0. m.connected \in BOOLEAN
  BY Fields
<1>1. CASE u \in DOMAIN m.unit
  <2>1. g = [m |-> Dead(m), found |-> FALSE] \/ g = [m |-> m, found |-> TRUE]
    BY <1>1 DEF GetSoftUnit
  <2>. QED BY <2>1, <1>1, GrownSelf DEF Met
<1>2. CASE u \notin DOMAIN m.unit
  <2>1. g = [m |-> Dead(m), found |-> FALSE] \/ g = [m |-> Made(m, u), found |-> ~m.connected \/ u \in Mapped]
    BY <1>2 DEF GetSoftUnit
  <2>2. CASE g = [m |-> Dead(m), found |-> FALSE]
    BY <2>2, GrownSelf
  <2>3. CASE g = [m |-> Made(m, u), found |-> ~m.connected \/ u \in Mapped]
    <3>1. g.m = Made(m, u) /\ g.found
      BY <2>3
    <3>. QED BY <3>1, <1>2, MadeIs DEF Met
  <2>. QED BY <2>1, <2>2, <2>3
<1>. QED BY <1>1, <1>2

\* Data registers are never found.
LEMMA Register ==
    ASSUME NEW m \in Machine, NEW u \in Unit, Kind[u] = "D", NEW g \in GetSoftUnit(m, u)
    PROVE  ~g.found /\ (g.m = m \/ g.m = Dead(m))
BY DEF GetSoftUnit

\* A comparison goes on with units it has found.
LEMMA FoundOrDies ==
    ASSUME NEW m \in Machine, m.alive, NEW u \in Unit, NEW n \in Or_Dies(m, u)
    PROVE  /\ Ended(m, n) \/ Met(m, u, n)
           /\ u \in DOMAIN m.unit => Ended(m, n) \/ n = m
<1>1. PICK g \in GetSoftUnit(m, u) : n = IF g.found THEN g.m ELSE Dead(g.m)
  BY DEF Or_Dies
<1>2. CASE Kind[u] = "D"
  <2>1. n = Dead(m) \/ n = Dead(Dead(m))
    BY <1>1, <1>2, Register
  <2>2. Ended(m, Dead(m)) /\ Ended(m, Dead(Dead(m)))
    <3>1. Dead(Dead(m)) = Dead(m)
      BY DeadIs, Same6 DEF Dead, With6
    <3>. QED BY <3>1, GrownSelf
  <2>. QED BY <2>1, <2>2
<1>3. CASE Kind[u] # "D" /\ u \in DOMAIN m.unit
  <2>1. g = [m |-> Dead(m), found |-> FALSE] \/ g = [m |-> m, found |-> TRUE]
    BY <1>3 DEF GetSoftUnit
  <2>2. Dead(Dead(m)) = Dead(m)
    BY DeadIs, Same6 DEF Dead, With6
  <2>. QED BY <1>1, <1>3, <2>1, <2>2, GrownSelf DEF Met
<1>4. CASE Kind[u] # "D" /\ u \notin DOMAIN m.unit
  <2>1. g = [m |-> Dead(m), found |-> FALSE] \/ g = [m |-> Made(m, u), found |-> ~m.connected \/ u \in Mapped]
    BY <1>4 DEF GetSoftUnit
  <2>2. Dead(Dead(m)) = Dead(m)
    BY DeadIs, Same6 DEF Dead, With6
  <2>3. CASE g = [m |-> Dead(m), found |-> FALSE]
    BY <1>1, <1>4, <2>2, <2>3, GrownSelf
  <2>4. CASE g = [m |-> Made(m, u), found |-> ~m.connected \/ u \in Mapped]
    <3>1. n = IF ~m.connected \/ u \in Mapped THEN Made(m, u) ELSE Dead(Made(m, u))
      BY <1>1, <2>4
    <3>2. /\ Made(m, u).alive /\ u \in DOMAIN Made(m, u).unit
          /\ ~m.connected \/ u \in Mapped => Grown(m, Made(m, u))
          /\ Ended(m, Dead(Made(m, u)))
      BY <1>4, MadeIs
    <3>. QED BY <1>4, <3>1, <3>2 DEF Met
  <2>. QED BY <2>1, <2>3, <2>4
<1>. QED BY <1>2, <1>3, <1>4

\* The units of a range are found one after the other, or the program ends.
LEMMA RangeFound ==
    ASSUME NEW m \in Machine, m.alive, NEW range \in Seq(Unit)
    PROVE  \A i \in 0..Len(range) : \A n \in Looked(m, range)[i] :
              Ended(m, n) \/ (Grown(m, n) /\ n.alive /\ \A j \in 1..i : range[j] \in DOMAIN n.unit)
<1> DEFINE Right(i) == \A n \in Looked(m, range)[i] :
              Ended(m, n) \/ (Grown(m, n) /\ n.alive /\ \A j \in 1..i : range[j] \in DOMAIN n.unit)
           wrong == {i \in 0..Len(range) : ~Right(i)}
<1>0. Len(range) \in Nat
  OBVIOUS
<1>1. Right(0)
  BY <1>0, LookedAre, GrownSelf
<1>2. ASSUME NEW i \in 1..Len(range), Right(i - 1)
      PROVE  Right(i)
  <2>. SUFFICES ASSUME NEW n \in Looked(m, range)[i]
                PROVE  Ended(m, n) \/ (Grown(m, n) /\ n.alive /\ \A j \in 1..i : range[j] \in DOMAIN n.unit)
    OBVIOUS
  <2>1. Looked(m, range)[i] = UNION {Or_Dies(k, range[i]) : k \in Looked(m, range)[i - 1]}
    BY <1>0, LookedAre
  <2>2. PICK k \in Looked(m, range)[i - 1] : n \in Or_Dies(k, range[i])
    BY <2>1
  <2>3. Ended(m, k) \/ (Grown(m, k) /\ k.alive /\ \A j \in 1..i - 1 : range[j] \in DOMAIN k.unit)
    BY <1>2, <2>2
  <2>4. CASE Ended(m, k)
    <3>1. n = k
      BY <2>2, <2>4 DEF Or_Dies, Ended
    <3>. QED BY <3>1, <2>4
  <2>5. CASE Grown(m, k) /\ k.alive /\ \A j \in 1..i - 1 : range[j] \in DOMAIN k.unit
    <3>1. k \in Machine /\ range[i] \in Unit
      BY <2>5 DEF Grown
    <3>2. Ended(k, n) \/ Met(k, range[i], n)
      BY <2>2, <2>5, <3>1, FoundOrDies
    <3>3. Grown(k, n)
      BY <3>2 DEF Ended, Met
    <3>4. Grown(m, n)
      BY <2>5, <3>3, GrownTwice
    <3>5. DOMAIN k.unit \subseteq DOMAIN n.unit
      BY <3>3 DEF Grown
    <3>6. CASE Ended(k, n)
      BY <3>4, <3>6 DEF Ended
    <3>7. CASE Met(k, range[i], n)
      <4>1. ASSUME NEW j \in 1..i PROVE range[j] \in DOMAIN n.unit
        <5>1. CASE j = i
          BY <5>1, <3>7 DEF Met
        <5>2. CASE j # i
          <6>1. j \in 1..i - 1
            BY <5>2
          <6>. QED BY <6>1, <2>5, <3>5
        <5>. QED BY <5>1, <5>2
      <4>. QED BY <3>4, <3>7, <4>1 DEF Met
    <3>. QED BY <3>2, <3>6, <3>7
  <2>. QED BY <2>3, <2>4, <2>5
<1> HIDE DEF Right
<1>3. wrong = {}
  <2>. SUFFICES ASSUME wrong # {} PROVE FALSE
    OBVIOUS
  <2>1. wrong \subseteq Nat
    OBVIOUS
  <2>2. PICK i \in wrong : \A j \in wrong : i <= j
    BY <2>1, MinOfSet
  <2>3. i \in Nat /\ i <= Len(range) /\ ~Right(i) /\ i # 0
    BY <2>2, <1>1
  <2>4. i - 1 \in 0..Len(range) /\ i \in 1..Len(range) /\ ~(i <= i - 1)
    BY <2>3, <1>0
  <2>5. Right(i - 1)
    BY <2>2, <2>4
  <2>. QED BY <2>3, <2>4, <2>5, <1>2
<1>. QED BY <1>3 DEF Right

-----------------------------------------------------------------------------
(* Blocks of a rung as places of a stack.                                  *)

Placed(s, live) ==
    /\ s \in Seq(BOOLEAN) /\ live \in Seq(Nat)
    /\ \A i \in DOMAIN live : live[i] \in 1..Len(s)
    /\ \A i, j \in DOMAIN live : i < j => live[i] < live[j]

\* In the numbers of the blocks.
LEMMA PlacedIs ==
    ASSUME NEW s, NEW live
    PROVE  Placed(s, live) <=>
             /\ s \in Seq(BOOLEAN) /\ live \in Seq(Nat)
             /\ \A i \in 1..Len(live) : live[i] \in 1..Len(s)
             /\ \A i, j \in 1..Len(live) : i < j => live[i] < live[j]
<1>1. live \in Seq(Nat) => DOMAIN live = 1..Len(live)
  OBVIOUS
<1>. QED BY <1>1 DEF Placed

\* The power of the blocks.
Seen(s, live) == [i \in DOMAIN live |-> s[live[i]]]

LEMMA SeenIs ==
    ASSUME NEW s, NEW live, Placed(s, live)
    PROVE  /\ Seen(s, live) \in Seq(BOOLEAN) /\ Len(Seen(s, live)) = Len(live) /\ Len(live) \in Nat
           /\ \A i \in 1..Len(live) : Seen(s, live)[i] = s[live[i]] /\ Seen(s, live)[i] \in BOOLEAN
<1>1. live \in Seq(Nat) /\ DOMAIN live = 1..Len(live) /\ Len(live) \in Nat
  BY DEF Placed
<1>2. \A i \in 1..Len(live) : s[live[i]] \in BOOLEAN
  BY <1>1 DEF Placed
<1>3. Seen(s, live) \in [1..Len(live) -> BOOLEAN]
  BY <1>1, <1>2 DEF Seen
<1>4. Seen(s, live) \in Seq(BOOLEAN)
  BY <1>1, <1>3
<1>5. Len(Seen(s, live)) = Len(live)
  BY <1>1, <1>3, <1>4
<1>. QED BY <1>1, <1>2, <1>4, <1>5 DEF Seen

\* Sequences of one length with the same elements.
LEMMA SameElements ==
    ASSUME NEW S, NEW a \in Seq(S), NEW b \in Seq(S), Len(a) = Len(b),
           \A i \in 1..Len(a) : a[i] = b[i]
    PROVE  a = b
OBVIOUS

LEMMA AppendIs ==
    ASSUME NEW S, NEW s \in Seq(S), NEW x \in S
    PROVE  /\ Append(s, x) \in Seq(S) /\ Len(Append(s, x)) = Len(s) + 1 /\ Len(s) \in Nat
           /\ \A i \in 1..Len(s) : Append(s, x)[i] = s[i]
           /\ Append(s, x)[Len(s) + 1] = x
OBVIOUS

\* A block is opened on top.
LEMMA OnTop ==
    ASSUME NEW s, NEW live, Placed(s, live), NEW v \in BOOLEAN
    PROVE  /\ Placed(Append(s, v), Append(live, Len(s) + 1))
           /\ Seen(Append(s, v), Append(live, Len(s) + 1)) = Append(Seen(s, live), v)
<1> DEFINE t == Append(s, v)
           more == Append(live, Len(s) + 1)
<1>1. /\ t \in Seq(BOOLEAN) /\ Len(t) = Len(s) + 1 /\ Len(s) \in Nat /\ t[Len(s) + 1] = v
      /\ \A i \in 1..Len(s) : t[i] = s[i]
  BY AppendIs DEF Placed
<1>2. /\ more \in Seq(Nat) /\ Len(more) = Len(live) + 1 /\ Len(live) \in Nat
      /\ more[Len(live) + 1] = Len(s) + 1 /\ \A i \in 1..Len(live) : more[i] = live[i]
  BY <1>1, AppendIs DEF Placed
<1>3. DOMAIN more = 1..Len(live) + 1 /\ DOMAIN live = 1..Len(live)
  BY <1>2 DEF Placed
<1> HIDE DEF t, more
<1>0. /\ \A i \in 1..Len(live) : live[i] \in 1..Len(s)
      /\ \A i, j \in 1..Len(live) : i < j => live[i] < live[j]
  BY PlacedIs
<1>4. Placed(t, more)
  <2>1. ASSUME NEW i \in 1..Len(more) PROVE more[i] \in 1..Len(t)
    <3>1. CASE i = Len(live) + 1
      BY <3>1, <1>1, <1>2
    <3>2. CASE i # Len(live) + 1
      <4>1. i \in 1..Len(live) /\ more[i] = live[i]
        BY <3>2, <1>2
      <4>. QED BY <4>1, <1>0, <1>1
    <3>. QED BY <3>1, <3>2
  <2>2. ASSUME NEW i \in 1..Len(more), NEW j \in 1..Len(more), i < j
        PROVE  more[i] < more[j]
    <3>1. i \in 1..Len(live) /\ more[i] = live[i] /\ live[i] \in 1..Len(s)
      BY <1>0, <1>2, <2>2
    <3>2. CASE j = Len(live) + 1
      BY <3>1, <3>2, <1>1, <1>2
    <3>3. CASE j # Len(live) + 1
      <4>1. j \in 1..Len(live)
        BY <3>3, <1>2
      <4>. QED BY <4>1, <3>1, <1>0, <1>2, <2>2
    <3>. QED BY <3>2, <3>3
  <2>. QED BY <1>1, <1>2, <2>1, <2>2, PlacedIs
<1>5. Seen(t, more) \in Seq(BOOLEAN) /\ Len(Seen(t, more)) = Len(live) + 1
      /\ \A i \in 1..Len(live) + 1 : Seen(t, more)[i] = t[more[i]]
  BY <1>2, <1>4, SeenIs
<1>6. Seen(s, live) \in Seq(BOOLEAN) /\ Len(Seen(s, live)) = Len(live)
      /\ \A i \in 1..Len(live) : Seen(s, live)[i] = s[live[i]]
  BY SeenIs
<1>7. /\ Append(Seen(s, live), v) \in Seq(BOOLEAN) /\ Len(Append(Seen(s, live), v)) = Len(live) + 1
      /\ Append(Seen(s, live), v)[Len(live) + 1] = v
      /\ \A i \in 1..Len(live) : Append(Seen(s, live), v)[i] = s[live[i]]
  BY <1>6, AppendIs
<1>8. \A i \in 1..Len(live) : Seen(t, more)[i] = s[live[i]]
  <2>. TAKE i \in 1..Len(live)
  <2>1. i \in 1..Len(live) + 1 /\ more[i] = live[i] /\ live[i] \in 1..Len(s)
    BY <1>0, <1>2
  <2>. QED BY <2>1, <1>1, <1>5
<1>9. Seen(t, more)[Len(live) + 1] = v
  BY <1>1, <1>2, <1>5
<1>10. \A i \in 1..Len(live) + 1 : Seen(t, more)[i] = Append(Seen(s, live), v)[i]
  BY <1>2, <1>7, <1>8, <1>9
<1>11. Seen(t, more) = Append(Seen(s, live), v)
  BY <1>5, <1>7, <1>10, SameElements
<1>. QED BY <1>4, <1>11 DEF t, more

\* The block opened last ends.
LEMMA FirstBlocks ==
    ASSUME NEW s, NEW live, Placed(s, live), live # <<>>
    PROVE  /\ Placed(s, Front(live)) /\ Seen(s, Front(live)) = Front(Seen(s, live))
           /\ Seen(s, live) # <<>> /\ Last(Seen(s, live)) = s[Last(live)]
           /\ Last(live) \in 1..Len(s)
           /\ \A i \in 1..Len(live) - 1 : Front(live)[i] < Last(live)
           /\ Len(Front(live)) = Len(live) - 1 /\ Len(live) \in Nat
<1> DEFINE less == Front(live)
<1>1. /\ less \in Seq(Nat) /\ Len(less) = Len(live) - 1 /\ Len(live) \in Nat \ {0}
      /\ \A i \in 1..Len(live) - 1 : less[i] = live[i]
      /\ Last(live) = live[Len(live)]
  BY FrontAndLast DEF Placed
<1>2. DOMAIN less = 1..Len(live) - 1 /\ DOMAIN live = 1..Len(live)
  BY <1>1 DEF Placed
<1>0. /\ \A i \in 1..Len(live) : live[i] \in 1..Len(s)
      /\ \A i, j \in 1..Len(live) : i < j => live[i] < live[j]
  BY PlacedIs
<1> HIDE DEF less
<1>3. Placed(s, less)
  <2>1. \A i \in 1..Len(less) : i \in 1..Len(live) /\ less[i] = live[i]
    BY <1>1
  <2>2. \A i \in 1..Len(less) : less[i] \in 1..Len(s)
    BY <2>1, <1>0
  <2>3. \A i, j \in 1..Len(less) : i < j => less[i] < less[j]
    BY <2>1, <1>0
  <2>4. s \in Seq(BOOLEAN)
    BY DEF Placed
  <2>. QED BY <2>2, <2>3, <2>4, <1>1, PlacedIs
<1>4. /\ Seen(s, live) \in Seq(BOOLEAN) /\ Len(Seen(s, live)) = Len(live)
      /\ \A i \in 1..Len(live) : Seen(s, live)[i] = s[live[i]]
  BY SeenIs
<1>5. Seen(s, live) # <<>>
  BY <1>1, <1>4
<1>6. /\ Seen(s, less) \in Seq(BOOLEAN) /\ Len(Seen(s, less)) = Len(live) - 1
      /\ \A i \in 1..Len(live) - 1 : Seen(s, less)[i] = s[less[i]]
  BY <1>1, <1>3, SeenIs
<1>7. /\ Front(Seen(s, live)) \in Seq(BOOLEAN) /\ Len(Front(Seen(s, live))) = Len(live) - 1
      /\ \A i \in 1..Len(live) - 1 : Front(Seen(s, live))[i] = Seen(s, live)[i]
      /\ Last(Seen(s, live)) = Seen(s, live)[Len(live)]
  BY <1>4, <1>5, FrontAndLast
<1>8. \A i \in 1..Len(live) - 1 : Seen(s, less)[i] = Front(Seen(s, live))[i]
  <2>. TAKE i \in 1..Len(live) - 1
  <2>1. i \in 1..Len(live) /\ less[i] = live[i]
    BY <1>1
  <2>. QED BY <2>1, <1>4, <1>6, <1>7
<1>9. Seen(s, less) = Front(Seen(s, live))
  BY <1>6, <1>7, <1>8, SameElements
<1>10. Last(live) \in 1..Len(s) /\ \A i \in 1..Len(live) - 1 : less[i] < Last(live)
  <2>1. Len(live) \in 1..Len(live)
    BY <1>1
  <2>2. \A i \in 1..Len(live) - 1 : i \in 1..Len(live) /\ i < Len(live)
    BY <1>1
  <2>. QED BY <2>1, <2>2, <1>0, <1>1
<1>11. Last(Seen(s, live)) = s[Last(live)]
  BY <1>1, <1>4, <1>7
<1>. QED BY <1>1, <1>3, <1>5, <1>9, <1>10, <1>11 DEF less

\* What lies above the blocks does not matter.
LEMMA SamePlaces ==
    ASSUME NEW s, NEW live, Placed(s, live), NEW t \in Seq(BOOLEAN), NEW d \in Nat, d <= Len(s), d <= Len(t),
           \A i \in 1..Len(live) : live[i] <= d, \A i \in 1..d : t[i] = s[i]
    PROVE  Placed(t, live) /\ Seen(t, live) = Seen(s, live)
<1>1. DOMAIN live = 1..Len(live) /\ Len(live) \in Nat /\ Len(s) \in Nat /\ Len(t) \in Nat
  BY DEF Placed
<1>2. \A i \in 1..Len(live) : live[i] \in 1..d
  BY <1>1 DEF Placed
<1>3. Placed(t, live)
  BY <1>1, <1>2 DEF Placed
<1>4. \A i \in DOMAIN live : t[live[i]] = s[live[i]]
  BY <1>1, <1>2
<1>. QED BY <1>3, <1>4 DEF Seen

\* The result of a contact is put above the block it joins.
LEMMA Replaced ==
    ASSUME NEW s, NEW live, Placed(s, live), live # <<>>, NEW v \in BOOLEAN
    PROVE  /\ Placed(Append(s, v), Append(Front(live), Len(s) + 1))
           /\ Seen(Append(s, v), Append(Front(live), Len(s) + 1)) = Append(Front(Seen(s, live)), v)
<1>1. Placed(s, Front(live)) /\ Seen(s, Front(live)) = Front(Seen(s, live))
  BY FirstBlocks
<1>. QED BY <1>1, OnTop

\* The block on top is taken from the stack.
LEMMA Taken ==
    ASSUME NEW s, NEW live, Placed(s, live), live # <<>>, Last(live) = Len(s)
    PROVE  /\ Placed(Front(s), Front(live)) /\ Seen(Front(s), Front(live)) = Front(Seen(s, live))
           /\ s # <<>> /\ Len(Front(s)) = Len(s) - 1
<1>1. /\ Placed(s, Front(live)) /\ Seen(s, Front(live)) = Front(Seen(s, live))
      /\ \A i \in 1..Len(live) - 1 : Front(live)[i] < Last(live)
      /\ Len(Front(live)) = Len(live) - 1 /\ Last(live) \in 1..Len(s)
  BY FirstBlocks
<1>2. s \in Seq(BOOLEAN) /\ Len(s) \in Nat \ {0} /\ s # <<>>
  BY <1>1 DEF Placed
<1>3. /\ Front(s) \in Seq(BOOLEAN) /\ Len(Front(s)) = Len(s) - 1
      /\ \A i \in 1..Len(s) - 1 : Front(s)[i] = s[i]
  BY <1>2, FrontAndLast
<1> DEFINE less == Front(live)
           d == Len(s) - 1
<1>4. \A i \in 1..Len(less) : less[i] <= d
  <2>1. \A i \in 1..Len(less) : less[i] \in 1..Len(s) /\ less[i] < Len(s)
    BY <1>1, PlacedIs
  <2>. QED BY <2>1, <1>2
<1>5. d \in Nat /\ d <= Len(s) /\ d <= Len(Front(s))
  BY <1>2, <1>3
<1> HIDE DEF less, d
<1>6. Placed(s, less) /\ \A i \in 1..d : Front(s)[i] = s[i]
  BY <1>1, <1>3 DEF less, d
<1>7. Placed(Front(s), less) /\ Seen(Front(s), less) = Seen(s, less)
  BY <1>3, <1>4, <1>5, <1>6, SamePlaces
<1>. QED BY <1>1, <1>2, <1>3, <1>7 DEF less

LEMMA FrontThenLast ==
    ASSUME NEW S, NEW s \in Seq(S), s # <<>>
    PROVE  Append(Front(s), Last(s)) = s
<1>1. /\ Front(s) \in Seq(S) /\ Len(Front(s)) = Len(s) - 1 /\ Len(s) \in Nat \ {0}
      /\ \A i \in 1..Len(s) - 1 : Front(s)[i] = s[i]
      /\ Last(s) = s[Len(s)] /\ Last(s) \in S
  BY FrontAndLast
<1>2. /\ Append(Front(s), Last(s)) \in Seq(S) /\ Len(Append(Front(s), Last(s))) = Len(s)
      /\ \A i \in 1..Len(s) - 1 : Append(Front(s), Last(s))[i] = s[i]
      /\ Append(Front(s), Last(s))[Len(s)] = s[Len(s)]
  BY <1>1, AppendIs
<1>3. \A i \in 1..Len(s) : Append(Front(s), Last(s))[i] = s[i]
  BY <1>1, <1>2
<1>. QED BY <1>2, <1>3, SameElements

\* The last two blocks are joined, in the place of the lower.
LEMMA Joined ==
    ASSUME NEW s, NEW live, Placed(s, live), Len(live) > 1, Last(live) = Len(s),
           Last(Front(live)) = Len(s) - 1, NEW v \in BOOLEAN
    PROVE  /\ Placed(Append(Front(Front(s)), v), Front(live))
           /\ Seen(Append(Front(Front(s)), v), Front(live)) = Append(Front(Front(Seen(s, live))), v)
           /\ s # <<>> /\ Front(s) # <<>> /\ Len(Front(Front(s))) = Len(s) - 2
           /\ Last(Seen(s, live)) = Last(s) /\ Last(Front(Seen(s, live))) = Last(Front(s))
<1>0. live \in Seq(Nat) /\ live # <<>> /\ Len(live) \in Nat /\ s \in Seq(BOOLEAN) /\ Len(s) \in Nat
  BY DEF Placed
<1> DEFINE r == Front(s)
           less == Front(live)
<1>1. Placed(r, less) /\ Seen(r, less) = Front(Seen(s, live)) /\ s # <<>> /\ Len(r) = Len(s) - 1
  BY <1>0, Taken
<1>2. less \in Seq(Nat) /\ Len(less) = Len(live) - 1
  BY <1>0, FrontAndLast
<1>3. less # <<>> /\ Last(less) = Len(r)
  BY <1>0, <1>1, <1>2
<1> HIDE DEF r, less
<1>4. /\ Placed(Front(r), Front(less)) /\ Seen(Front(r), Front(less)) = Front(Seen(r, less))
      /\ r # <<>> /\ Len(Front(r)) = Len(r) - 1
  BY <1>1, <1>3, Taken
<1>5. Append(Front(less), Last(less)) = less
  BY <1>2, <1>3, FrontThenLast
<1>6. Len(Front(r)) + 1 = Last(less)
  BY <1>0, <1>1, <1>3, <1>4
<1>7. /\ Placed(Append(Front(r), v), less)
      /\ Seen(Append(Front(r), v), less) = Append(Seen(Front(r), Front(less)), v)
  BY <1>4, <1>5, <1>6, OnTop
<1>8. Last(Seen(s, live)) = s[Len(s)] /\ Last(Seen(r, less)) = r[Len(r)]
  BY <1>0, <1>1, <1>3, FirstBlocks
<1>9. Len(Front(r)) = Len(s) - 2
  BY <1>0, <1>1, <1>4
<1>. QED BY <1>1, <1>4, <1>7, <1>8, <1>9 DEF r, less, Last

\* A value kept at a branch point takes the place of what an earlier rung has left on top.
LEMMA Recalled ==
    ASSUME NEW s, NEW live, Placed(s, live), s # <<>>, ~(live # <<>> /\ Last(live) = Len(s)), NEW v \in BOOLEAN
    PROVE  /\ Placed(Append(Front(s), v), Append(live, Len(s)))
           /\ Seen(Append(Front(s), v), Append(live, Len(s))) = Append(Seen(s, live), v)
           /\ Len(Append(Front(s), v)) = Len(s)
<1>0. s \in Seq(BOOLEAN) /\ live \in Seq(Nat)
  BY DEF Placed
<1>1. /\ Front(s) \in Seq(BOOLEAN) /\ Len(Front(s)) = Len(s) - 1 /\ Len(s) \in Nat \ {0}
      /\ \A i \in 1..Len(s) - 1 : Front(s)[i] = s[i]
  BY <1>0, FrontAndLast
<1> DEFINE d == Len(s) - 1
<1>2. \A i \in 1..Len(live) : live[i] <= d
  <2>1. CASE live = <<>>
    BY <2>1
  <2>2. CASE live # <<>>
    <3>. TAKE i \in 1..Len(live)
    <3>1. /\ Last(live) = live[Len(live)] /\ Last(live) \in 1..Len(s) /\ Len(live) \in Nat \ {0}
      BY <1>0, <2>2, FirstBlocks, FrontAndLast
    <3>2. live[i] \in 1..Len(s) /\ (i < Len(live) => live[i] < live[Len(live)])
      BY <3>1, PlacedIs
    <3>. QED BY <3>1, <3>2, <1>1, <2>2
  <2>. QED BY <2>1, <2>2
<1>3. d \in Nat /\ d <= Len(s) /\ d <= Len(Front(s)) /\ \A i \in 1..d : Front(s)[i] = s[i]
  BY <1>1
<1>4. Len(s) = Len(Front(s)) + 1
  BY <1>1
<1> HIDE DEF d
<1>5. Placed(Front(s), live) /\ Seen(Front(s), live) = Seen(s, live)
  BY <1>1, <1>2, <1>3, SamePlaces
<1>6. /\ Placed(Append(Front(s), v), Append(live, Len(Front(s)) + 1))
      /\ Seen(Append(Front(s), v), Append(live, Len(Front(s)) + 1)) = Append(Seen(Front(s), live), v)
  BY <1>5, OnTop
<1>7. Len(Append(Front(s), v)) = Len(s)
  BY <1>1, <1>4, AppendIs
<1>. QED BY <1>4, <1>5, <1>6, <1>7

-----------------------------------------------------------------------------
(* What each instruction does to a machine whose stacks have the shape sh. *)

Sh(d, live, k) == [depth |-> d, live |-> live, kept |-> k, ends |-> FALSE, right |-> TRUE]

LEMMA AfterIs ==
    ASSUME NEW sh \in Shape, ~sh.ends, sh.right, NEW c, After(sh, c).right
    PROVE  /\ c.op = "LD" => After(sh, c) = Sh(sh.depth + 1, Append(sh.live, sh.depth + 1), sh.kept)
           /\ c.op \in {"AND", "OR", "INV"} /\ sh.depth # 0 =>
                Ready(sh) /\ After(sh, c) = Sh(sh.depth + 1, Append(Front(sh.live), sh.depth + 1), sh.kept)
           /\ c.op \in {"ANB", "ORB"} /\ ~(sh.depth < 2) =>
                /\ Len(sh.live) > 1 /\ Ready(sh) /\ Last(Front(sh.live)) = sh.depth - 1
                /\ After(sh, c) = Sh(sh.depth - 1, Front(sh.live), sh.kept)
           /\ c.op = "OUT" /\ sh.depth # 0 =>
                Ready(sh) /\ After(sh, c) = Sh(sh.depth - 1, Front(sh.live), sh.kept)
           /\ c.op = "MPS" /\ sh.depth # 0 =>
                Ready(sh) /\ After(sh, c) = Sh(sh.depth, sh.live, sh.kept + 1)
           /\ c.op \in {"MRD", "MPP"} /\ sh.depth # 0 /\ sh.kept # 0 =>
                /\ ~Ready(sh)
                /\ After(sh, c) = Sh(sh.depth, Append(sh.live, sh.depth),
                                     IF c.op = "MPP" THEN sh.kept - 1 ELSE sh.kept)
           /\ c.op = "CMP" => c.range # <<>> /\ Last(c.range) = c.unit /\ After(sh, c) = sh
           /\ c.op \in {"SET", "RST", "NOP", "MOV", "END"} => After(sh, c) = sh
<1>1. CASE c.op = "LD"
  BY <1>1 DEF After, Deeper, Sh, Shape
<1>2. CASE c.op \in {"AND", "OR", "INV"}
  BY <1>2 DEF After, Deeper, Sh, Shape
<1>3. CASE c.op \in {"ANB", "ORB"}
  BY <1>3 DEF After, Sh, Shape
<1>4. CASE c.op = "OUT"
  BY <1>4 DEF After, Sh, Shape
<1>5. CASE c.op = "MPS"
  BY <1>5 DEF After, Sh, Shape
<1>6. CASE c.op \in {"MRD", "MPP"}
  BY <1>6 DEF After, Sh, Shape
<1>7. CASE c.op = "CMP"
  BY <1>7 DEF After, Shape
<1>8. CASE c.op \in {"SET", "RST", "NOP", "MOV", "END"}
  BY <1>8 DEF After
<1>9. CASE c.op \notin {"LD", "AND", "OR", "INV", "ANB", "ORB", "OUT", "MPS", "MRD", "MPP", "CMP",
                        "SET", "RST", "NOP", "MOV", "END"}
  BY <1>9
<1>. QED BY <1>1, <1>2, <1>3, <1>4, <1>5, <1>6, <1>7, <1>8, <1>9

\* The shape describes the stacks of m.
Fits(m, sh) ==
    /\ m \in Machine /\ sh \in Shape /\ sh.depth = Len(m.stack) /\ sh.kept = Len(m.stack4m)
    /\ sh.right /\ ~sh.ends /\ Placed(m.stack, sh.live)

\* The power of the blocks of the rung.
FlowOf(m, sh) == Seen(m.stack, sh.live)

LEMMA FitsIs ==
    ASSUME NEW n \in Machine, NEW d, NEW live, NEW k, d = Len(n.stack), k = Len(n.stack4m),
           Placed(n.stack, live)
    PROVE  Fits(n, Sh(d, live, k)) /\ FlowOf(n, Sh(d, live, k)) = Seen(n.stack, live)
<1>1. d \in Nat /\ k \in Nat /\ live \in Seq(Nat)
  BY Fields DEF Placed
<1>2. Sh(d, live, k) \in Shape
  BY <1>1 DEF Sh, Shape
<1>. QED BY <1>2 DEF Fits, FlowOf, Sh

\* The moves of the blocks: see OnTop, Replaced, Taken, Joined and Recalled.
LEMMA FitsOnTop ==
    ASSUME NEW k, NEW sh, Fits(k, sh), NEW v \in BOOLEAN, NEW n \in Machine,
           n.stack = Append(k.stack, v), n.stack4m = k.stack4m
    PROVE  /\ Fits(n, Sh(sh.depth + 1, Append(sh.live, sh.depth + 1), sh.kept))
           /\ FlowOf(n, Sh(sh.depth + 1, Append(sh.live, sh.depth + 1), sh.kept)) = Append(FlowOf(k, sh), v)
<1> DEFINE s == k.stack
<1>1. Placed(s, sh.live) /\ sh.depth = Len(s) /\ s \in Seq(BOOLEAN) /\ n.stack = Append(s, v)
      /\ sh.kept = Len(n.stack4m)
  BY DEF Fits, Placed
<1> HIDE DEF s
<1>2. /\ Placed(Append(s, v), Append(sh.live, Len(s) + 1))
      /\ Seen(Append(s, v), Append(sh.live, Len(s) + 1)) = Append(Seen(s, sh.live), v)
  BY <1>1, OnTop
<1>3. Len(Append(s, v)) = Len(s) + 1
  BY <1>1, AppendIs
<1> DEFINE d == sh.depth + 1
           live == Append(sh.live, sh.depth + 1)
<1>7. Placed(n.stack, live) /\ d = Len(n.stack) /\ sh.kept = Len(n.stack4m)
      /\ Seen(n.stack, live) = Append(Seen(s, sh.live), v)
  BY <1>1, <1>2, <1>3
<1> HIDE DEF d, live
<1>8. Fits(n, Sh(d, live, sh.kept)) /\ FlowOf(n, Sh(d, live, sh.kept)) = Append(Seen(s, sh.live), v)
  BY <1>7, FitsIs
<1>. QED BY <1>1, <1>2, <1>3, <1>8 DEF s, FlowOf, d, live

LEMMA FitsReplaced ==
    ASSUME NEW k, NEW sh, Fits(k, sh), Ready(sh), NEW v \in BOOLEAN, NEW n \in Machine,
           n.stack = Append(k.stack, v), n.stack4m = k.stack4m
    PROVE  /\ Fits(n, Sh(sh.depth + 1, Append(Front(sh.live), sh.depth + 1), sh.kept))
           /\ FlowOf(n, Sh(sh.depth + 1, Append(Front(sh.live), sh.depth + 1), sh.kept)) =
                Append(Front(FlowOf(k, sh)), v)
           /\ FlowOf(k, sh) # <<>> /\ Last(FlowOf(k, sh)) = Top(k)
<1> DEFINE s == k.stack
<1>1. Placed(s, sh.live) /\ sh.depth = Len(s) /\ s \in Seq(BOOLEAN) /\ n.stack = Append(s, v)
      /\ sh.kept = Len(n.stack4m) /\ sh.live # <<>> /\ Last(sh.live) = Len(s)
  BY DEF Fits, Placed, Ready
<1> HIDE DEF s
<1>2. /\ Placed(Append(s, v), Append(Front(sh.live), Len(s) + 1))
      /\ Seen(Append(s, v), Append(Front(sh.live), Len(s) + 1)) = Append(Front(Seen(s, sh.live)), v)
  BY <1>1, Replaced
<1>3. Len(Append(s, v)) = Len(s) + 1
  BY <1>1, AppendIs
<1>4. Seen(s, sh.live) # <<>> /\ Last(Seen(s, sh.live)) = Last(s)
  BY <1>1, FirstBlocks DEF Last
<1>5. FlowOf(k, sh) = Seen(s, sh.live) /\ Top(k) = Last(s)
  BY DEF s, FlowOf, Top
<1> DEFINE d == sh.depth + 1
           live == Append(Front(sh.live), sh.depth + 1)
<1>7. Placed(n.stack, live) /\ d = Len(n.stack) /\ sh.kept = Len(n.stack4m)
      /\ Seen(n.stack, live) = Append(Front(Seen(s, sh.live)), v)
  BY <1>1, <1>2, <1>3
<1> HIDE DEF d, live
<1>8. Fits(n, Sh(d, live, sh.kept)) /\ FlowOf(n, Sh(d, live, sh.kept)) = Append(Front(Seen(s, sh.live)), v)
  BY <1>7, FitsIs
<1>. QED BY <1>1, <1>2, <1>3, <1>4, <1>5, <1>8 DEF d, live

LEMMA FitsTaken ==
    ASSUME NEW k, NEW sh, Fits(k, sh), Ready(sh), NEW n \in Machine,
           n.stack = Front(k.stack), n.stack4m = k.stack4m
    PROVE  /\ Fits(n, Sh(sh.depth - 1, Front(sh.live), sh.kept))
           /\ FlowOf(n, Sh(sh.depth - 1, Front(sh.live), sh.kept)) = Front(FlowOf(k, sh))
           /\ FlowOf(k, sh) # <<>> /\ Last(FlowOf(k, sh)) = Top(k)
<1> DEFINE s == k.stack
<1>1. Placed(s, sh.live) /\ sh.depth = Len(s) /\ s \in Seq(BOOLEAN) /\ n.stack = Front(s)
      /\ sh.kept = Len(n.stack4m) /\ sh.live # <<>> /\ Last(sh.live) = Len(s)
  BY DEF Fits, Placed, Ready
<1> HIDE DEF s
<1>2. /\ Placed(Front(s), Front(sh.live)) /\ Seen(Front(s), Front(sh.live)) = Front(Seen(s, sh.live))
      /\ Len(Front(s)) = Len(s) - 1
  BY <1>1, Taken
<1>4. Seen(s, sh.live) # <<>> /\ Last(Seen(s, sh.live)) = Last(s)
  BY <1>1, FirstBlocks DEF Last
<1>5. FlowOf(k, sh) = Seen(s, sh.live) /\ Top(k) = Last(s)
  BY DEF s, FlowOf, Top
<1> DEFINE d == sh.depth - 1
           live == Front(sh.live)
<1>7. Placed(n.stack, live) /\ d = Len(n.stack) /\ sh.kept = Len(n.stack4m)
      /\ Seen(n.stack, live) = Front(Seen(s, sh.live))
  BY <1>1, <1>2
<1> HIDE DEF d, live
<1>8. Fits(n, Sh(d, live, sh.kept)) /\ FlowOf(n, Sh(d, live, sh.kept)) = Front(Seen(s, sh.live))
  BY <1>7, FitsIs
<1>. QED BY <1>1, <1>2, <1>4, <1>5, <1>8 DEF d, live

LEMMA FitsJoined ==
    ASSUME NEW k, NEW sh, Fits(k, sh), Ready(sh), Len(sh.live) > 1, Last(Front(sh.live)) = sh.depth - 1,
           NEW v \in BOOLEAN, NEW n \in Machine,
           n.stack = Append(Front(Front(k.stack)), v), n.stack4m = k.stack4m
    PROVE  /\ Fits(n, Sh(sh.depth - 1, Front(sh.live), sh.kept))
           /\ FlowOf(n, Sh(sh.depth - 1, Front(sh.live), sh.kept)) = Append(Front(Front(FlowOf(k, sh))), v)
           /\ Len(FlowOf(k, sh)) >= 2
           /\ Last(FlowOf(k, sh)) = Last(k.stack) /\ Last(Front(FlowOf(k, sh))) = Last(Front(k.stack))
<1> DEFINE s == k.stack
<1>1. Placed(s, sh.live) /\ sh.depth = Len(s) /\ s \in Seq(BOOLEAN) /\ n.stack = Append(Front(Front(s)), v)
      /\ sh.kept = Len(n.stack4m) /\ Last(sh.live) = Len(s) /\ Len(s) \in Nat
  BY DEF Fits, Placed, Ready
<1>2. FlowOf(k, sh) = Seen(s, sh.live)
  BY DEF s, FlowOf
<1> HIDE DEF s
<1>3. /\ Placed(Append(Front(Front(s)), v), Front(sh.live))
      /\ Seen(Append(Front(Front(s)), v), Front(sh.live)) = Append(Front(Front(Seen(s, sh.live))), v)
      /\ s # <<>> /\ Front(s) # <<>> /\ Len(Front(Front(s))) = Len(s) - 2
      /\ Last(Seen(s, sh.live)) = Last(s) /\ Last(Front(Seen(s, sh.live))) = Last(Front(s))
  BY <1>1, Joined
<1>4. Len(Append(Front(Front(s)), v)) = Len(s) - 1
  <2>1. Front(s) \in Seq(BOOLEAN)
    BY <1>1, <1>3, FrontAndLast
  <2>2. Front(Front(s)) \in Seq(BOOLEAN)
    BY <1>3, <2>1, FrontAndLast
  <2>3. Len(Append(Front(Front(s)), v)) = Len(s) - 2 + 1
    BY <1>3, <2>2, AppendIs
  <2>. QED BY <2>3, <1>1
<1>5. Len(Seen(s, sh.live)) >= 2
  <2>1. Len(Seen(s, sh.live)) = Len(sh.live) /\ Len(sh.live) \in Nat
    BY <1>1, SeenIs
  <2>. QED BY <2>1
<1> DEFINE d == sh.depth - 1
           live == Front(sh.live)
<1>7. Placed(n.stack, live) /\ d = Len(n.stack) /\ sh.kept = Len(n.stack4m)
      /\ Seen(n.stack, live) = Append(Front(Front(Seen(s, sh.live))), v)
  BY <1>1, <1>3, <1>4
<1> HIDE DEF d, live
<1>8. Fits(n, Sh(d, live, sh.kept)) /\ FlowOf(n, Sh(d, live, sh.kept)) = Append(Front(Front(Seen(s, sh.live))), v)
  BY <1>7, FitsIs
<1>. QED BY <1>1, <1>2, <1>3, <1>5, <1>8 DEF s, d, live

LEMMA FitsRecalled ==
    ASSUME NEW k, NEW sh, Fits(k, sh), ~Ready(sh), k.stack # <<>>, NEW v \in BOOLEAN, NEW n \in Machine,
           n.stack = Append(Front(k.stack), v)
    PROVE  /\ Fits(n, Sh(sh.depth, Append(sh.live, sh.depth), Len(n.stack4m)))
           /\ FlowOf(n, Sh(sh.depth, Append(sh.live, sh.depth), Len(n.stack4m))) = Append(FlowOf(k, sh), v)
<1> DEFINE s == k.stack
<1>1. Placed(s, sh.live) /\ sh.depth = Len(s) /\ s # <<>> /\ n.stack = Append(Front(s), v)
      /\ ~(sh.live # <<>> /\ Last(sh.live) = Len(s))
  BY DEF Fits, Ready
<1>2. FlowOf(k, sh) = Seen(s, sh.live)
  BY DEF s, FlowOf
<1> HIDE DEF s
<1>3. /\ Placed(Append(Front(s), v), Append(sh.live, Len(s)))
      /\ Seen(Append(Front(s), v), Append(sh.live, Len(s))) = Append(Seen(s, sh.live), v)
      /\ Len(Append(Front(s), v)) = Len(s)
  BY <1>1, Recalled
<1> DEFINE d == sh.depth
           live == Append(sh.live, sh.depth)
<1>7. Placed(n.stack, live) /\ d = Len(n.stack) /\ Len(n.stack4m) = Len(n.stack4m)
      /\ Seen(n.stack, live) = Append(Seen(s, sh.live), v)
  BY <1>1, <1>3
<1> HIDE DEF d, live
<1>8. Fits(n, Sh(d, live, Len(n.stack4m))) /\ FlowOf(n, Sh(d, live, Len(n.stack4m))) = Append(Seen(s, sh.live), v)
  BY <1>7, FitsIs
<1>. QED BY <1>1, <1>2, <1>3, <1>8 DEF d, live

LEMMA GrownDead ==
    ASSUME NEW m \in Machine, NEW k, Grown(m, k)
    PROVE  Ended(m, Dead(k))
<1>1. k \in Machine
  BY DEF Grown
<1>2. /\ Dead(k) \in Machine /\ ~Dead(k).alive
      /\ Dead(k).stack = k.stack /\ Dead(k).stack4m = k.stack4m /\ Dead(k).unit = k.unit
      /\ Dead(k).connected = k.connected /\ Dead(k).device = k.device
  BY <1>1, DeadIs
<1>. QED BY <1>2 DEF Grown, Ended

\* The stack is what the shape says, in a machine that has met more units.
LEMMA GrownFits ==
    ASSUME NEW m, NEW sh, Fits(m, sh), NEW k, Grown(m, k)
    PROVE  Fits(k, sh) /\ FlowOf(k, sh) = FlowOf(m, sh)
BY DEF Grown, Fits, FlowOf

\* Nothing but the stack differs.
Beside(k, n) ==
    /\ n.stack4m = k.stack4m /\ n.unit = k.unit /\ n.connected = k.connected
    /\ n.device = k.device /\ n.alive = k.alive

LEMMA PushBeside ==
    ASSUME NEW m \in Machine, NEW v \in BOOLEAN
    PROVE  Push(m, v) \in Machine /\ Push(m, v).stack = Append(m.stack, v) /\ Beside(m, Push(m, v))
<1> DEFINE n == Push(m, v)
<1>1. n \in Machine /\ n = With6(Append(m.stack, v), m.stack4m, m.unit, m.connected, m.device, m.alive)
  BY PushIs
<1> HIDE DEF n
<1>2. n \in Machine /\ n.stack = Append(m.stack, v) /\ Beside(m, n)
  BY <1>1 DEF Beside, With6
<1>. QED BY <1>2 DEF n

LEMMA DropBeside ==
    ASSUME NEW m \in Machine, m.stack # <<>>
    PROVE  /\ Drop(m) \in Machine /\ Drop(m).stack = Front(m.stack) /\ Beside(m, Drop(m))
           /\ Top(m) = Last(m.stack) /\ Top(m) \in BOOLEAN
<1> DEFINE n == Drop(m)
<1>1. /\ n \in Machine /\ n = With6(Front(m.stack), m.stack4m, m.unit, m.connected, m.device, m.alive)
      /\ Top(m) \in BOOLEAN
  BY DropIs
<1> HIDE DEF n
<1>2. n \in Machine /\ n.stack = Front(m.stack) /\ Beside(m, n)
  BY <1>1 DEF Beside, With6
<1>. QED BY <1>1, <1>2 DEF n, Top

LEMMA ContactIs ==
    ASSUME NEW edge \in {"open", "closed", "rising", "falling"}, NEW s \in SoftUnit
    PROVE  Contact(edge, s) \in BOOLEAN
BY DEF Contact, SoftUnit

\* The unit of a clause that can be read: no data register, and in the device if there is one.
Readable(m, c) == Kind[c.unit] # "D" /\ (m.connected => c.unit \in Mapped)

LEMMA OutcomeLD ==
    ASSUME NEW m, NEW sh, Fits(m, sh), m.alive, NEW c \in Clause, c.op = "LD", Readable(m, c),
           After(sh, c).right, NEW n \in Run_LD(m, c)
    PROVE  \/ Ended(m, n)
           \/ \E k : /\ Met(m, c.unit, k) /\ Beside(k, n) /\ Fits(n, After(sh, c))
                     /\ FlowOf(n, After(sh, c)) =
                          Append(FlowOf(m, sh), Contact(c.edge, k.unit[c.unit]))
<1>0. m \in Machine /\ c.unit \in Unit /\ c.edge \in {"open", "closed", "rising", "falling"}
  BY DEF Fits, Clause
<1>1. PICK g \in GetSoftUnit(m, c.unit) :
        n = IF g.found THEN Push(g.m, Contact(c.edge, g.m.unit[c.unit])) ELSE g.m
  BY DEF Run_LD, With
<1>2. IF g.found THEN Met(m, c.unit, g.m) ELSE Ended(m, g.m)
  BY <1>0, Sought DEF Readable
<1>3. CASE ~g.found
  BY <1>1, <1>2, <1>3
<1>4. CASE g.found
  <2> DEFINE k == g.m
             v == Contact(c.edge, k.unit[c.unit])
  <2>1. Met(m, c.unit, k) /\ n = Push(k, v)
    BY <1>1, <1>2, <1>4
  <2> HIDE DEF k
  <2>2. k \in Machine /\ Fits(k, sh) /\ FlowOf(k, sh) = FlowOf(m, sh)
    BY <2>1, GrownFits DEF Met, Fits
  <2>3. k.unit[c.unit] \in SoftUnit
    BY <2>1, <2>2, Fields DEF Met
  <2>4. v \in BOOLEAN
    BY <1>0, <2>3, ContactIs
  <2> HIDE DEF v
  <2>5. n \in Machine /\ n.stack = Append(k.stack, v) /\ Beside(k, n)
    BY <2>1, <2>2, <2>4, PushBeside
  <2>6. After(sh, c) = Sh(sh.depth + 1, Append(sh.live, sh.depth + 1), sh.kept)
    BY <2>2, AfterIs DEF Fits
  <2>7. Fits(n, After(sh, c)) /\ FlowOf(n, After(sh, c)) = Append(FlowOf(m, sh), v)
    BY <2>2, <2>4, <2>5, <2>6, FitsOnTop DEF Beside
  <2>. QED BY <2>1, <2>5, <2>7 DEF v
<1>. QED BY <1>3, <1>4

LEMMA OutcomeAND ==
    ASSUME NEW m, NEW sh, Fits(m, sh), m.alive, NEW c \in Clause, c.op = "AND", Readable(m, c),
           After(sh, c).right, NEW n \in Run_AND(m, c)
    PROVE  \/ Ended(m, n)
           \/ /\ FlowOf(m, sh) # <<>>
              /\ \E k : /\ Met(m, c.unit, k) /\ Beside(k, n) /\ Fits(n, After(sh, c))
                        /\ FlowOf(n, After(sh, c)) =
                             Append(Front(FlowOf(m, sh)),
                                    Contact(c.edge, k.unit[c.unit]) /\ Last(FlowOf(m, sh)))
<1>0. m \in Machine /\ c.unit \in Unit /\ c.edge \in {"open", "closed", "rising", "falling"}
  BY DEF Fits, Clause
<1>1. \/ n = Dead(m)
      \/ /\ m.stack # <<>>
         /\ \E g \in GetSoftUnit(m, c.unit) :
               n = IF g.found THEN Push(g.m, Contact(c.edge, g.m.unit[c.unit]) /\ Top(g.m)) ELSE g.m
  BY DEF Run_AND, With
<1>2. CASE n = Dead(m)
  BY <1>0, <1>2, GrownSelf
<1>3. ASSUME m.stack # <<>>, NEW g \in GetSoftUnit(m, c.unit), ~g.found, n = g.m
      PROVE  Ended(m, n)
  BY <1>0, <1>3, Sought DEF Readable
<1>4. ASSUME m.stack # <<>>, NEW g \in GetSoftUnit(m, c.unit), g.found,
             n = Push(g.m, Contact(c.edge, g.m.unit[c.unit]) /\ Top(g.m))
      PROVE  /\ FlowOf(m, sh) # <<>>
             /\ \E k : /\ Met(m, c.unit, k) /\ Beside(k, n) /\ Fits(n, After(sh, c))
                       /\ FlowOf(n, After(sh, c)) =
                            Append(Front(FlowOf(m, sh)),
                                   Contact(c.edge, k.unit[c.unit]) /\ Last(FlowOf(m, sh)))
  <2> DEFINE k == g.m
             v == Contact(c.edge, k.unit[c.unit]) /\ Top(k)
  <2>1. Met(m, c.unit, k) /\ n = Push(k, v)
    BY <1>0, <1>4, Sought DEF Readable
  <2> HIDE DEF k
  <2>2. k \in Machine /\ Fits(k, sh) /\ FlowOf(k, sh) = FlowOf(m, sh) /\ k.stack # <<>>
    BY <1>4, <2>1, GrownFits DEF Met, Fits, Grown
  <2>3. k.unit[c.unit] \in SoftUnit /\ Top(k) \in BOOLEAN
    BY <2>1, <2>2, Fields, DropIs DEF Met
  <2>4. v \in BOOLEAN
    BY <1>0, <2>3, ContactIs
  <2> HIDE DEF v
  <2>5. n \in Machine /\ n.stack = Append(k.stack, v) /\ Beside(k, n)
    BY <2>1, <2>2, <2>4, PushBeside
  <2>6. sh.depth # 0
    BY <2>2 DEF Fits, Placed
  <2>7. Ready(sh) /\ After(sh, c) = Sh(sh.depth + 1, Append(Front(sh.live), sh.depth + 1), sh.kept)
    BY <2>2, <2>6, AfterIs DEF Fits
  <2>8. /\ Fits(n, After(sh, c)) /\ FlowOf(n, After(sh, c)) = Append(Front(FlowOf(m, sh)), v)
        /\ FlowOf(m, sh) # <<>> /\ Last(FlowOf(m, sh)) = Top(k)
    BY <2>2, <2>4, <2>5, <2>7, FitsReplaced DEF Beside
  <2>. QED BY <2>1, <2>5, <2>8 DEF v
<1>. QED BY <1>1, <1>2, <1>3, <1>4

LEMMA OutcomeOR ==
    ASSUME NEW m, NEW sh, Fits(m, sh), m.alive, NEW c \in Clause, c.op = "OR", Readable(m, c),
           After(sh, c).right, NEW n \in Run_OR(m, c)
    PROVE  \/ Ended(m, n)
           \/ /\ FlowOf(m, sh) # <<>>
              /\ \E k : /\ Met(m, c.unit, k) /\ Beside(k, n) /\ Fits(n, After(sh, c))
                        /\ FlowOf(n, After(sh, c)) =
                             Append(Front(FlowOf(m, sh)),
                                    Contact(c.edge, k.unit[c.unit]) \/ Last(FlowOf(m, sh)))
<1>0. m \in Machine /\ c.unit \in Unit /\ c.edge \in {"open", "closed", "rising", "falling"}
  BY DEF Fits, Clause
<1>1. \/ n = Dead(m)
      \/ /\ m.stack # <<>>
         /\ \E g \in GetSoftUnit(m, c.unit) :
               n = IF g.found THEN Push(g.m, Contact(c.edge, g.m.unit[c.unit]) \/ Top(g.m)) ELSE g.m
  BY DEF Run_OR, With
<1>2. CASE n = Dead(m)
  BY <1>0, <1>2, GrownSelf
<1>3. ASSUME m.stack # <<>>, NEW g \in GetSoftUnit(m, c.unit), ~g.found, n = g.m
      PROVE  Ended(m, n)
  BY <1>0, <1>3, Sought DEF Readable
<1>4. ASSUME m.stack # <<>>, NEW g \in GetSoftUnit(m, c.unit), g.found,
             n = Push(g.m, Contact(c.edge, g.m.unit[c.unit]) \/ Top(g.m))
      PROVE  /\ FlowOf(m, sh) # <<>>
             /\ \E k : /\ Met(m, c.unit, k) /\ Beside(k, n) /\ Fits(n, After(sh, c))
                       /\ FlowOf(n, After(sh, c)) =
                            Append(Front(FlowOf(m, sh)),
                                   Contact(c.edge, k.unit[c.unit]) \/ Last(FlowOf(m, sh)))
  <2> DEFINE k == g.m
             v == Contact(c.edge, k.unit[c.unit]) \/ Top(k)
  <2>1. Met(m, c.unit, k) /\ n = Push(k, v)
    BY <1>0, <1>4, Sought DEF Readable
  <2> HIDE DEF k
  <2>2. k \in Machine /\ Fits(k, sh) /\ FlowOf(k, sh) = FlowOf(m, sh) /\ k.stack # <<>>
    BY <1>4, <2>1, GrownFits DEF Met, Fits, Grown
  <2>3. k.unit[c.unit] \in SoftUnit /\ Top(k) \in BOOLEAN
    BY <2>1, <2>2, Fields, DropIs DEF Met
  <2>4. v \in BOOLEAN
    BY <1>0, <2>3, ContactIs
  <2> HIDE DEF v
  <2>5. n \in Machine /\ n.stack = Append(k.stack, v) /\ Beside(k, n)
    BY <2>1, <2>2, <2>4, PushBeside
  <2>6. sh.depth # 0
    BY <2>2 DEF Fits, Placed
  <2>7. Ready(sh) /\ After(sh, c) = Sh(sh.depth + 1, Append(Front(sh.live), sh.depth + 1), sh.kept)
    BY <2>2, <2>6, AfterIs DEF Fits
  <2>8. /\ Fits(n, After(sh, c)) /\ FlowOf(n, After(sh, c)) = Append(Front(FlowOf(m, sh)), v)
        /\ FlowOf(m, sh) # <<>> /\ Last(FlowOf(m, sh)) = Top(k)
    BY <2>2, <2>4, <2>5, <2>7, FitsReplaced DEF Beside
  <2>. QED BY <2>1, <2>5, <2>8 DEF v
<1>. QED BY <1>1, <1>2, <1>3, <1>4

LEMMA OutcomeANB ==
    ASSUME NEW m, NEW sh, Fits(m, sh), m.alive, NEW c, c.op = "ANB", After(sh, c).right,
           NEW n \in Run_ANB(m)
    PROVE  \/ Ended(m, n)
           \/ /\ Len(FlowOf(m, sh)) >= 2 /\ Beside(m, n) /\ Fits(n, After(sh, c))
              /\ FlowOf(n, After(sh, c)) =
                   Append(Front(Front(FlowOf(m, sh))), Last(FlowOf(m, sh)) /\ Last(Front(FlowOf(m, sh))))
<1>0. m \in Machine /\ sh.depth = Len(m.stack) /\ m.stack \in Seq(BOOLEAN)
  BY DEF Fits, Placed
<1>1. CASE Len(m.stack) < 2
  BY <1>0, <1>1, GrownSelf DEF Run_ANB
<1>2. CASE ~(Len(m.stack) < 2)
  <2> DEFINE v == Top(m) /\ Top(Drop(m))
  <2>1. n = Push(Drop(Drop(m)), v)
    BY <1>2 DEF Run_ANB
  <2>2. /\ Len(sh.live) > 1 /\ Ready(sh) /\ Last(Front(sh.live)) = sh.depth - 1
        /\ After(sh, c) = Sh(sh.depth - 1, Front(sh.live), sh.kept)
    BY <1>0, <1>2, AfterIs DEF Fits
  <2>3. m.stack # <<>> /\ Front(m.stack) # <<>>
    <3>1. m.stack # <<>>
      BY <1>0, <1>2
    <3>2. Len(Front(m.stack)) = Len(m.stack) - 1 /\ Len(m.stack) \in Nat
      BY <1>0, <3>1, FrontAndLast
    <3>. QED BY <3>1, <3>2, <1>2
  <2>4. Drop(m) \in Machine /\ Drop(m).stack = Front(m.stack) /\ Beside(m, Drop(m)) /\ Top(m) \in BOOLEAN
    BY <1>0, <2>3, DropBeside
  <2>5. /\ Drop(Drop(m)) \in Machine /\ Drop(Drop(m)).stack = Front(Front(m.stack))
        /\ Beside(m, Drop(Drop(m))) /\ Top(Drop(m)) \in BOOLEAN
    BY <2>3, <2>4, DropBeside DEF Beside
  <2>6. v \in BOOLEAN
    BY <2>4, <2>5
  <2> HIDE DEF v
  <2>7. n \in Machine /\ n.stack = Append(Front(Front(m.stack)), v) /\ Beside(m, n)
    BY <2>1, <2>5, <2>6, PushBeside DEF Beside
  <2>8. /\ Fits(n, After(sh, c)) /\ FlowOf(n, After(sh, c)) = Append(Front(Front(FlowOf(m, sh))), v)
        /\ Len(FlowOf(m, sh)) >= 2
        /\ Last(FlowOf(m, sh)) = Last(m.stack) /\ Last(Front(FlowOf(m, sh))) = Last(Front(m.stack))
    BY <2>2, <2>6, <2>7, FitsJoined DEF Beside
  <2>9. Top(m) = Last(m.stack) /\ Top(Drop(m)) = Last(Front(m.stack))
    BY <2>4 DEF Top
  <2>. QED BY <2>7, <2>8, <2>9 DEF v
<1>. QED BY <1>1, <1>2

LEMMA OutcomeORB ==
    ASSUME NEW m, NEW sh, Fits(m, sh), m.alive, NEW c, c.op = "ORB", After(sh, c).right,
           NEW n \in Run_ORB(m)
    PROVE  \/ Ended(m, n)
           \/ /\ Len(FlowOf(m, sh)) >= 2 /\ Beside(m, n) /\ Fits(n, After(sh, c))
              /\ FlowOf(n, After(sh, c)) =
                   Append(Front(Front(FlowOf(m, sh))), Last(FlowOf(m, sh)) \/ Last(Front(FlowOf(m, sh))))
<1>0. m \in Machine /\ sh.depth = Len(m.stack) /\ m.stack \in Seq(BOOLEAN)
  BY DEF Fits, Placed
<1>1. CASE Len(m.stack) < 2
  BY <1>0, <1>1, GrownSelf DEF Run_ORB
<1>2. CASE ~(Len(m.stack) < 2)
  <2> DEFINE v == Top(m) \/ Top(Drop(m))
  <2>1. n = Push(Drop(Drop(m)), v)
    BY <1>2 DEF Run_ORB
  <2>2. /\ Len(sh.live) > 1 /\ Ready(sh) /\ Last(Front(sh.live)) = sh.depth - 1
        /\ After(sh, c) = Sh(sh.depth - 1, Front(sh.live), sh.kept)
    BY <1>0, <1>2, AfterIs DEF Fits
  <2>3. m.stack # <<>> /\ Front(m.stack) # <<>>
    <3>1. m.stack # <<>>
      BY <1>0, <1>2
    <3>2. Len(Front(m.stack)) = Len(m.stack) - 1 /\ Len(m.stack) \in Nat
      BY <1>0, <3>1, FrontAndLast
    <3>. QED BY <3>1, <3>2, <1>2
  <2>4. Drop(m) \in Machine /\ Drop(m).stack = Front(m.stack) /\ Beside(m, Drop(m)) /\ Top(m) \in BOOLEAN
    BY <1>0, <2>3, DropBeside
  <2>5. /\ Drop(Drop(m)) \in Machine /\ Drop(Drop(m)).stack = Front(Front(m.stack))
        /\ Beside(m, Drop(Drop(m))) /\ Top(Drop(m)) \in BOOLEAN
    BY <2>3, <2>4, DropBeside DEF Beside
  <2>6. v \in BOOLEAN
    BY <2>4, <2>5
  <2> HIDE DEF v
  <2>7. n \in Machine /\ n.stack = Append(Front(Front(m.stack)), v) /\ Beside(m, n)
    BY <2>1, <2>5, <2>6, PushBeside DEF Beside
  <2>8. /\ Fits(n, After(sh, c)) /\ FlowOf(n, After(sh, c)) = Append(Front(Front(FlowOf(m, sh))), v)
        /\ Len(FlowOf(m, sh)) >= 2
        /\ Last(FlowOf(m, sh)) = Last(m.stack) /\ Last(Front(FlowOf(m, sh))) = Last(Front(m.stack))
    BY <2>2, <2>6, <2>7, FitsJoined DEF Beside
  <2>9. Top(m) = Last(m.stack) /\ Top(Drop(m)) = Last(Front(m.stack))
    BY <2>4 DEF Top
  <2>. QED BY <2>7, <2>8, <2>9 DEF v
<1>. QED BY <1>1, <1>2

\* A unit is given a value, and the device becomes d.
Coiled(k, n, u, v, d) ==
    /\ n.stack4m = k.stack4m /\ n.unit = Valued(k, u, v) /\ n.connected = k.connected
    /\ n.device = d /\ n.alive = k.alive

\* What the device becomes if it is told.
Told(k, u, v) == IF k.connected THEN [k.device EXCEPT ![u] = v] ELSE k.device

LEMMA SetValueCoils ==
    ASSUME NEW m \in Machine, NEW u \in DOMAIN m.unit, NEW v \in BOOLEAN
    PROVE  /\ SetValue(m, u, v) \in Machine /\ SetValue(m, u, v).stack = m.stack
           /\ Coiled(m, SetValue(m, u, v), u, v, m.device)
<1> DEFINE n == SetValue(m, u, v)
<1>1. n \in Machine /\ n = With6(m.stack, m.stack4m, Valued(m, u, v), m.connected, m.device, m.alive)
  BY SetValueIs
<1> HIDE DEF n
<1>2. n \in Machine /\ n.stack = m.stack /\ Coiled(m, n, u, v, m.device)
  BY <1>1 DEF Coiled, With6
<1>. QED BY <1>2 DEF n

LEMMA SetStateCoils ==
    ASSUME NEW m \in Machine, NEW u \in DOMAIN m.unit, NEW v \in BOOLEAN
    PROVE  /\ SetState(m, u, v) \in Machine /\ SetState(m, u, v).stack = m.stack
           /\ Coiled(m, SetState(m, u, v), u, v, Told(m, u, v))
<1> DEFINE n == SetState(m, u, v)
<1>1. /\ n \in Machine
      /\ n = With6(m.stack, m.stack4m, Valued(m, u, v), m.connected, Told(m, u, v), m.alive)
  BY SetStateIs DEF Told
<1> HIDE DEF n
<1>2. n \in Machine /\ n.stack = m.stack /\ Coiled(m, n, u, v, Told(m, u, v))
  BY <1>1 DEF Coiled, With6
<1>. QED BY <1>2 DEF n

\* The stacks stay.
LEMMA FitsCoiled ==
    ASSUME NEW k, NEW sh, Fits(k, sh), NEW n \in Machine, NEW u, NEW v, NEW d, Coiled(k, n, u, v, d),
           n.stack = k.stack
    PROVE  Fits(n, sh) /\ FlowOf(n, sh) = FlowOf(k, sh)
BY DEF Fits, FlowOf, Coiled

LEMMA OutcomeOUT ==
    ASSUME NEW m, NEW sh, Fits(m, sh), m.alive, NEW c \in Clause, c.op = "OUT", Readable(m, c),
           After(sh, c).right, NEW n \in Run_OUT(m, c)
    PROVE  \/ Ended(m, n)
           \/ /\ FlowOf(m, sh) # <<>> /\ Last(FlowOf(m, sh)) \in BOOLEAN
              /\ \E k : /\ Met(m, c.unit, k) /\ Coiled(k, n, c.unit, Last(FlowOf(m, sh)), k.device)
                        /\ Fits(n, After(sh, c)) /\ FlowOf(n, After(sh, c)) = Front(FlowOf(m, sh))
<1>0. m \in Machine /\ c.unit \in Unit
  BY DEF Fits, Clause
<1>1. PICK g \in GetSoftUnit(m, c.unit) :
        n = IF g.found THEN IF g.m.stack = <<>> THEN Dead(g.m) ELSE Drop(SetValue(g.m, c.unit, Top(g.m)))
                       ELSE g.m
  BY DEF Run_OUT, With
<1>2. IF g.found THEN Met(m, c.unit, g.m) ELSE Ended(m, g.m)
  BY <1>0, Sought DEF Readable
<1> DEFINE k == g.m
<1>3. CASE ~g.found
  BY <1>1, <1>2, <1>3
<1>4. CASE g.found /\ k.stack = <<>>
  BY <1>0, <1>1, <1>2, <1>4, GrownDead DEF Met
<1>5. CASE g.found /\ k.stack # <<>>
  <2> DEFINE v == Top(k)
             w == SetValue(k, c.unit, v)
  <2>1. Met(m, c.unit, k) /\ n = Drop(w) /\ k.stack # <<>>
    BY <1>1, <1>2, <1>5
  <2> HIDE DEF k
  <2>2. k \in Machine /\ Fits(k, sh) /\ FlowOf(k, sh) = FlowOf(m, sh) /\ c.unit \in DOMAIN k.unit
    BY <2>1, GrownFits DEF Met, Fits
  <2>3. v \in BOOLEAN
    BY <2>1, <2>2, DropBeside
  <2> HIDE DEF v
  <2>4. w \in Machine /\ w.stack = k.stack /\ Coiled(k, w, c.unit, v, k.device)
    BY <2>2, <2>3, SetValueCoils
  <2> HIDE DEF w
  <2>5. n \in Machine /\ n.stack = Front(k.stack) /\ Beside(w, n)
    BY <2>1, <2>4, DropBeside
  <2>6. Coiled(k, n, c.unit, v, k.device) /\ n.stack4m = k.stack4m
    BY <2>4, <2>5 DEF Coiled, Beside
  <2>7. sh.depth # 0
    BY <2>1, <2>2 DEF Fits, Placed
  <2>8. Ready(sh) /\ After(sh, c) = Sh(sh.depth - 1, Front(sh.live), sh.kept)
    BY <2>2, <2>7, AfterIs DEF Fits
  <2>9. /\ Fits(n, After(sh, c)) /\ FlowOf(n, After(sh, c)) = Front(FlowOf(m, sh))
        /\ FlowOf(m, sh) # <<>> /\ Last(FlowOf(m, sh)) = v
    BY <2>2, <2>5, <2>6, <2>8, FitsTaken DEF v
  <2>. QED BY <2>1, <2>3, <2>6, <2>9
<1>. QED BY <1>3, <1>4, <1>5

LEMMA OutcomeSET ==
    ASSUME NEW m, NEW sh, Fits(m, sh), m.alive, NEW c \in Clause, c.op = "SET", Readable(m, c),
           After(sh, c).right, NEW n \in Run_SET(m, c)
    PROVE  \/ Ended(m, n)
           \/ \E k : /\ Met(m, c.unit, k) /\ Coiled(k, n, c.unit, TRUE, Told(k, c.unit, TRUE))
                     /\ Fits(n, After(sh, c)) /\ FlowOf(n, After(sh, c)) = FlowOf(m, sh)
<1>0. m \in Machine /\ c.unit \in Unit
  BY DEF Fits, Clause
<1>1. PICK g \in GetSoftUnit(m, c.unit) : n = IF g.found THEN SetState(g.m, c.unit, TRUE) ELSE g.m
  BY DEF Run_SET, With
<1>2. IF g.found THEN Met(m, c.unit, g.m) ELSE Ended(m, g.m)
  BY <1>0, Sought DEF Readable
<1> DEFINE k == g.m
<1>3. CASE ~g.found
  BY <1>1, <1>2, <1>3
<1>4. CASE g.found
  <2>1. Met(m, c.unit, k) /\ n = SetState(k, c.unit, TRUE)
    BY <1>1, <1>2, <1>4
  <2> HIDE DEF k
  <2>2. k \in Machine /\ Fits(k, sh) /\ FlowOf(k, sh) = FlowOf(m, sh) /\ c.unit \in DOMAIN k.unit
    BY <2>1, GrownFits DEF Met, Fits
  <2>3. n \in Machine /\ n.stack = k.stack /\ Coiled(k, n, c.unit, TRUE, Told(k, c.unit, TRUE))
    BY <2>1, <2>2, SetStateCoils
  <2>4. After(sh, c) = sh
    BY AfterIs DEF Fits
  <2>5. Fits(n, sh) /\ FlowOf(n, sh) = FlowOf(m, sh)
    BY <2>2, <2>3, FitsCoiled
  <2>. QED BY <2>1, <2>3, <2>4, <2>5
<1>. QED BY <1>3, <1>4

LEMMA OutcomeRST ==
    ASSUME NEW m, NEW sh, Fits(m, sh), m.alive, NEW c \in Clause, c.op = "RST", Readable(m, c),
           After(sh, c).right, NEW n \in Run_RST(m, c)
    PROVE  \/ Ended(m, n)
           \/ \E k : /\ Met(m, c.unit, k)
                     /\ Coiled(k, n, c.unit, FALSE,
                               IF Kind[c.unit] = "T" THEN k.device ELSE Told(k, c.unit, FALSE))
                     /\ Fits(n, After(sh, c)) /\ FlowOf(n, After(sh, c)) = FlowOf(m, sh)
<1>0. m \in Machine /\ c.unit \in Unit
  BY DEF Fits, Clause
<1>1. PICK g \in GetSoftUnit(m, c.unit) : n = IF g.found THEN Reset(g.m, c.unit) ELSE g.m
  BY DEF Run_RST, With
<1>2. IF g.found THEN Met(m, c.unit, g.m) ELSE Ended(m, g.m)
  BY <1>0, Sought DEF Readable
<1> DEFINE k == g.m
           d == IF Kind[c.unit] = "T" THEN k.device ELSE Told(k, c.unit, FALSE)
<1>3. CASE ~g.found
  BY <1>1, <1>2, <1>3
<1>4. CASE g.found
  <2>1. Met(m, c.unit, k) /\ n = Reset(k, c.unit)
    BY <1>1, <1>2, <1>4
  <2> HIDE DEF k
  <2>2. k \in Machine /\ Fits(k, sh) /\ FlowOf(k, sh) = FlowOf(m, sh) /\ c.unit \in DOMAIN k.unit
    BY <2>1, GrownFits DEF Met, Fits
  <2>3. n \in Machine /\ n.stack = k.stack /\ Coiled(k, n, c.unit, FALSE, d)
    BY <2>1, <2>2, SetStateCoils, SetValueCoils DEF Reset
  <2> HIDE DEF d
  <2>4. After(sh, c) = sh
    BY AfterIs DEF Fits
  <2>5. Fits(n, sh) /\ FlowOf(n, sh) = FlowOf(m, sh)
    BY <2>2, <2>3, FitsCoiled
  <2>. QED BY <2>1, <2>3, <2>4, <2>5 DEF d
<1>. QED BY <1>3, <1>4

\* The reset of a data register does nothing, if it does not end the program.
LEMMA OutcomeRegister ==
    ASSUME NEW m, NEW sh, Fits(m, sh), m.alive, NEW c \in Clause, c.op = "RST", Kind[c.unit] = "D",
           After(sh, c).right, NEW n \in Run_RST(m, c)
    PROVE  Ended(m, n) \/ (n = m /\ After(sh, c) = sh)
<1>0. m \in Machine /\ c.unit \in Unit
  BY DEF Fits, Clause
<1>1. PICK g \in GetSoftUnit(m, c.unit) : n = IF g.found THEN Reset(g.m, c.unit) ELSE g.m
  BY DEF Run_RST, With
<1>2. n = m \/ n = Dead(m)
  BY <1>0, <1>1, Register
<1>3. After(sh, c) = sh
  BY AfterIs DEF Fits
<1>. QED BY <1>0, <1>2, <1>3, GrownSelf

\* The units and the device stay.
Unmoved(m, n) ==
    n.unit = m.unit /\ n.connected = m.connected /\ n.device = m.device /\ n.alive = m.alive

LEMMA ReadyTop ==
    ASSUME NEW m, NEW sh, Fits(m, sh), Ready(sh)
    PROVE  FlowOf(m, sh) # <<>> /\ Last(FlowOf(m, sh)) = Top(m) /\ m.stack # <<>>
<1>1. Placed(m.stack, sh.live) /\ sh.live # <<>> /\ Last(sh.live) = Len(m.stack)
  BY DEF Fits, Ready
<1>2. /\ Seen(m.stack, sh.live) # <<>> /\ Last(Seen(m.stack, sh.live)) = m.stack[Len(m.stack)]
      /\ Len(m.stack) \in 1..Len(m.stack)
  BY <1>1, FirstBlocks
<1>. QED BY <1>2 DEF FlowOf, Top, Last

LEMMA OutcomeMPS ==
    ASSUME NEW m, NEW sh, Fits(m, sh), m.alive, NEW c, c.op = "MPS", After(sh, c).right, NEW n \in Run_MPS(m)
    PROVE  \/ Ended(m, n)
           \/ /\ FlowOf(m, sh) # <<>> /\ Unmoved(m, n) /\ Fits(n, After(sh, c))
              /\ FlowOf(n, After(sh, c)) = FlowOf(m, sh)
              /\ n.stack4m = Append(m.stack4m, Last(FlowOf(m, sh)))
<1>0. /\ m \in Machine /\ sh.depth = Len(m.stack) /\ sh.kept = Len(m.stack4m)
      /\ m.stack \in Seq(BOOLEAN) /\ m.stack4m \in Seq(BOOLEAN) /\ Placed(m.stack, sh.live)
  BY Fields DEF Fits
<1>1. CASE m.stack = <<>>
  BY <1>0, <1>1, GrownSelf DEF Run_MPS
<1>2. CASE m.stack # <<>>
  <2>1. n = [m EXCEPT !.stack4m = Append(@, Top(m))]
    BY <1>2 DEF Run_MPS
  <2> DEFINE b == Append(m.stack4m, Top(m))
  <2>2. n = With6(m.stack, b, m.unit, m.connected, m.device, m.alive)
    BY <1>0, <2>1, Same6
  <2>3. b \in Seq(BOOLEAN) /\ Len(b) = sh.kept + 1
    BY <1>0, <1>2, DropBeside, AppendIs
  <2>4. /\ m.unit \in [DOMAIN m.unit -> SoftUnit] /\ m.device \in [Mapped -> BOOLEAN] /\ m.alive \in BOOLEAN
    BY <1>0, Fields
  <2>5. sh.depth # 0
    BY <1>0, <1>2
  <2>6. Ready(sh) /\ After(sh, c) = Sh(sh.depth, sh.live, sh.kept + 1)
    BY <2>5, AfterIs DEF Fits
  <2> HIDE DEF b
  <2>7. n \in Machine
    BY <1>0, <2>2, <2>3, <2>4, Remade
  <2>8. n.stack = m.stack /\ n.stack4m = b /\ Unmoved(m, n)
    BY <2>2 DEF With6, Unmoved
  <2> DEFINE k == sh.kept + 1
  <2>9. k = Len(n.stack4m) /\ sh.depth = Len(n.stack) /\ Placed(n.stack, sh.live)
    BY <1>0, <2>3, <2>8
  <2> HIDE DEF k
  <2>10. Fits(n, Sh(sh.depth, sh.live, k)) /\ FlowOf(n, Sh(sh.depth, sh.live, k)) = Seen(n.stack, sh.live)
    BY <2>7, <2>9, FitsIs
  <2>. QED BY <2>6, <2>8, <2>10, ReadyTop DEF k, b, FlowOf
<1>. QED BY <1>1, <1>2

LEMMA OutcomeMRD ==
    ASSUME NEW m, NEW sh, Fits(m, sh), m.alive, NEW c, c.op = "MRD", After(sh, c).right, NEW n \in Run_MRD(m)
    PROVE  \/ Ended(m, n)
           \/ /\ m.stack4m # <<>> /\ Unmoved(m, n) /\ Fits(n, After(sh, c)) /\ n.stack4m = m.stack4m
              /\ FlowOf(n, After(sh, c)) = Append(FlowOf(m, sh), Last(m.stack4m))
<1>0. /\ m \in Machine /\ sh.depth = Len(m.stack) /\ sh.kept = Len(m.stack4m)
      /\ m.stack \in Seq(BOOLEAN) /\ m.stack4m \in Seq(BOOLEAN)
  BY Fields DEF Fits
<1>1. CASE m.stack4m = <<>> \/ m.stack = <<>>
  BY <1>0, <1>1, GrownSelf DEF Run_MRD
<1>2. CASE m.stack4m # <<>> /\ m.stack # <<>>
  <2> DEFINE v == Last(m.stack4m)
  <2>1. n = Push(Drop(m), v)
    BY <1>2 DEF Run_MRD
  <2>2. v \in BOOLEAN
    BY <1>0, <1>2, FrontAndLast
  <2> HIDE DEF v
  <2>3. Drop(m) \in Machine /\ Drop(m).stack = Front(m.stack) /\ Beside(m, Drop(m))
    BY <1>0, <1>2, DropBeside
  <2>4. n \in Machine /\ n.stack = Append(Front(m.stack), v) /\ Beside(m, n)
    BY <2>1, <2>2, <2>3, PushBeside DEF Beside
  <2>5. sh.depth # 0 /\ sh.kept # 0
    BY <1>0, <1>2
  <2>6. ~Ready(sh) /\ After(sh, c) = Sh(sh.depth, Append(sh.live, sh.depth), sh.kept)
    BY <2>5, AfterIs DEF Fits
  <2>7. sh.kept = Len(n.stack4m)
    BY <1>0, <2>4 DEF Beside
  <2>8. Fits(n, After(sh, c)) /\ FlowOf(n, After(sh, c)) = Append(FlowOf(m, sh), v)
    BY <1>2, <2>2, <2>4, <2>6, <2>7, FitsRecalled
  <2>. QED BY <1>2, <2>4, <2>8 DEF v, Beside, Unmoved
<1>. QED BY <1>1, <1>2

LEMMA OutcomeMPP ==
    ASSUME NEW m, NEW sh, Fits(m, sh), m.alive, NEW c, c.op = "MPP", After(sh, c).right, NEW n \in Run_MPP(m)
    PROVE  \/ Ended(m, n)
           \/ /\ m.stack4m # <<>> /\ Unmoved(m, n) /\ Fits(n, After(sh, c)) /\ n.stack4m = Front(m.stack4m)
              /\ FlowOf(n, After(sh, c)) = Append(FlowOf(m, sh), Last(m.stack4m))
<1>0. /\ m \in Machine /\ sh.depth = Len(m.stack) /\ sh.kept = Len(m.stack4m)
      /\ m.stack \in Seq(BOOLEAN) /\ m.stack4m \in Seq(BOOLEAN)
  BY Fields DEF Fits
<1>1. CASE m.stack4m = <<>> \/ m.stack = <<>>
  BY <1>0, <1>1, GrownSelf DEF Run_MPP
<1>2. CASE m.stack4m # <<>> /\ m.stack # <<>>
  <2> DEFINE v == Last(m.stack4m)
             h == Push(Drop(m), v)
             b == Front(m.stack4m)
  <2>1. n = [h EXCEPT !.stack4m = Front(@)]
    BY <1>2 DEF Run_MPP
  <2>2. v \in BOOLEAN /\ b \in Seq(BOOLEAN) /\ Len(b) = sh.kept - 1
    BY <1>0, <1>2, FrontAndLast
  <2> HIDE DEF v, b
  <2>3. Drop(m) \in Machine /\ Drop(m).stack = Front(m.stack) /\ Beside(m, Drop(m))
    BY <1>0, <1>2, DropBeside
  <2>4. h \in Machine /\ h.stack = Append(Front(m.stack), v) /\ Beside(m, h)
    BY <2>2, <2>3, PushBeside DEF Beside
  <2> HIDE DEF h
  <2>5. n = [h EXCEPT !.stack4m = b]
    BY <2>1, <2>4 DEF b, Beside, Machine
  <2>6. n = With6(h.stack, b, h.unit, h.connected, h.device, h.alive)
    BY <2>4, <2>5, Same6
  <2>7. /\ h.unit \in [DOMAIN h.unit -> SoftUnit] /\ h.device \in [Mapped -> BOOLEAN] /\ h.alive \in BOOLEAN
        /\ h.stack \in Seq(BOOLEAN)
    BY <2>4, Fields
  <2>8. n \in Machine
    BY <2>2, <2>4, <2>6, <2>7, Remade
  <2>9. n.stack = h.stack /\ n.stack4m = b /\ Unmoved(h, n)
    BY <2>6 DEF With6, Unmoved
  <2>10. n.stack = Append(Front(m.stack), v) /\ Unmoved(m, n)
    BY <2>4, <2>9 DEF Unmoved, Beside
  <2>11. sh.depth # 0 /\ sh.kept # 0
    BY <1>0, <1>2
  <2>12. ~Ready(sh) /\ After(sh, c) = Sh(sh.depth, Append(sh.live, sh.depth), sh.kept - 1)
    BY <2>11, AfterIs DEF Fits
  <2>13. sh.kept - 1 = Len(n.stack4m)
    BY <2>2, <2>9
  <2>14. Fits(n, After(sh, c)) /\ FlowOf(n, After(sh, c)) = Append(FlowOf(m, sh), v)
    BY <1>2, <2>2, <2>8, <2>10, <2>12, <2>13, FitsRecalled
  <2>. QED BY <1>2, <2>9, <2>10, <2>14 DEF v, b
<1>. QED BY <1>1, <1>2

LEMMA OutcomeINV ==
    ASSUME NEW m, NEW sh, Fits(m, sh), m.alive, NEW c, c.op = "INV", After(sh, c).right, NEW n \in Run_INV(m)
    PROVE  \/ Ended(m, n)
           \/ /\ FlowOf(m, sh) # <<>> /\ Beside(m, n) /\ Fits(n, After(sh, c))
              /\ FlowOf(n, After(sh, c)) = Append(Front(FlowOf(m, sh)), ~Last(FlowOf(m, sh)))
<1>0. m \in Machine /\ sh.depth = Len(m.stack) /\ m.stack \in Seq(BOOLEAN)
  BY DEF Fits, Placed
<1>1. CASE m.stack = <<>>
  BY <1>0, <1>1, GrownSelf DEF Run_INV
<1>2. CASE m.stack # <<>>
  <2> DEFINE v == ~Top(m)
  <2>1. n = Push(m, v)
    BY <1>2 DEF Run_INV
  <2>2. v \in BOOLEAN
    OBVIOUS
  <2> HIDE DEF v
  <2>3. n \in Machine /\ n.stack = Append(m.stack, v) /\ Beside(m, n)
    BY <1>0, <2>1, <2>2, PushBeside
  <2>4. sh.depth # 0
    BY <1>0, <1>2
  <2>5. Ready(sh) /\ After(sh, c) = Sh(sh.depth + 1, Append(Front(sh.live), sh.depth + 1), sh.kept)
    BY <2>4, AfterIs DEF Fits
  <2>6. /\ Fits(n, After(sh, c)) /\ FlowOf(n, After(sh, c)) = Append(Front(FlowOf(m, sh)), v)
        /\ FlowOf(m, sh) # <<>> /\ Last(FlowOf(m, sh)) = Top(m)
    BY <2>2, <2>3, <2>5, FitsReplaced DEF Beside
  <2>. QED BY <2>3, <2>6 DEF v
<1>. QED BY <1>1, <1>2

LEMMA OutcomeCMP ==
    ASSUME NEW m, NEW sh, Fits(m, sh), m.alive, NEW c \in Clause, c.op = "CMP",
           After(sh, c).right, NEW n \in Run_CMP(m, c)
    PROVE  \/ Ended(m, n)
           \/ \E k : /\ Met(m, c.unit, k) /\ \A j \in DOMAIN c.range : c.range[j] \in DOMAIN k.unit
                     /\ Coiled(k, n, c.unit, Compared(k, c), Told(k, c.unit, Compared(k, c)))
                     /\ Fits(n, After(sh, c)) /\ FlowOf(n, After(sh, c)) = FlowOf(m, sh)
<1>0. m \in Machine /\ c.unit \in Unit /\ c.range \in Seq(Unit)
  BY DEF Fits, Clause
<1>1. c.range # <<>> /\ Last(c.range) = c.unit /\ After(sh, c) = sh
  BY AfterIs DEF Fits
<1>2. Named(c) = {c.unit}
  BY <1>1 DEF Named
<1>3. Len(c.range) \in 1..Len(c.range) /\ c.range[Len(c.range)] = c.unit
      /\ Len(c.range) \in 0..Len(c.range) /\ DOMAIN c.range = 1..Len(c.range)
  BY <1>0, <1>1, FrontAndLast
<1>4. PICK k \in Looked(m, c.range)[Len(c.range)] :
        n \in IF ~k.alive THEN {k}
              ELSE IF Kind[c.unit] \notin {"Y", "M", "S"} THEN {Dead(k)}
              ELSE UNION {{IF h.alive THEN SetState(h, u, Compared(k, c)) ELSE h : h \in Or_Dies(k, u)}
                          : u \in Named(c)}
  BY DEF Run_CMP
<1>5. Ended(m, k) \/ (Grown(m, k) /\ k.alive /\ \A j \in 1..Len(c.range) : c.range[j] \in DOMAIN k.unit)
  BY <1>0, <1>3, RangeFound
<1>6. CASE Ended(m, k)
  BY <1>4, <1>6 DEF Ended
<1>7. CASE /\ Grown(m, k) /\ k.alive /\ \A j \in 1..Len(c.range) : c.range[j] \in DOMAIN k.unit
           /\ Kind[c.unit] \notin {"Y", "M", "S"}
  BY <1>0, <1>4, <1>7, GrownDead
<1>8. CASE /\ Grown(m, k) /\ k.alive /\ \A j \in 1..Len(c.range) : c.range[j] \in DOMAIN k.unit
           /\ Kind[c.unit] \in {"Y", "M", "S"}
  <2>1. Met(m, c.unit, k) /\ k \in Machine
    BY <1>3, <1>8 DEF Met, Grown
  <2>2. PICK h \in Or_Dies(k, c.unit) : n = IF h.alive THEN SetState(h, c.unit, Compared(k, c)) ELSE h
    BY <1>2, <1>4, <1>8
  <2>3. Ended(k, h) \/ h = k
    BY <1>0, <1>8, <2>1, FoundOrDies DEF Met
  <2>4. CASE Ended(k, h)
    <3>1. Grown(m, h) /\ ~h.alive
      BY <1>0, <1>8, <2>4, GrownTwice DEF Ended
    <3>. QED BY <2>2, <3>1 DEF Ended
  <2>5. CASE h = k
    <3> DEFINE v == Compared(k, c)
    <3>1. n = SetState(k, c.unit, v)
      BY <1>8, <2>2, <2>5
    <3>2. v \in BOOLEAN
      BY DEF Compared
    <3> HIDE DEF v
    <3>3. n \in Machine /\ n.stack = k.stack /\ Coiled(k, n, c.unit, v, Told(k, c.unit, v))
      BY <2>1, <3>1, <3>2, SetStateCoils DEF Met
    <3>4. Fits(k, sh) /\ FlowOf(k, sh) = FlowOf(m, sh)
      BY <2>1, GrownFits DEF Met
    <3>5. Fits(n, sh) /\ FlowOf(n, sh) = FlowOf(m, sh)
      BY <3>3, <3>4, FitsCoiled
    <3>. QED BY <1>1, <1>3, <1>8, <2>1, <3>3, <3>5 DEF v
  <2>. QED BY <2>3, <2>4, <2>5
<1>. QED BY <1>5, <1>6, <1>7, <1>8

\* A step leaves a machine the next shape describes, or ends the program as it found it.
LEMMA StepOutcome ==
    ASSUME NEW m, NEW sh, Fits(m, sh), m.alive, NEW c \in Clause, Accepts(c), Legible(c, m.connected),
           After(sh, c).right, NEW n \in Run(m, c)
    PROVE  \/ Ended(m, n)
           \/ /\ n.alive /\ Fits(n, After(sh, c)) /\ n.connected = m.connected
              /\ m.connected => DOMAIN n.unit \subseteq DOMAIN m.unit \cup Mapped
<1> DEFINE Onward ==
        /\ n.alive /\ Fits(n, After(sh, c)) /\ n.connected = m.connected
        /\ m.connected => DOMAIN n.unit \subseteq DOMAIN m.unit \cup Mapped
<1>0. m \in Machine
  BY DEF Fits
<1>1. ASSUME NEW k, Met(m, c.unit, k), Beside(k, n), Fits(n, After(sh, c)) PROVE Onward
  BY <1>1 DEF Met, Grown, Beside
<1>2. ASSUME NEW k, Met(m, c.unit, k), NEW v, NEW d, Coiled(k, n, c.unit, v, d), Fits(n, After(sh, c))
      PROVE  Onward
  <2>1. DOMAIN n.unit = DOMAIN k.unit
    BY <1>2 DEF Coiled, Valued
  <2>. QED BY <1>2, <2>1 DEF Met, Grown, Coiled
<1>3. ASSUME Beside(m, n) \/ Unmoved(m, n), Fits(n, After(sh, c)) PROVE Onward
  BY <1>3 DEF Beside, Unmoved
<1> HIDE DEF Onward
<1>4. CASE c.op \in {"LD", "AND", "OR"}
  <2>1. Readable(m, c)
    BY <1>4 DEF Accepts, Legible, Readable, Alone, Block
  <2>2. CASE c.op = "LD"
    BY <1>1, <2>1, <2>2, OutcomeLD DEF Run, Onward
  <2>3. CASE c.op = "AND"
    BY <1>1, <2>1, <2>3, OutcomeAND DEF Run, Onward
  <2>4. CASE c.op = "OR"
    BY <1>1, <2>1, <2>4, OutcomeOR DEF Run, Onward
  <2>. QED BY <1>4, <2>2, <2>3, <2>4
<1>5. CASE c.op = "OUT"
  <2>1. Readable(m, c)
    BY <1>5 DEF Accepts, Legible, Readable, Alone, Block
  <2>. QED BY <1>2, <1>5, <2>1, OutcomeOUT DEF Run, Onward
<1>6. CASE c.op = "SET"
  <2>1. Readable(m, c)
    BY <1>6 DEF Accepts, Legible, Readable, Alone, Block
  <2>. QED BY <1>2, <1>6, <2>1, OutcomeSET DEF Run, Onward
<1>7. CASE c.op = "RST" /\ Kind[c.unit] # "D"
  <2>1. Readable(m, c)
    BY <1>7 DEF Accepts, Legible, Readable, Alone, Block
  <2>. QED BY <1>2, <1>7, <2>1, OutcomeRST DEF Run, Onward
<1>8. CASE c.op = "RST" /\ Kind[c.unit] = "D"
  <2>1. Ended(m, n) \/ (n = m /\ After(sh, c) = sh)
    BY <1>8, OutcomeRegister DEF Run
  <2>. QED BY <1>3, <2>1 DEF Onward, Beside
<1>9. CASE c.op \in {"ANB", "ORB"}
  BY <1>3, <1>9, OutcomeANB, OutcomeORB DEF Run, Onward
<1>10. CASE c.op \in {"MPS", "MRD", "MPP"}
  BY <1>3, <1>10, OutcomeMPS, OutcomeMRD, OutcomeMPP DEF Run, Onward
<1>11. CASE c.op = "INV"
  BY <1>3, <1>11, OutcomeINV DEF Run, Onward
<1>12. CASE c.op = "NOP"
  <2>1. n = m
    BY <1>12 DEF Run, Run_NOP
  <2>2. After(sh, c) = sh
    BY <1>12, AfterIs DEF Fits
  <2>. QED BY <1>3, <2>1, <2>2 DEF Onward, Beside
<1>13. CASE c.op = "MOV"
  <2>1. n = Dead(m)
    BY <1>13 DEF Run, Run_MOV
  <2>. QED BY <1>0, <2>1, GrownSelf
<1>14. CASE c.op = "CMP"
  BY <1>2, <1>14, OutcomeCMP DEF Run, Onward
<1>15. c.op \in {"LD", "AND", "OR", "OUT", "SET", "RST", "ANB", "ORB", "MPS", "MRD", "MPP", "INV", "NOP",
                 "MOV", "CMP"}
  BY DEF Accepts, Alone, Block
<1>. QED BY <1>4, <1>5, <1>6, <1>7, <1>8, <1>9, <1>10, <1>11, <1>12, <1>13, <1>14, <1>15

-----------------------------------------------------------------------------
(* The invariant.                                                          *)

\* What is collected is a beginning of the file, accepted and legible.
LEMMA CollectedIs ==
    ASSUME NEW f \in Seq(Clause), NEW connected \in BOOLEAN
    PROVE  /\ Collected(f, connected) \in Seq({c \in Clause : Accepts(c)})
           /\ Len(Collected(f, connected)) <= Len(f)
           /\ \A k \in DOMAIN Collected(f, connected) :
                 Collected(f, connected)[k] = f[k] /\ Legible(f[k], connected)
<1> DEFINE wrong == {i \in 1..Len(f) : ~Accepts(f[i])}
           good == {c \in Clause : Accepts(c)}
<1>1. Len(f) \in Nat /\ DOMAIN f = 1..Len(f) /\ \A i \in 1..Len(f) : f[i] \in Clause
  OBVIOUS
<1>2. Collected(f, connected) =
        IF \E i \in DOMAIN f : ~Legible(f[i], connected) THEN <<>>
        ELSE LET mistake == IF wrong # {} THEN Min(wrong) ELSE 0
             IN  IF mistake = 0 THEN f ELSE SubSeq(f, 1, mistake - 1)
  BY DEF Collected, SelectInSeq
<1> HIDE DEF good
<1>3. CASE \E i \in DOMAIN f : ~Legible(f[i], connected)
  <2>1. Collected(f, connected) = <<>>
    BY <1>2, <1>3
  <2>. QED BY <1>1, <2>1 DEF good
<1>4. CASE wrong = {} /\ \A i \in DOMAIN f : Legible(f[i], connected)
  <2>1. Collected(f, connected) = f
    BY <1>2, <1>4
  <2>2. \A i \in 1..Len(f) : f[i] \in good
    BY <1>1, <1>4 DEF good
  <2>3. f \in Seq(good)
    BY <1>1, <2>2
  <2>. QED BY <1>1, <1>4, <2>1, <2>3 DEF good
<1>5. CASE wrong # {} /\ \A i \in DOMAIN f : Legible(f[i], connected)
  <2> DEFINE k == Min(wrong)
             s == SubSeq(f, 1, k - 1)
  <2>0. wrong \in SUBSET Nat
    BY <1>1
  <2>1. k \in wrong /\ \A i \in wrong : k <= i
    BY <1>5, <2>0, MinOfSet
  <2>2. k \in 1..Len(f)
    BY <2>1
  <2>3. \A i \in 1..k - 1 : i \notin wrong
    BY <1>1, <2>1, <2>2
  <2> HIDE DEF k
  <2>4. Collected(f, connected) = s
    <3>1. Min(wrong) # 0
      BY <1>1, <2>2 DEF k
    <3>2. ~ \E i \in DOMAIN f : ~Legible(f[i], connected)
      BY <1>5
    <3> HIDE DEF wrong
    <3>3. Collected(f, connected) = SubSeq(f, 1, Min(wrong) - 1)
      BY <1>2, <1>5, <3>1, <3>2, Zenon
    <3>. QED BY <3>3 DEF k
  <2>5. \A i \in 1..k - 1 : i \in 1..Len(f) /\ f[i] \in Clause /\ Accepts(f[i])
    BY <1>1, <2>2, <2>3
  <2>6. \A i \in 1..k - 1 : f[i] \in good
    BY <2>5 DEF good
  <2>7. 1 \in Int /\ k - 1 \in Int /\ k - 1 \in 0..Len(f)
    BY <1>1, <2>2
  <2>8. s \in Seq(good)
    BY <2>6, <2>7, SubSeqProperties
  <2>9. DOMAIN s = 1..k - 1 /\ \A i \in 1..k - 1 : s[i] = f[i]
    BY <1>1, <2>2
  <2>10. Len(s) = k - 1
    <3>1. Len(s) \in Nat /\ DOMAIN s = 1..Len(s)
      BY <2>8
    <3>. QED BY <3>1, <2>7, <2>9
  <2>. QED BY <1>1, <1>5, <2>2, <2>4, <2>8, <2>9, <2>10 DEF good
<1>. QED BY <1>3, <1>4, <1>5

\* Every file is run as a ladder.
RegularFiles == \A f \in File : Regular(f)

LEMMA EmptyFits ==
    ASSUME NEW m \in Machine, m.stack = <<>>, m.stack4m = <<>>
    PROVE  Fits(m, Empty)
BY DEF Fits, Empty, Shape, Placed

\* Of the conjuncts, those about the machine.
LEMMA InvFits ==
    ASSUME NEW m, NEW sh
    PROVE  Fits(m, sh) <=> /\ m \in Machine /\ sh \in Shape
                           /\ sh.depth = Len(m.stack) /\ sh.kept = Len(m.stack4m)
                           /\ sh.right /\ InPlace(sh)
<1>1. ASSUME m \in Machine, sh \in Shape
      PROVE  m.stack \in Seq(BOOLEAN) /\ sh.live \in Seq(Nat)
  BY <1>1, Fields DEF Shape
<1>. QED BY <1>1 DEF Fits, InPlace, Placed

LEMMA ClearedIs ==
    ASSUME NEW m \in Machine, NEW connected \in BOOLEAN
    PROVE  /\ Cleared(m, connected) \in Machine
           /\ Cleared(m, connected).stack = <<>> /\ Cleared(m, connected).stack4m = <<>>
           /\ Cleared(m, connected).unit = <<>> /\ Cleared(m, connected).connected = connected
           /\ Cleared(m, connected).device = m.device /\ Cleared(m, connected).alive = m.alive
<1>1. Cleared(m, connected) = With6(<<>>, <<>>, <<>>, connected, m.device, m.alive)
  <2> DEFINE e == <<>>
  <2>1. Cleared(m, connected) =
          [m EXCEPT !.stack = e, !.stack4m = e, !.unit = e, !.connected = connected]
    BY DEF Cleared
  <2> HIDE DEF e
  <2>2. Cleared(m, connected) = With6(e, e, e, connected, m.device, m.alive)
    BY <2>1 DEF With6, Machine
  <2>. QED BY <2>2 DEF e
<1>2. /\ <<>> \in Seq(BOOLEAN) /\ DOMAIN <<>> \subseteq Unit /\ <<>> \in [DOMAIN <<>> -> SoftUnit]
      /\ m.device \in [Mapped -> BOOLEAN] /\ m.alive \in BOOLEAN
  BY Fields
<1>3. With6(<<>>, <<>>, <<>>, connected, m.device, m.alive) \in Machine
  BY <1>2, Built
<1>. QED BY <1>1, <1>3 DEF With6

LEMMA WrittenIs ==
    ASSUME NEW m \in Machine, NEW u \in Mapped
    PROVE  /\ [m EXCEPT !.device[u] = ~@] \in Machine
           /\ [m EXCEPT !.device[u] = ~@] =
                With6(m.stack, m.stack4m, m.unit, m.connected, [m.device EXCEPT ![u] = ~m.device[u]], m.alive)
<1> DEFINE d == [m.device EXCEPT ![u] = ~m.device[u]]
<1>1. [m EXCEPT !.device[u] = ~@] = With6(m.stack, m.stack4m, m.unit, m.connected, d, m.alive)
  <2>1. [m EXCEPT !.device[u] = ~@] = [m EXCEPT !.device = d]
    BY DEF Machine
  <2>. QED BY <2>1, Same6
<1>2. /\ m.stack \in Seq(BOOLEAN) /\ m.stack4m \in Seq(BOOLEAN) /\ m.unit \in [DOMAIN m.unit -> SoftUnit]
      /\ m.device \in [Mapped -> BOOLEAN] /\ m.alive \in BOOLEAN
  BY Fields
<1>3. d \in [Mapped -> BOOLEAN]
  BY <1>2
<1> HIDE DEF d
<1>4. With6(m.stack, m.stack4m, m.unit, m.connected, d, m.alive) \in Machine
  BY <1>2, <1>3, Remade
<1>. QED BY <1>1, <1>4 DEF d

LEMMA InitInvariant == Init => IInv
<1>. SUFFICES ASSUME Init PROVE IInv
  OBVIOUS
<1>1. vm \in Machine /\ vm.stack = <<>> /\ vm.stack4m = <<>> /\ vm.unit = <<>> /\ ~vm.connected
  <2>1. /\ vm = With6(<<>>, <<>>, <<>>, FALSE, vm.device, TRUE) /\ vm.device \in [Mapped -> BOOLEAN]
    BY DEF Init, With6
  <2>2. /\ <<>> \in Seq(BOOLEAN) /\ DOMAIN <<>> \subseteq Unit /\ <<>> \in [DOMAIN <<>> -> SoftUnit]
        /\ FALSE \in BOOLEAN /\ TRUE \in BOOLEAN
    OBVIOUS
  <2>3. With6(<<>>, <<>>, <<>>, FALSE, vm.device, TRUE) \in Machine
    BY <2>1, <2>2, Built
  <2>. QED BY <2>1, <2>3 DEF Init
<1>2. Fits(vm, shape)
  BY <1>1, EmptyFits DEF Init
<1>3. TypeOK /\ InPlace(shape)
  BY <1>2, InvFits, FileAssumption DEF Init, TypeOK
<1>4. Entered
  <2>1. Len(<<>>) = 0 /\ 0 \in 0..Len(<<>>)
    OBVIOUS
  <2>2. Shapes(<<>>, 0)[0] = Empty
    BY <2>1, ShapesAre
  <2>. QED BY <2>1, <2>2 DEF Entered, Init
<1>. QED BY <1>1, <1>3, <1>4 DEF IInv, Init

LEMMA LoadInvariant ==
    ASSUME IInv, NEW f \in File, NEW connected \in BOOLEAN, Load(f, connected)
    PROVE  IInv'
<1>1. vm \in Machine /\ f \in Seq(Clause) /\ step_no \in Nat /\ loads \in 0..MaxLoads /\ MaxLoads \in Nat
  BY FileAssumption DEF IInv, TypeOK
<1>2. /\ vm' \in Machine /\ vm'.stack = <<>> /\ vm'.stack4m = <<>> /\ vm'.unit = <<>>
      /\ vm'.connected = connected /\ shape' = Empty
  BY <1>1, ClearedIs DEF Load
<1>3. Fits(vm, shape)'
  BY <1>2, EmptyFits
<1>4. /\ clauses' \in Seq({c \in Clause : Accepts(c)}) /\ Len(clauses') <= Len(f)
      /\ \A k \in DOMAIN clauses' : clauses'[k] = f[k] /\ Legible(f[k], connected)
  BY <1>1, CollectedIs DEF Load
<1>5. step_no' = step_no /\ loads' \in 0..MaxLoads
  BY <1>1 DEF Load
<1>6. (TypeOK /\ InPlace(shape))'
  <2>1. /\ vm' \in Machine /\ shape' \in Shape
        /\ shape'.depth = Len(vm'.stack) /\ shape'.kept = Len(vm'.stack4m)
        /\ shape'.right /\ InPlace(shape')
    BY <1>3, InvFits
  <2>2. InPlace(shape)'
    BY <2>1 DEF InPlace
  <2>. QED BY <1>1, <1>4, <1>5, <2>1, <2>2 DEF TypeOK
<1>7. Entered'
  <2>. SUFFICES ASSUME step_no <= Len(clauses')
                PROVE  \E g \in File \cup {<<>>} : \E s \in 0..step_no :
                          /\ Len(clauses') <= Len(g) /\ \A k \in DOMAIN clauses' : clauses'[k] = g[k]
                          /\ shape' = Shapes(g, s)[step_no - s]
    BY <1>5 DEF Entered
  <2>1. Len(f) \in Nat /\ Len(clauses') \in Nat
    BY <1>1, <1>4
  <2>2. step_no \in 0..Len(f)
    BY <1>1, <1>4, <2>1
  <2>3. Shapes(f, step_no)[0] = Empty
    BY <2>1, <2>2, ShapesAre
  <2>4. step_no - step_no = 0 /\ step_no \in 0..step_no
    BY <1>1
  <2>. QED BY <1>2, <1>4, <2>3, <2>4
<1>. QED BY <1>2, <1>4, <1>6, <1>7 DEF IInv

LEMMA BusInvariant ==
    ASSUME IInv, NEW u \in Mapped, BusWrite(u)
    PROVE  IInv'
<1>1. vm \in Machine
  BY DEF IInv, TypeOK
<1>2. /\ vm' \in Machine /\ vm'.stack = vm.stack /\ vm'.stack4m = vm.stack4m /\ vm'.unit = vm.unit
      /\ vm'.connected = vm.connected /\ vm'.alive = vm.alive
  <2>1. /\ vm' \in Machine
        /\ vm' = With6(vm.stack, vm.stack4m, vm.unit, vm.connected,
                       [vm.device EXCEPT ![u] = ~vm.device[u]], vm.alive)
    BY <1>1, WrittenIs DEF BusWrite
  <2>. QED BY <2>1 DEF With6
<1>. QED BY <1>2 DEF BusWrite, IInv, TypeOK, InPlace, Entered

\* The next clause and what the stack will hold.
LEMMA NextClause ==
    ASSUME IInv, RegularFiles, step_no < Len(clauses)
    PROVE  /\ clauses[step_no + 1] \in Clause /\ Accepts(clauses[step_no + 1])
           /\ Legible(clauses[step_no + 1], vm.connected)
           /\ After(shape, clauses[step_no + 1]).right
           /\ \E f \in File \cup {<<>>} : \E s \in 0..step_no :
                /\ Len(clauses) <= Len(f) /\ \A k \in DOMAIN clauses : clauses[k] = f[k]
                /\ After(shape, clauses[step_no + 1]) = Shapes(f, s)[step_no + 1 - s]
<1> DEFINE c == clauses[step_no + 1]
<1>1. clauses \in Seq({x \in Clause : Accepts(x)}) /\ step_no \in Nat /\ Len(clauses) \in Nat
      /\ DOMAIN clauses = 1..Len(clauses)
  BY DEF IInv, TypeOK
<1>2. step_no + 1 \in 1..Len(clauses)
  BY <1>1
<1>3. c \in Clause /\ Accepts(c) /\ Legible(c, vm.connected)
  BY <1>1, <1>2 DEF IInv
<1>4. PICK f \in File \cup {<<>>} : \E s \in 0..step_no :
        /\ Len(clauses) <= Len(f) /\ \A k \in DOMAIN clauses : clauses[k] = f[k]
        /\ shape = Shapes(f, s)[step_no - s]
  BY <1>1 DEF IInv, Entered
<1>5. PICK s \in 0..step_no :
        /\ Len(clauses) <= Len(f) /\ \A k \in DOMAIN clauses : clauses[k] = f[k]
        /\ shape = Shapes(f, s)[step_no - s]
  BY <1>4
<1>6. Len(f) \in Nat /\ f \in File
  <2>1. f # <<>>
    BY <1>1, <1>5
  <2>. QED BY <2>1, FileAssumption
<1>7. s \in 0..Len(f) /\ s \in Nat /\ s <= step_no /\ step_no + 1 <= Len(f)
  BY <1>1, <1>5, <1>6
<1> DEFINE i == step_no + 1 - s
<1>8. i \in 1..Len(f) - s /\ i - 1 = step_no - s /\ s + i = step_no + 1
  BY <1>1, <1>6, <1>7
<1>9. Shapes(f, s)[i] = After(Shapes(f, s)[i - 1], f[s + i])
  BY <1>6, <1>7, <1>8, ShapesAre
<1>10. Shapes(f, s)[i] = After(shape, c)
  BY <1>1, <1>2, <1>5, <1>8, <1>9
<1>11. Shapes(f, s)[i].right
  <2>1. i \in 0..Len(f) - s
    BY <1>8
  <2> HIDE DEF i
  <2>. QED BY <1>6, <1>7, <2>1 DEF RegularFiles, Regular
<1>. QED BY <1>3, <1>5, <1>10, <1>11

LEMMA StepInvariant ==
    ASSUME IInv, RegularFiles, RunStep
    PROVE  IInv'
<1> DEFINE c == clauses[step_no + 1]
<1>1. /\ Fits(vm, shape) /\ vm.alive /\ step_no \in Nat /\ Len(clauses) \in Nat /\ step_no # Len(clauses)
      /\ vm \in Machine
  BY InvFits DEF IInv, TypeOK, RunStep
<1>2. ASSUME Ended(vm, vm'), UNCHANGED <<step_no, shape>>
      PROVE  IInv'
  <2>1. /\ vm' \in Machine /\ vm'.stack = vm.stack /\ vm'.stack4m = vm.stack4m
        /\ vm'.connected = vm.connected /\ ~vm'.alive
    BY <1>2 DEF Ended, Grown
  <2>. QED BY <1>2, <2>1 DEF RunStep, IInv, TypeOK, InPlace, Entered
<1>3. CASE step_no > Len(clauses)
  <2>1. vm' = Dead(vm)
    BY <1>3 DEF RunStep
  <2>2. Ended(vm, vm') /\ ~vm'.alive
    BY <1>1, <2>1, GrownSelf DEF Ended
  <2>. QED BY <1>2, <2>2 DEF RunStep
<1>4. CASE step_no < Len(clauses)
  <2>1. vm' \in Run(vm, c)
    BY <1>1, <1>4 DEF RunStep
  <2>2. c \in Clause /\ Accepts(c) /\ Legible(c, vm.connected) /\ After(shape, c).right
    BY <1>4, NextClause
  <2>3. \/ Ended(vm, vm')
        \/ /\ vm'.alive /\ Fits(vm', After(shape, c)) /\ vm'.connected = vm.connected
           /\ vm.connected => DOMAIN vm'.unit \subseteq DOMAIN vm.unit \cup Mapped
    BY <1>1, <2>1, <2>2, StepOutcome
  <2>4. CASE Ended(vm, vm')
    BY <1>2, <2>4 DEF RunStep, Ended
  <2>5. CASE /\ vm'.alive /\ Fits(vm', After(shape, c)) /\ vm'.connected = vm.connected
             /\ vm.connected => DOMAIN vm'.unit \subseteq DOMAIN vm.unit \cup Mapped
    <3>1. shape' = After(shape, c) /\ step_no' = (step_no + 1) % (Len(clauses) + 1) /\ clauses' = clauses
          /\ loads' = loads
      BY <2>5 DEF RunStep
    <3>2. step_no' = step_no + 1
      BY <1>1, <1>4, <3>1
    <3>3. Fits(vm, shape)'
      BY <2>5, <3>1
    <3>4. (TypeOK /\ InPlace(shape))'
      <4>1. /\ vm' \in Machine /\ shape' \in Shape
            /\ shape'.depth = Len(vm'.stack) /\ shape'.kept = Len(vm'.stack4m)
            /\ shape'.right /\ InPlace(shape')
        BY <3>3, InvFits
      <4>2. InPlace(shape)'
        BY <4>1 DEF InPlace
      <4>. QED BY <1>1, <3>1, <3>2, <4>1, <4>2 DEF IInv, TypeOK
    <3>5. Entered'
      <4>1. PICK f \in File \cup {<<>>} : \E s \in 0..step_no :
              /\ Len(clauses) <= Len(f) /\ \A k \in DOMAIN clauses : clauses[k] = f[k]
              /\ After(shape, c) = Shapes(f, s)[step_no + 1 - s]
        BY <1>4, NextClause
      <4>2. PICK s \in 0..step_no :
              /\ Len(clauses) <= Len(f) /\ \A k \in DOMAIN clauses : clauses[k] = f[k]
              /\ After(shape, c) = Shapes(f, s)[step_no + 1 - s]
        BY <4>1
      <4>3. s \in 0..step_no'
        BY <1>1, <3>2, <4>2
      <4>4. /\ Len(clauses') <= Len(f) /\ \A k \in DOMAIN clauses' : clauses'[k] = f[k]
            /\ shape' = Shapes(f, s)[step_no' - s]
        <5>1. shape' = After(shape, c)
          BY <3>1
        <5>2. shape' = Shapes(f, s)[step_no + 1 - s]
          BY <4>2, <5>1, Zenon
        <5>3. Len(clauses') <= Len(f) /\ \A k \in DOMAIN clauses' : clauses'[k] = f[k]
          BY <3>1, <4>2
        <5>4. shape' = Shapes(f, s)[step_no' - s]
          <6> DEFINE i == step_no + 1 - s
                     g == Shapes(f, s)
          <6>1. step_no' - s = i
            BY <1>1, <3>2
          <6>2. shape' = g[i]
            BY <5>2
          <6> HIDE DEF i, g
          <6>3. shape' = g[step_no' - s]
            BY <6>1, <6>2
          <6>. QED BY <6>3 DEF g
        <5>. QED BY <5>3, <5>4
      <4>. QED BY <4>3, <4>4 DEF Entered
    <3>6. vm.alive /\ vm.connected => DOMAIN vm.unit \subseteq Mapped
      BY DEF IInv
    <3>. QED BY <1>1, <2>5, <3>1, <3>4, <3>5, <3>6 DEF IInv
  <2>. QED BY <2>3, <2>4, <2>5
<1>. QED BY <1>1, <1>3, <1>4

\* For every device and any Regular files, whatever the bus writes and whenever a program is
\* replaced: the stacks are as deep as the history says, the blocks of the rung are at its
\* places one above the other, and no instruction of a program that goes on finds a stack too
\* short (Executor::Run and the instructions it calls).
THEOREM Invariance ==
    ASSUME RegularFiles
    PROVE  Spec => []IInv
<1>1. Init => IInv
  BY InitInvariant
<1>2. IInv /\ [Next]_vars => IInv'
  <2>. SUFFICES ASSUME IInv, [Next]_vars PROVE IInv'
    OBVIOUS
  <2>1. ASSUME NEW f \in File, NEW connected \in BOOLEAN, Load(f, connected) PROVE IInv'
    BY <2>1, LoadInvariant
  <2>2. CASE RunStep
    BY <2>2, StepInvariant
  <2>3. ASSUME NEW u \in Mapped, BusWrite(u) PROVE IInv'
    BY <2>3, BusInvariant
  <2>4. CASE UNCHANGED vars
    BY <2>4 DEF vars, IInv, TypeOK, InPlace, Entered
  <2>. QED BY <2>1, <2>2, <2>3, <2>4 DEF Next
<1>. QED BY <1>1, <1>2, PTL DEF Spec

-----------------------------------------------------------------------------
(* The ladder.                                                             *)

\* No two units share a byte of the device.
UnitsApart == \A u \in Unit : Behind[u] = {}

\* What the ladder sees of a machine.
ValueOf(m, u) ==
    IF u \in DOMAIN m.unit THEN m.unit[u].now
    ELSE m.connected /\ u \in Mapped /\ Kind[u] \notin {"C", "T"} /\ m.device[u]
BeforeOf(m, u) == u \in DOMAIN m.unit /\ m.unit[u].saved

Values(m) == [u \in Unit |-> ValueOf(m, u)]
Befores(m) == [u \in Unit |-> BeforeOf(m, u)]
Devices(m) == [u \in Unit |-> u \in Mapped /\ m.device[u]]

LEMMA ValuesAre ==
    ASSUME NEW m \in Machine, NEW u \in Unit
    PROVE  /\ ValueOf(m, u) \in BOOLEAN /\ BeforeOf(m, u) \in BOOLEAN
           /\ Values(m)[u] = ValueOf(m, u) /\ Befores(m)[u] = BeforeOf(m, u)
           /\ Devices(m)[u] = (u \in Mapped /\ m.device[u])
           /\ u \in Mapped => m.device[u] \in BOOLEAN
<1>1. ValueOf(m, u) \in BOOLEAN
  BY Fields DEF ValueOf
<1>2. BeforeOf(m, u) \in BOOLEAN
  BY Fields DEF BeforeOf
<1>3. u \in Mapped => m.device[u] \in BOOLEAN
  BY Fields
<1>. QED BY <1>1, <1>2, <1>3 DEF Values, Befores, Devices

\* A unit that is met shows what it showed before.
LEMMA GrownValues ==
    ASSUME UnitsApart, NEW m \in Machine, NEW k, Grown(m, k)
    PROVE  Values(k) = Values(m) /\ Befores(k) = Befores(m) /\ Devices(k) = Devices(m)
<1>1. k \in Machine /\ k.connected = m.connected /\ k.device = m.device
  BY DEF Grown
<1>2. ASSUME NEW u \in Unit
      PROVE  ValueOf(k, u) = ValueOf(m, u) /\ BeforeOf(k, u) = BeforeOf(m, u)
  <2>1. CASE u \in DOMAIN m.unit
    BY <2>1 DEF Grown, ValueOf, BeforeOf
  <2>2. CASE u \notin DOMAIN k.unit
    <3>1. u \notin DOMAIN m.unit
      BY <2>2 DEF Grown
    <3>. QED BY <1>1, <2>2, <3>1 DEF ValueOf, BeforeOf
  <2>3. CASE u \in DOMAIN k.unit /\ u \notin DOMAIN m.unit
    <3>1. k.unit[u] = NewUnit(m, u)
      BY <2>3 DEF Grown
    <3>2. u \in Mapped => (ReadSoftUnit(m, u) <=> m.device[u]) /\ m.device[u] \in BOOLEAN
      BY ValuesAre DEF ReadSoftUnit, UnitsApart
    <3>3. NewUnit(m, u).saved = FALSE
          /\ NewUnit(m, u).now = (m.connected /\ u \in Mapped /\ Kind[u] \notin {"C", "T"} /\ ReadSoftUnit(m, u))
      BY DEF NewUnit
    <3>4. m.connected \in BOOLEAN
      BY Fields
    <3>5. NewUnit(m, u).now = (m.connected /\ u \in Mapped /\ Kind[u] \notin {"C", "T"} /\ m.device[u])
      BY <3>2, <3>3, <3>4
    <3>6. BeforeOf(k, u) = FALSE /\ BeforeOf(m, u) = FALSE
      BY <2>3, <3>1, <3>3 DEF BeforeOf
    <3>. QED BY <2>3, <3>1, <3>5, <3>6 DEF ValueOf
  <2>. QED BY <2>1, <2>2, <2>3
<1>. QED BY <1>1, <1>2 DEF Values, Befores, Devices

\* A contact lets through what its unit shows.
LEMMA MetShows ==
    ASSUME UnitsApart, NEW m \in Machine, NEW u \in Unit, NEW k, Met(m, u, k)
    PROVE  /\ k \in Machine /\ u \in DOMAIN k.unit
           /\ k.unit[u].now = Values(m)[u] /\ k.unit[u].saved = Befores(m)[u]
           /\ Values(k) = Values(m) /\ Befores(k) = Befores(m) /\ Devices(k) = Devices(m)
           /\ k.connected = m.connected /\ k.stack4m = m.stack4m
<1>1. k \in Machine /\ u \in DOMAIN k.unit /\ k.connected = m.connected /\ k.stack4m = m.stack4m
  BY DEF Met, Grown
<1>2. Values(k) = Values(m) /\ Befores(k) = Befores(m) /\ Devices(k) = Devices(m)
  BY GrownValues DEF Met
<1>3. k.unit[u].now \in BOOLEAN /\ k.unit[u].saved \in BOOLEAN
  BY <1>1, Fields
<1>4. ValueOf(k, u) = k.unit[u].now /\ BeforeOf(k, u) = k.unit[u].saved
  BY <1>1, <1>3 DEF ValueOf, BeforeOf
<1>5. Values(k)[u] = k.unit[u].now /\ Befores(k)[u] = k.unit[u].saved
  BY <1>1, <1>4, ValuesAre
<1>. QED BY <1>1, <1>2, <1>5

\* Where the units and the device stay, so does what the ladder sees of them.
LEMMA SameSight ==
    ASSUME NEW k, NEW n, n.unit = k.unit, n.connected = k.connected, n.device = k.device
    PROVE  Values(n) = Values(k) /\ Befores(n) = Befores(k) /\ Devices(n) = Devices(k)
BY DEF Values, ValueOf, Befores, BeforeOf, Devices

\* A coil changes its unit and what it was before.
LEMMA CoilSight ==
    ASSUME NEW k \in Machine, NEW u \in DOMAIN k.unit, NEW v \in BOOLEAN, NEW d, NEW n \in Machine,
           Coiled(k, n, u, v, d), \A w \in Mapped : w # u => d[w] = k.device[w]
    PROVE  /\ Values(n) = [Values(k) EXCEPT ![u] = v]
           /\ Befores(n) = [Befores(k) EXCEPT ![u] = Values(k)[u]]
<1>1. /\ n.unit = Valued(k, u, v) /\ n.connected = k.connected /\ n.device = d /\ u \in Unit
      /\ DOMAIN n.unit = DOMAIN k.unit
  BY Fields DEF Coiled, Valued
<1>2. n.unit[u].now = v /\ n.unit[u].saved = k.unit[u].now
  BY <1>1 DEF Valued
<1>3. \A w \in DOMAIN k.unit : w # u => n.unit[w] = k.unit[w]
  BY <1>1 DEF Valued
<1>4. ValueOf(n, u) = v /\ BeforeOf(n, u) = k.unit[u].now /\ ValueOf(k, u) = k.unit[u].now
  <2>1. k.unit[u].now \in BOOLEAN
    BY Fields
  <2>. QED BY <1>1, <1>2, <2>1 DEF ValueOf, BeforeOf
<1>5. ASSUME NEW w \in Unit, w # u
      PROVE  ValueOf(n, w) = ValueOf(k, w) /\ BeforeOf(n, w) = BeforeOf(k, w)
  <2>1. CASE w \in DOMAIN k.unit
    BY <1>1, <1>3, <1>5, <2>1 DEF ValueOf, BeforeOf
  <2>2. CASE w \notin DOMAIN k.unit /\ w \in Mapped
    <3>1. n.device[w] = k.device[w]
      BY <1>1, <1>5, <2>2
    <3>. QED BY <1>1, <2>2, <3>1 DEF ValueOf, BeforeOf
  <2>3. CASE w \notin DOMAIN k.unit /\ w \notin Mapped
    BY <1>1, <2>3 DEF ValueOf, BeforeOf
  <2>. QED BY <2>1, <2>2, <2>3
<1>6. Values(n) = [Values(k) EXCEPT ![u] = v]
  BY <1>1, <1>4, <1>5 DEF Values
<1>7. Values(k)[u] = ValueOf(k, u)
  BY <1>1, ValuesAre
<1>8. Befores(n) = [Befores(k) EXCEPT ![u] = Values(k)[u]]
  BY <1>1, <1>4, <1>5, <1>7 DEF Befores
<1>. QED BY <1>6, <1>8

\* A connected device shows what it is told.
LEMMA ToldSight ==
    ASSUME NEW k \in Machine, NEW u \in Unit, k.connected => u \in Mapped, NEW v \in BOOLEAN,
           NEW n, n.device = Told(k, u, v)
    PROVE  /\ Devices(n) = IF k.connected THEN [Devices(k) EXCEPT ![u] = v] ELSE Devices(k)
           /\ \A w \in Mapped : w # u => Told(k, u, v)[w] = k.device[w]
<1>1. k.device \in [Mapped -> BOOLEAN] /\ k.connected \in BOOLEAN
  BY Fields
<1>2. CASE k.connected
  <2>1. n.device = [k.device EXCEPT ![u] = v] /\ Told(k, u, v) = n.device /\ u \in Mapped
    BY <1>2 DEF Told
  <2>2. \A w \in Mapped : n.device[w] = IF w = u THEN v ELSE k.device[w]
    BY <1>1, <2>1
  <2>3. \A w \in Unit : (w \in Mapped /\ n.device[w]) = IF w = u THEN v ELSE w \in Mapped /\ k.device[w]
    BY <2>1, <2>2
  <2>. QED BY <1>2, <2>1, <2>2, <2>3 DEF Devices
<1>3. CASE ~k.connected
  <2>1. n.device = k.device /\ Told(k, u, v) = k.device
    BY <1>3 DEF Told
  <2>. QED BY <1>3, <2>1 DEF Devices
<1>. QED BY <1>1, <1>2, <1>3

\* The variables of the ladder.
LEMMA Mapping ==
    /\ [i \in DOMAIN shape.live |-> vm.stack[shape.live[i]]] = FlowOf(vm, shape)
    /\ [u \in Unit |-> Value(u)] = Values(vm)
    /\ [u \in Unit |-> u \in DOMAIN vm.unit /\ vm.unit[u].saved] = Befores(vm)
    /\ [u \in Unit |-> u \in Mapped /\ vm.device[u]] = Devices(vm)
BY DEF FlowOf, Seen, Values, Value, ValueOf, Befores, BeforeOf, Devices

LEMMA MappingNext ==
    /\ [i \in DOMAIN shape.live |-> vm.stack[shape.live[i]]]' = FlowOf(vm', shape')
    /\ [u \in Unit |-> Value(u)]' = Values(vm')
    /\ [u \in Unit |-> u \in DOMAIN vm.unit /\ vm.unit[u].saved]' = Befores(vm')
    /\ [u \in Unit |-> u \in Mapped /\ vm.device[u]]' = Devices(vm')
BY DEF FlowOf, Seen, Values, Value, ValueOf, Befores, BeforeOf, Devices

\* Its sequences are those of the machine.
LEMMA SameEnds ==
    \A s : Meaning!Last(s) = Last(s) /\ Meaning!Front(s) = Front(s)
BY DEF Meaning!Last, Last, Meaning!Front, Front

\* What the ladder sees of the units and of the device stays.
Still == Values(vm') = Values(vm) /\ Befores(vm') = Befores(vm) /\ Devices(vm') = Devices(vm)

LEMMA StillMeans ==
    Still => UNCHANGED <<[u \in Unit |-> Value(u)], [u \in Unit |-> u \in DOMAIN vm.unit /\ vm.unit[u].saved],
                         [u \in Unit |-> u \in Mapped /\ vm.device[u]]>>
BY Mapping, MappingNext DEF Still

LEMMA ClosedIs ==
    ASSUME NEW edge, NEW u, NEW s, s.now = Values(vm)[u], s.saved = Befores(vm)[u]
    PROVE  Meaning!Closed(edge, u) = Contact(edge, s)
BY Mapping DEF Meaning!Closed, Contact

\* The clause that is carried out, and the machine it leaves if the program goes on.
Done(c) ==
    /\ Fits(vm, shape) /\ vm.alive /\ c \in Clause /\ Accepts(c) /\ Legible(c, vm.connected)
    /\ After(shape, c).right /\ vm' \in Run(vm, c) /\ ~Ended(vm, vm') /\ shape' = After(shape, c)
    /\ vm.connected => DOMAIN vm.unit \subseteq Mapped

\* A machine that has met the unit of a clause shows the same.
LEMMA MetStill ==
    ASSUME UnitsApart, vm \in Machine, NEW u \in Unit, NEW k, Met(vm, u, k), Beside(k, vm')
    PROVE  Still /\ vm'.stack4m = vm.stack4m
<1>1. Values(k) = Values(vm) /\ Befores(k) = Befores(vm) /\ Devices(k) = Devices(vm) /\ k.stack4m = vm.stack4m
  BY MetShows
<1>2. Values(vm') = Values(k) /\ Befores(vm') = Befores(k) /\ Devices(vm') = Devices(k)
      /\ vm'.stack4m = k.stack4m
  BY SameSight DEF Beside
<1>. QED BY <1>1, <1>2 DEF Still

LEMMA OpenMeans ==
    ASSUME UnitsApart, NEW c, Done(c), c.op = "LD"
    PROVE  Meaning!Open(c)
<1>1. Readable(vm, c) /\ vm \in Machine /\ c.unit \in Unit
  BY DEF Accepts, Legible, Readable, Alone, Block, Done, Fits, Clause
<1>2. vm' \in Run_LD(vm, c)
  BY DEF Done, Run
<1>3. PICK k : /\ Met(vm, c.unit, k) /\ Beside(k, vm')
               /\ FlowOf(vm', shape') = Append(FlowOf(vm, shape), Contact(c.edge, k.unit[c.unit]))
  BY <1>1, <1>2, OutcomeLD DEF Done
<1>4. k.unit[c.unit].now = Values(vm)[c.unit] /\ k.unit[c.unit].saved = Befores(vm)[c.unit]
  BY <1>1, <1>3, MetShows
<1>5. Meaning!Closed(c.edge, c.unit) = Contact(c.edge, k.unit[c.unit])
  BY <1>4, ClosedIs
<1>6. Still /\ vm'.stack4m = vm.stack4m
  BY <1>1, <1>3, MetStill
<1>. QED BY <1>3, <1>5, <1>6, StillMeans, Mapping, MappingNext DEF Meaning!Open

LEMMA JoinMeans ==
    ASSUME UnitsApart, NEW c, Done(c), c.op \in {"AND", "OR"}
    PROVE  Meaning!Join(c)
<1>1. Readable(vm, c) /\ vm \in Machine /\ c.unit \in Unit
  BY DEF Accepts, Legible, Readable, Alone, Block, Done, Fits, Clause
<1>2. FlowOf(vm, shape) # <<>> /\
      \E k : /\ Met(vm, c.unit, k) /\ Beside(k, vm')
             /\ FlowOf(vm', shape') =
                  Append(Front(FlowOf(vm, shape)),
                         Meaning!Joins(c.op, Contact(c.edge, k.unit[c.unit]), Last(FlowOf(vm, shape))))
  <2>1. CASE c.op = "AND"
    <3>1. vm' \in Run_AND(vm, c)
      BY <2>1 DEF Done, Run
    <3>2. \A p, q : Meaning!Joins(c.op, p, q) = (p /\ q)
      BY <2>1 DEF Meaning!Joins
    <3>. QED BY <1>1, <2>1, <3>1, <3>2, OutcomeAND DEF Done
  <2>2. CASE c.op = "OR"
    <3>1. vm' \in Run_OR(vm, c)
      BY <2>2 DEF Done, Run
    <3>2. \A p, q : Meaning!Joins(c.op, p, q) = (p \/ q)
      BY <2>2 DEF Meaning!Joins
    <3>. QED BY <1>1, <2>2, <3>1, <3>2, OutcomeOR DEF Done
  <2>. QED BY <2>1, <2>2
<1>3. PICK k : /\ Met(vm, c.unit, k) /\ Beside(k, vm')
               /\ FlowOf(vm', shape') =
                    Append(Front(FlowOf(vm, shape)),
                           Meaning!Joins(c.op, Contact(c.edge, k.unit[c.unit]), Last(FlowOf(vm, shape))))
  BY <1>2
<1>4. k.unit[c.unit].now = Values(vm)[c.unit] /\ k.unit[c.unit].saved = Befores(vm)[c.unit]
  BY <1>1, <1>3, MetShows
<1>5. Meaning!Closed(c.edge, c.unit) = Contact(c.edge, k.unit[c.unit])
  BY <1>4, ClosedIs
<1>6. Still /\ vm'.stack4m = vm.stack4m
  BY <1>1, <1>3, MetStill
<1>. QED BY <1>2, <1>3, <1>5, <1>6, StillMeans, SameEnds, Mapping, MappingNext DEF Meaning!Join

LEMMA BesideStill ==
    ASSUME Beside(vm, vm') \/ Unmoved(vm, vm')
    PROVE  Still
BY SameSight DEF Beside, Unmoved, Still

LEMMA JoinBlocksMeans ==
    ASSUME NEW c, Done(c), c.op \in {"ANB", "ORB"}
    PROVE  Meaning!JoinBlocks(c)
<1>1. /\ Len(FlowOf(vm, shape)) >= 2 /\ Beside(vm, vm')
      /\ FlowOf(vm', shape') =
           Append(Front(Front(FlowOf(vm, shape))),
                  Meaning!Joins(c.op, Last(FlowOf(vm, shape)), Last(Front(FlowOf(vm, shape)))))
  <2>1. CASE c.op = "ANB"
    <3>1. vm' \in Run_ANB(vm)
      BY <2>1 DEF Done, Run
    <3>2. \A p, q : Meaning!Joins(c.op, p, q) = (p /\ q)
      BY <2>1 DEF Meaning!Joins
    <3>. QED BY <2>1, <3>1, <3>2, OutcomeANB DEF Done
  <2>2. CASE c.op = "ORB"
    <3>1. vm' \in Run_ORB(vm)
      BY <2>2 DEF Done, Run
    <3>2. \A p, q : Meaning!Joins(c.op, p, q) = (p \/ q)
      BY <2>2 DEF Meaning!Joins
    <3>. QED BY <2>2, <3>1, <3>2, OutcomeORB DEF Done
  <2>. QED BY <2>1, <2>2
<1>2. Still /\ vm'.stack4m = vm.stack4m
  BY <1>1, BesideStill DEF Beside
<1>. QED BY <1>1, <1>2, StillMeans, SameEnds, Mapping, MappingNext DEF Meaning!JoinBlocks

LEMMA InvertMeans ==
    ASSUME NEW c, Done(c), c.op = "INV"
    PROVE  Meaning!Invert(c)
<1>1. vm' \in Run_INV(vm)
  BY DEF Done, Run
<1>2. /\ FlowOf(vm, shape) # <<>> /\ Beside(vm, vm')
      /\ FlowOf(vm', shape') = Append(Front(FlowOf(vm, shape)), ~Last(FlowOf(vm, shape)))
  BY <1>1, OutcomeINV DEF Done
<1>3. Still /\ vm'.stack4m = vm.stack4m
  BY <1>2, BesideStill DEF Beside
<1>. QED BY <1>2, <1>3, StillMeans, SameEnds, Mapping, MappingNext DEF Meaning!Invert

LEMMA KeepMeans ==
    ASSUME NEW c, Done(c), c.op = "MPS"
    PROVE  Meaning!Keep(c)
<1>1. vm' \in Run_MPS(vm)
  BY DEF Done, Run
<1>2. /\ FlowOf(vm, shape) # <<>> /\ Unmoved(vm, vm') /\ FlowOf(vm', shape') = FlowOf(vm, shape)
      /\ vm'.stack4m = Append(vm.stack4m, Last(FlowOf(vm, shape)))
  BY <1>1, OutcomeMPS DEF Done
<1>3. Still
  BY <1>2, BesideStill
<1>. QED BY <1>2, <1>3, StillMeans, SameEnds, Mapping, MappingNext DEF Meaning!Keep

LEMMA RecallMeans ==
    ASSUME NEW c, Done(c), c.op \in {"MRD", "MPP"}
    PROVE  Meaning!Recall(c)
<1>1. /\ vm.stack4m # <<>> /\ Unmoved(vm, vm')
      /\ FlowOf(vm', shape') = Append(FlowOf(vm, shape), Last(vm.stack4m))
      /\ vm'.stack4m = IF c.op = "MPP" THEN Front(vm.stack4m) ELSE vm.stack4m
  <2>1. CASE c.op = "MRD"
    <3>1. vm' \in Run_MRD(vm)
      BY <2>1 DEF Done, Run
    <3>. QED BY <2>1, <3>1, OutcomeMRD DEF Done
  <2>2. CASE c.op = "MPP"
    <3>1. vm' \in Run_MPP(vm)
      BY <2>2 DEF Done, Run
    <3>. QED BY <2>2, <3>1, OutcomeMPP DEF Done
  <2>. QED BY <2>1, <2>2
<1>2. Still
  BY <1>1, BesideStill
<1>. QED BY <1>1, <1>2, StillMeans, SameEnds, Mapping, MappingNext DEF Meaning!Recall

\* A unit that is given a value, in the ladder's terms.
LEMMA CoilMeans ==
    ASSUME UnitsApart, vm \in Machine, NEW u \in Unit, NEW k, Met(vm, u, k), NEW v \in BOOLEAN, NEW d,
           Coiled(k, vm', u, v, d), vm' \in Machine, \A w \in Mapped : w # u => d[w] = k.device[w]
    PROVE  Meaning!Coil(u, v) /\ vm'.stack4m = vm.stack4m
<1>1. /\ k \in Machine /\ u \in DOMAIN k.unit
      /\ Values(k) = Values(vm) /\ Befores(k) = Befores(vm) /\ k.stack4m = vm.stack4m
  BY MetShows
<1>2. /\ Values(vm') = [Values(k) EXCEPT ![u] = v]
      /\ Befores(vm') = [Befores(k) EXCEPT ![u] = Values(k)[u]]
  BY <1>1, CoilSight
<1>3. vm'.stack4m = k.stack4m
  BY DEF Coiled
<1>. QED BY <1>1, <1>2, <1>3, Mapping, MappingNext DEF Meaning!Coil

\* What the device is told.
LEMMA ShowsMeans ==
    ASSUME UnitsApart, vm \in Machine, NEW u \in Unit, vm.connected => u \in Mapped, NEW k, Met(vm, u, k),
           NEW v \in BOOLEAN, Coiled(k, vm', u, v, Told(k, u, v))
    PROVE  Meaning!Shows(u, v) /\ \A w \in Mapped : w # u => Told(k, u, v)[w] = k.device[w]
<1>1. k \in Machine /\ Devices(k) = Devices(vm) /\ k.connected = vm.connected
  BY MetShows
<1>2. /\ Devices(vm') = IF k.connected THEN [Devices(k) EXCEPT ![u] = v] ELSE Devices(k)
      /\ \A w \in Mapped : w # u => Told(k, u, v)[w] = k.device[w]
  BY <1>1, ToldSight DEF Coiled
<1>. QED BY <1>1, <1>2, Mapping, MappingNext DEF Meaning!Shows

LEMMA OutMeans ==
    ASSUME UnitsApart, NEW c, Done(c), c.op = "OUT"
    PROVE  Meaning!Out(c)
<1>1. Readable(vm, c) /\ vm \in Machine /\ c.unit \in Unit
  BY DEF Accepts, Legible, Readable, Alone, Block, Done, Fits, Clause
<1>2. vm' \in Run_OUT(vm, c)
  BY DEF Done, Run
<1> PICK v : v = Last(FlowOf(vm, shape))
  OBVIOUS
<1>3. /\ FlowOf(vm, shape) # <<>> /\ v \in BOOLEAN
      /\ \E k : /\ Met(vm, c.unit, k) /\ Coiled(k, vm', c.unit, v, k.device)
                /\ Fits(vm', shape') /\ FlowOf(vm', shape') = Front(FlowOf(vm, shape))
  BY <1>1, <1>2, OutcomeOUT DEF Done
<1>4. PICK k : /\ Met(vm, c.unit, k) /\ Coiled(k, vm', c.unit, v, k.device)
               /\ Fits(vm', shape') /\ FlowOf(vm', shape') = Front(FlowOf(vm, shape))
  BY <1>3
<1>5. Meaning!Coil(c.unit, v) /\ vm'.stack4m = vm.stack4m
  <2>1. vm' \in Machine
    BY <1>4 DEF Fits
  <2> DEFINE d == k.device
  <2>2. Coiled(k, vm', c.unit, v, d) /\ \A w \in Mapped : w # c.unit => d[w] = k.device[w]
    BY <1>4
  <2> HIDE DEF d
  <2>. QED BY <1>1, <1>3, <1>4, <2>1, <2>2, CoilMeans
<1>6. vm'.device = vm.device /\ Devices(vm') = Devices(vm)
  <2>1. vm'.device = vm.device
    BY <1>4 DEF Coiled, Met, Grown
  <2>. QED BY <2>1 DEF Devices
<1> DEFINE flow == [i \in DOMAIN shape.live |-> vm.stack[shape.live[i]]]
<1>7. flow = FlowOf(vm, shape) /\ flow' = FlowOf(vm', shape')
  BY Mapping, MappingNext
<1>8. UNCHANGED [u \in Unit |-> u \in Mapped /\ vm.device[u]]
  BY <1>6, Mapping, MappingNext
<1> HIDE DEF flow
<1>9. flow # <<>> /\ flow' = Meaning!Front(flow) /\ v = Meaning!Last(flow)
  BY <1>3, <1>4, <1>7, SameEnds
<1>10. Meaning!Coil(c.unit, Meaning!Last(flow))
  BY <1>5, <1>9 DEF Meaning!Coil
<1>. QED BY <1>5, <1>8, <1>9, <1>10 DEF Meaning!Out, flow

LEMMA SetResetMeans ==
    ASSUME UnitsApart, NEW c, Done(c), c.op = "SET" \/ (c.op = "RST" /\ Kind[c.unit] # "D")
    PROVE  Meaning!SetReset(c)
<1>1. Readable(vm, c) /\ vm \in Machine /\ c.unit \in Unit
  BY DEF Accepts, Legible, Readable, Alone, Block, Done, Fits, Clause
<1> DEFINE v == c.op = "SET"
<1>2. v \in BOOLEAN
  OBVIOUS
<1>3. \E k : /\ Met(vm, c.unit, k)
             /\ Coiled(k, vm', c.unit, v, IF Kind[c.unit] = "T" THEN k.device ELSE Told(k, c.unit, v))
             /\ Fits(vm', shape') /\ FlowOf(vm', shape') = FlowOf(vm, shape)
  <2>1. CASE c.op = "SET"
    <3>1. vm' \in Run_SET(vm, c)
      BY <2>1 DEF Done, Run
    <3>2. Kind[c.unit] # "T" /\ v = TRUE
      BY <2>1 DEF Done, Accepts, Alone, Block
    <3>. QED BY <1>1, <2>1, <3>1, <3>2, OutcomeSET DEF Done
  <2>2. CASE c.op = "RST" /\ Kind[c.unit] # "D"
    <3>1. vm' \in Run_RST(vm, c) /\ v = FALSE
      BY <2>2 DEF Done, Run
    <3>. QED BY <1>1, <2>2, <3>1, OutcomeRST DEF Done
  <2>. QED BY <2>1, <2>2
<1> HIDE DEF v
<1>4. PICK k : /\ Met(vm, c.unit, k)
               /\ Coiled(k, vm', c.unit, v, IF Kind[c.unit] = "T" THEN k.device ELSE Told(k, c.unit, v))
               /\ Fits(vm', shape') /\ FlowOf(vm', shape') = FlowOf(vm, shape)
  BY <1>3
<1>5. Kind[c.unit] # "D" /\ vm' \in Machine
  BY <1>1, <1>4 DEF Readable, Fits
<1>6. CASE Kind[c.unit] = "T"
  <2>1. Coiled(k, vm', c.unit, v, k.device)
    BY <1>4, <1>6
  <2>2. Meaning!Coil(c.unit, v) /\ vm'.stack4m = vm.stack4m
    BY <1>1, <1>2, <1>4, <1>5, <2>1, CoilMeans
  <2>3. vm'.device = vm.device
    BY <1>4, <2>1 DEF Coiled, Met, Grown
  <2>4. Devices(vm') = Devices(vm)
    BY <2>3 DEF Devices
  <2>. QED BY <1>4, <1>5, <1>6, <2>2, <2>4, Mapping, MappingNext DEF Meaning!SetReset, v
<1>7. CASE Kind[c.unit] # "T"
  <2>1. Coiled(k, vm', c.unit, v, Told(k, c.unit, v))
    BY <1>4, <1>7
  <2>2. Meaning!Shows(c.unit, v) /\ \A w \in Mapped : w # c.unit => Told(k, c.unit, v)[w] = k.device[w]
    BY <1>1, <1>2, <1>4, <2>1, ShowsMeans DEF Readable
  <2>3. Meaning!Coil(c.unit, v) /\ vm'.stack4m = vm.stack4m
    BY <1>1, <1>2, <1>4, <1>5, <2>1, <2>2, CoilMeans
  <2>. QED BY <1>4, <1>5, <1>7, <2>2, <2>3, Mapping, MappingNext DEF Meaning!SetReset, v
<1>. QED BY <1>6, <1>7

\* A comparison takes its bits from the device, if there is one.
LEMMA ComparedIs ==
    ASSUME UnitsApart, vm \in Machine, vm.connected => DOMAIN vm.unit \subseteq Mapped, NEW c \in Clause,
           NEW k, Met(vm, c.unit, k), \A j \in DOMAIN c.range : c.range[j] \in DOMAIN k.unit
    PROVE  Compared(k, c) =
             (Meaning!Number([i \in DOMAIN c.range |->
                                (IF vm.connected THEN Devices(vm) ELSE Values(vm))[c.range[i]]]) = c.number)
<1>1. /\ k \in Machine /\ Devices(k) = Devices(vm) /\ Values(k) = Values(vm) /\ k.connected = vm.connected
      /\ c.unit \in Unit /\ vm.connected \in BOOLEAN
  BY MetShows, Fields DEF Clause
<1>2. k.connected => DOMAIN k.unit \subseteq Mapped
  BY <1>1 DEF Met, Grown
<1> DEFINE from == IF vm.connected THEN Devices(vm) ELSE Values(vm)
<1>3. ASSUME NEW u \in DOMAIN k.unit
      PROVE  GetState(k, u) = from[u]
  <2>1. u \in Unit
    BY <1>1, Fields
  <2>2. CASE vm.connected
    <3>1. u \in Mapped /\ Devices(k)[u] = (u \in Mapped /\ k.device[u]) /\ k.device[u] \in BOOLEAN
      BY <1>1, <1>2, <2>1, <2>2, ValuesAre
    <3>2. ReadSoftUnit(k, u) <=> k.device[u]
      BY <2>1 DEF ReadSoftUnit, UnitsApart
    <3>3. ReadSoftUnit(k, u) \in BOOLEAN
      BY DEF ReadSoftUnit
    <3>. QED BY <1>1, <2>2, <3>1, <3>2, <3>3 DEF GetState
  <2>3. CASE ~vm.connected
    <3>1. k.unit[u].now \in BOOLEAN
      BY <1>1, Fields
    <3>2. Values(k)[u] = ValueOf(k, u)
      BY <1>1, <2>1, ValuesAre
    <3>3. ValueOf(k, u) = k.unit[u].now
      BY DEF ValueOf
    <3>. QED BY <1>1, <2>3, <3>2, <3>3 DEF GetState
  <2>. QED BY <1>1, <2>2, <2>3
<1> HIDE DEF from
<1> DEFINE bits == [i \in DOMAIN c.range |-> GetState(k, c.range[i])]
           shown == [i \in DOMAIN c.range |-> from[c.range[i]]]
<1>4. bits = shown
  BY <1>3
<1>5. Compared(k, c) = (c.number = FoldLeft(LAMBDA x, b : 2 * x + (IF b THEN 1 ELSE 0), 0, bits))
  BY DEF Compared
<1>6. Meaning!Number(shown) = FoldLeft(LAMBDA x, b : 2 * x + (IF b THEN 1 ELSE 0), 0, shown)
  BY DEF Meaning!Number, Meaning!FoldLeft, FoldLeft, Meaning!MapThenFoldSet, MapThenFoldSet, Meaning!Max, Max
<1>7. Compared(k, c) = (Meaning!Number(shown) = c.number)
  BY <1>4, <1>5, <1>6
<1>. QED BY <1>7 DEF from

LEMMA CompareMeans ==
    ASSUME UnitsApart, NEW c, Done(c), c.op = "CMP"
    PROVE  Meaning!Compare(c)
<1>1. vm \in Machine /\ c.unit \in Unit /\ c \in Clause /\ (vm.connected => c.unit \in Mapped)
      /\ (vm.connected => DOMAIN vm.unit \subseteq Mapped)
  BY DEF Legible, Done, Fits, Clause
<1>2. vm' \in Run_CMP(vm, c)
  BY DEF Done, Run
<1>3. PICK k : /\ Met(vm, c.unit, k) /\ \A j \in DOMAIN c.range : c.range[j] \in DOMAIN k.unit
               /\ Coiled(k, vm', c.unit, Compared(k, c), Told(k, c.unit, Compared(k, c)))
               /\ Fits(vm', shape') /\ FlowOf(vm', shape') = FlowOf(vm, shape)
  BY <1>1, <1>2, OutcomeCMP DEF Done
<1> DEFINE v == Compared(k, c)
<1>4. v \in BOOLEAN
  BY DEF Compared
<1>5. v = (Meaning!Number([i \in DOMAIN c.range |->
                             (IF vm.connected THEN Devices(vm) ELSE Values(vm))[c.range[i]]]) = c.number)
  BY <1>1, <1>3, ComparedIs
<1> HIDE DEF v
<1>6. Coiled(k, vm', c.unit, v, Told(k, c.unit, v))
  BY <1>3 DEF v
<1>7. Meaning!Shows(c.unit, v) /\ \A w \in Mapped : w # c.unit => Told(k, c.unit, v)[w] = k.device[w]
  BY <1>1, <1>3, <1>4, <1>6, ShowsMeans
<1>8. Meaning!Coil(c.unit, v) /\ vm'.stack4m = vm.stack4m
  BY <1>1, <1>3, <1>4, <1>6, <1>7, CoilMeans DEF Fits
<1>9. UNCHANGED <<[i \in DOMAIN shape.live |-> vm.stack[shape.live[i]]], vm.stack4m>>
  BY <1>3, <1>8, Mapping, MappingNext
<1> DEFINE equal == Meaning!Number([i \in DOMAIN c.range |->
                      (IF vm.connected THEN [u \in Unit |-> u \in Mapped /\ vm.device[u]]
                       ELSE [u \in Unit |-> Value(u)])[c.range[i]]]) = c.number
<1>10. v = equal
  BY <1>5, Mapping
<1> HIDE DEF equal
<1>11. Meaning!Coil(c.unit, equal) /\ Meaning!Shows(c.unit, equal)
  BY <1>7, <1>8, <1>10 DEF Meaning!Coil, Meaning!Shows
<1>. QED BY <1>9, <1>11 DEF Meaning!Compare, equal

LEMMA NothingMeans ==
    ASSUME NEW c, Done(c), c.op = "NOP" \/ (c.op = "RST" /\ Kind[c.unit] = "D")
    PROVE  Meaning!Nothing(c)
<1>1. vm' = vm /\ shape' = shape
  <2>1. CASE c.op = "NOP"
    <3>1. vm' = vm
      BY <2>1 DEF Done, Run, Run_NOP
    <3>2. After(shape, c) = shape
      BY <2>1, AfterIs DEF Done, Fits
    <3>. QED BY <3>1, <3>2 DEF Done
  <2>2. CASE c.op = "RST" /\ Kind[c.unit] = "D"
    <3>1. vm' \in Run_RST(vm, c)
      BY <2>2 DEF Done, Run
    <3>. QED BY <2>2, <3>1, OutcomeRegister DEF Done
  <2>. QED BY <2>1, <2>2
<1>2. Still /\ FlowOf(vm', shape') = FlowOf(vm, shape)
  BY <1>1 DEF Still
<1>. QED BY <1>1, <1>2, StillMeans, Mapping, MappingNext DEF Meaning!Nothing

\* Every instruction that does not end the program is a step of the ladder.
LEMMA StepMeans ==
    ASSUME UnitsApart, NEW c, Done(c)
    PROVE  \/ Meaning!Open(c) \/ Meaning!Join(c) \/ Meaning!JoinBlocks(c) \/ Meaning!Invert(c)
           \/ Meaning!Out(c) \/ Meaning!SetReset(c) \/ Meaning!Keep(c) \/ Meaning!Recall(c)
           \/ Meaning!Compare(c) \/ Meaning!Nothing(c)
<1>1. CASE c.op = "LD"
  BY <1>1, OpenMeans
<1>2. CASE c.op \in {"AND", "OR"}
  BY <1>2, JoinMeans
<1>3. CASE c.op \in {"ANB", "ORB"}
  BY <1>3, JoinBlocksMeans
<1>4. CASE c.op = "INV"
  BY <1>4, InvertMeans
<1>5. CASE c.op = "OUT"
  BY <1>5, OutMeans
<1>6. CASE c.op = "SET" \/ (c.op = "RST" /\ Kind[c.unit] # "D")
  BY <1>6, SetResetMeans
<1>7. CASE c.op = "MPS"
  BY <1>7, KeepMeans
<1>8. CASE c.op \in {"MRD", "MPP"}
  BY <1>8, RecallMeans
<1>9. CASE c.op = "CMP"
  BY <1>9, CompareMeans
<1>10. CASE c.op = "NOP" \/ (c.op = "RST" /\ Kind[c.unit] = "D")
  BY <1>10, NothingMeans
<1>11. CASE c.op = "MOV"
  <2>1. vm' = Dead(vm) /\ vm \in Machine
    BY <1>11 DEF Done, Run, Run_MOV, Fits
  <2>. QED BY <2>1, GrownSelf DEF Done
<1>12. \/ c.op \in {"LD", "AND", "OR", "ANB", "ORB", "INV", "OUT", "SET", "MPS", "MRD", "MPP", "CMP", "NOP"}
       \/ c.op \in {"RST", "MOV"}
  BY DEF Done, Accepts, Alone, Block
<1>. QED BY <1>1, <1>2, <1>3, <1>4, <1>5, <1>6, <1>7, <1>8, <1>9, <1>10, <1>11, <1>12

\* A program that ends shows nothing more.
LEMMA EndedStutters ==
    ASSUME UnitsApart, vm \in Machine, Ended(vm, vm'), UNCHANGED <<clauses, step_no, shape>>
    PROVE  UNCHANGED Meaning!vars
<1>1. Still
  BY GrownValues DEF Ended, Still
<1>2. vm'.stack = vm.stack /\ vm'.stack4m = vm.stack4m /\ vm'.connected = vm.connected
  BY DEF Ended, Grown
<1>3. UNCHANGED [i \in DOMAIN shape.live |-> vm.stack[shape.live[i]]]
  BY <1>2
<1>. QED BY <1>1, <1>2, <1>3, StillMeans DEF Meaning!vars

LEMMA RunStepMeans ==
    ASSUME RegularFiles, UnitsApart, IInv, RunStep
    PROVE  Meaning!Step \/ UNCHANGED Meaning!vars
<1> PICK c : c = clauses[step_no + 1]
  OBVIOUS
<1>1. /\ Fits(vm, shape) /\ vm.alive /\ step_no \in Nat /\ Len(clauses) \in Nat /\ step_no # Len(clauses)
      /\ vm \in Machine
  BY InvFits DEF IInv, TypeOK, RunStep
<1>2. CASE Ended(vm, vm')
  <2>1. UNCHANGED <<clauses, step_no, shape>>
    BY <1>2 DEF RunStep, Ended
  <2>. QED BY <1>1, <1>2, <2>1, EndedStutters
<1>3. CASE ~Ended(vm, vm')
  <2>1. step_no < Len(clauses)
    <3>1. CASE step_no > Len(clauses)
      <4>1. vm' = Dead(vm)
        BY <3>1 DEF RunStep
      <4>. QED BY <1>1, <1>3, <4>1, GrownSelf
    <3>. QED BY <1>1, <3>1
  <2>2. vm' \in Run(vm, c)
    BY <1>1, <2>1 DEF RunStep
  <2>3. c \in Clause /\ Accepts(c) /\ Legible(c, vm.connected) /\ After(shape, c).right
    BY <2>1, NextClause
  <2>4. vm'.alive /\ vm'.connected = vm.connected
    BY <1>1, <1>3, <2>2, <2>3, StepOutcome
  <2>5. shape' = After(shape, c) /\ step_no' = (step_no + 1) % (Len(clauses) + 1) /\ clauses' = clauses
    BY <2>4 DEF RunStep
  <2>6. step_no' = step_no + 1
    BY <1>1, <2>1, <2>5
  <2>7. vm.connected => DOMAIN vm.unit \subseteq Mapped
    BY <1>1 DEF IInv
  <2>8. Done(c)
    BY <1>1, <1>3, <2>2, <2>3, <2>5, <2>7 DEF Done
  <2>9. \/ Meaning!Open(c) \/ Meaning!Join(c) \/ Meaning!JoinBlocks(c) \/ Meaning!Invert(c)
        \/ Meaning!Out(c) \/ Meaning!SetReset(c) \/ Meaning!Keep(c) \/ Meaning!Recall(c)
        \/ Meaning!Compare(c) \/ Meaning!Nothing(c)
    BY <2>8, StepMeans
  <2> DEFINE d == clauses[step_no + 1]
             Carried == \/ Meaning!Open(d) \/ Meaning!Join(d) \/ Meaning!JoinBlocks(d) \/ Meaning!Invert(d)
                        \/ Meaning!Out(d) \/ Meaning!SetReset(d) \/ Meaning!Keep(d) \/ Meaning!Recall(d)
                        \/ Meaning!Compare(d) \/ Meaning!Nothing(d)
  <2>10. Carried
    <3>0. c = d
      OBVIOUS
    <3> HIDE DEF d
    <3>1. CASE Meaning!Open(c)
      BY <3>0, <3>1 DEF Meaning!Open, Meaning!Closed
    <3>2. CASE Meaning!Join(c)
      BY <3>0, <3>2 DEF Meaning!Join, Meaning!Closed
    <3>3. CASE Meaning!JoinBlocks(c)
      BY <3>0, <3>3 DEF Meaning!JoinBlocks
    <3>4. CASE Meaning!Invert(c)
      BY <3>0, <3>4 DEF Meaning!Invert
    <3>5. CASE Meaning!Out(c)
      BY <3>0, <3>5 DEF Meaning!Out, Meaning!Coil
    <3>6. CASE Meaning!SetReset(c)
      BY <3>0, <3>6 DEF Meaning!SetReset, Meaning!Coil, Meaning!Shows
    <3>7. CASE Meaning!Keep(c)
      BY <3>0, <3>7 DEF Meaning!Keep
    <3>8. CASE Meaning!Recall(c)
      BY <3>0, <3>8 DEF Meaning!Recall
    <3>9. CASE Meaning!Compare(c)
      BY <3>0, <3>9 DEF Meaning!Compare, Meaning!Coil, Meaning!Shows
    <3>10. CASE Meaning!Nothing(c)
      BY <3>0, <3>10 DEF Meaning!Nothing
    <3>. QED BY <2>9, <3>1, <3>2, <3>3, <3>4, <3>5, <3>6, <3>7, <3>8, <3>9, <3>10
  <2> HIDE DEF d
  <2>11. UNCHANGED <<clauses, vm.connected>> /\ step_no' = step_no + 1
    BY <2>4, <2>5, <2>6
  <2>. QED BY <2>1, <2>10, <2>11, Zenon DEF Meaning!Step, d
<1>. QED BY <1>2, <1>3

\* Of a new program the device is all that is seen.
LEMMA LoadMeans ==
    ASSUME IInv, NEW f \in File, NEW connected \in BOOLEAN, Load(f, connected)
    PROVE  Meaning!Load
<1>1. vm \in Machine /\ f \in Seq(Clause)
  BY FileAssumption DEF IInv, TypeOK
<1>2. /\ vm' \in Machine /\ vm'.stack = <<>> /\ vm'.stack4m = <<>> /\ vm'.unit = <<>>
      /\ vm'.connected = connected /\ vm'.device = vm.device /\ shape' = Empty /\ step_no' = step_no
  BY <1>1, ClearedIs DEF Load
<1>3. clauses' \in Seq(Meaning!Clause)
  <2>1. clauses' \in Seq({c \in Clause : Accepts(c)})
    BY <1>1, CollectedIs DEF Load
  <2>2. \A c \in Clause : c \in Meaning!Clause
    BY DEF Clause, Meaning!Clause
  <2>. QED BY <2>1, <2>2
<1>4. [i \in DOMAIN shape.live |-> vm.stack[shape.live[i]]]' = <<>>
  BY <1>2 DEF Empty
<1>5. UNCHANGED [u \in Unit |-> u \in Mapped /\ vm.device[u]]
  BY <1>2
<1>6. [u \in Unit |-> Value(u)]' =
        [u \in Unit |-> vm'.connected /\ u \notin Meaning!Counter
                        /\ [w \in Unit |-> w \in Mapped /\ vm.device[w]][u]]
  <2>1. \A u \in Unit : u \notin DOMAIN vm'.unit
    BY <1>2
  <2>2. ASSUME NEW u \in Unit
        PROVE  ValueOf(vm', u) = (vm'.connected /\ u \notin Meaning!Counter
                                  /\ [w \in Unit |-> w \in Mapped /\ vm.device[w]][u])
    BY <1>2, <2>1 DEF ValueOf, Meaning!Counter
  <2>3. [u \in Unit |-> Value(u)]' = [u \in Unit |-> ValueOf(vm', u)]
    BY MappingNext DEF Values
  <2>. QED BY <2>2, <2>3
<1>7. [u \in Unit |-> u \in DOMAIN vm.unit /\ vm.unit[u].saved]' = [u \in Unit |-> FALSE]
  <2>1. \A u \in Unit : BeforeOf(vm', u) = FALSE
    BY <1>2 DEF BeforeOf
  <2>2. Befores(vm') = [u \in Unit |-> FALSE]
    BY <2>1 DEF Befores
  <2>. QED BY <2>2, MappingNext
<1>. QED BY <1>2, <1>3, <1>4, <1>5, <1>6, <1>7 DEF Meaning!Load

\* What the bus writes is seen in the unit that stands for it, if the program has not met it.
LEMMA BusMeans ==
    ASSUME IInv, NEW u \in Mapped, BusWrite(u)
    PROVE  Meaning!Environment
<1> DEFINE v == ~vm.device[u]
<1>1. vm \in Machine /\ u \in Unit /\ v \in BOOLEAN
  BY UnitAssumption DEF IInv, TypeOK
<1>2. /\ vm' \in Machine /\ vm'.stack = vm.stack /\ vm'.stack4m = vm.stack4m /\ vm'.unit = vm.unit
      /\ vm'.connected = vm.connected /\ vm'.device = [vm.device EXCEPT ![u] = v]
      /\ UNCHANGED <<clauses, step_no, shape>>
  <2>1. /\ vm' \in Machine
        /\ vm' = With6(vm.stack, vm.stack4m, vm.unit, vm.connected,
                       [vm.device EXCEPT ![u] = v], vm.alive)
    BY <1>1, WrittenIs DEF BusWrite
  <2>. QED BY <2>1 DEF With6, BusWrite
<1>3. \A w \in Mapped : vm'.device[w] = IF w = u THEN v ELSE vm.device[w]
  BY <1>1, <1>2, Fields
<1> HIDE DEF v
<1>4. Devices(vm') = [Devices(vm) EXCEPT ![u] = v]
  <2>1. \A w \in Unit : (w \in Mapped /\ vm'.device[w]) = IF w = u THEN v ELSE w \in Mapped /\ vm.device[w]
    BY <1>1, <1>3
  <2>. QED BY <1>1, <2>1 DEF Devices
<1>5. Befores(vm') = Befores(vm)
  BY <1>2 DEF Befores, BeforeOf
<1>6. \/ Values(vm') = Values(vm)
      \/ vm.connected /\ u \notin Meaning!Counter /\ Values(vm') = [Values(vm) EXCEPT ![u] = v]
  <2>1. ASSUME NEW w \in Unit, w # u
        PROVE  ValueOf(vm', w) = ValueOf(vm, w)
    BY <1>2, <1>3, <2>1 DEF ValueOf
  <2>2. CASE u \notin DOMAIN vm.unit /\ vm.connected /\ u \notin Meaning!Counter
    <3>1. ValueOf(vm', u) = v
      BY <1>1, <1>2, <1>3, <2>2 DEF ValueOf, Meaning!Counter
    <3>. QED BY <1>1, <2>1, <2>2, <3>1 DEF Values
  <2>3. CASE u \in DOMAIN vm.unit \/ ~vm.connected \/ u \in Meaning!Counter
    <3>1. ValueOf(vm', u) = ValueOf(vm, u)
      BY <1>1, <1>2, <2>3 DEF ValueOf, Meaning!Counter
    <3>. QED BY <1>1, <2>1, <3>1 DEF Values
  <2>. QED BY <2>2, <2>3
<1>7. UNCHANGED [i \in DOMAIN shape.live |-> vm.stack[shape.live[i]]]
  BY <1>2
<1>. QED BY <1>1, <1>2, <1>4, <1>5, <1>6, <1>7, Mapping, MappingNext DEF Meaning!Environment

LEMMA InitMeans == Init => Meaning!Init
<1>. SUFFICES ASSUME Init PROVE Meaning!Init
  OBVIOUS
<1>1. /\ vm \in Machine /\ vm.stack = <<>> /\ vm.stack4m = <<>> /\ vm.unit = <<>> /\ vm.connected = FALSE
      /\ shape = Empty
  BY InitInvariant DEF Init, IInv, TypeOK
<1>2. [i \in DOMAIN shape.live |-> vm.stack[shape.live[i]]] = <<>>
  BY <1>1 DEF Empty
<1>3. /\ [u \in Unit |-> Value(u)] = [u \in Unit |-> FALSE]
      /\ [u \in Unit |-> u \in DOMAIN vm.unit /\ vm.unit[u].saved] = [u \in Unit |-> FALSE]
  <2>1. \A u \in Unit : ValueOf(vm, u) = FALSE /\ BeforeOf(vm, u) = FALSE
    BY <1>1 DEF ValueOf, BeforeOf
  <2>2. Values(vm) = [u \in Unit |-> FALSE] /\ Befores(vm) = [u \in Unit |-> FALSE]
    BY <2>1 DEF Values, Befores
  <2>. QED BY <2>2, Mapping
<1>4. [u \in Unit |-> u \in Mapped /\ vm.device[u]] \in [Unit -> BOOLEAN]
  BY <1>1, ValuesAre
<1>. QED BY <1>1, <1>2, <1>3, <1>4 DEF Init, Meaning!Init

\* For every device whose units do not share bytes and any Regular files: whatever the bus writes
\* and whenever a program is replaced, each coil, SET, RST and CMP of a program that goes on gives
\* its unit what the ladder says, each clause is carried out once and in turn, and nothing of an
\* earlier program is seen but its place (Executor::Run, fxvm_run_step, fxvm_load_file).
THEOREM Refinement ==
    ASSUME RegularFiles, UnitsApart
    PROVE  Spec => ImplementsLadder
<1>1. Init => Meaning!Init
  BY InitMeans
<1>2. IInv /\ [Next]_vars => [Meaning!Next]_Meaning!vars
  <2>. SUFFICES ASSUME IInv, [Next]_vars PROVE Meaning!Next \/ UNCHANGED Meaning!vars
    OBVIOUS
  <2>1. ASSUME NEW f \in File, NEW connected \in BOOLEAN, Load(f, connected) PROVE Meaning!Next
    BY <2>1, LoadMeans DEF Meaning!Next
  <2>2. CASE RunStep
    BY <2>2, RunStepMeans DEF Meaning!Next
  <2>3. ASSUME NEW u \in Mapped, BusWrite(u) PROVE Meaning!Next
    BY <2>3, BusMeans DEF Meaning!Next
  <2>4. CASE UNCHANGED vars
    BY <2>4 DEF vars, Meaning!vars, Value
  <2>. QED BY <2>1, <2>2, <2>3, <2>4 DEF Next
<1>3. Spec => []IInv
  BY Invariance
<1>. QED BY <1>1, <1>2, <1>3, PTL DEF Spec, ImplementsLadder, Meaning!Spec
=============================================================================
