--------------------------- MODULE CommRx_proofs ---------------------------
(***************************************************************************)
(* CommRx, for every set of readers and peekers, whatever they ask for and *)
(* whatever the channel brings: the queue stays in order, a frame is handed*)
(* over once, a reply is younger than the request, a peeker takes no reply.*)
(***************************************************************************)
EXTENDS CommRx, ListLemmas

-----------------------------------------------------------------------------
(* The queue as a sequence.                                                *)

\* What the members of a sequence are.
LEMMA Members == ASSUME NEW S, NEW s \in Seq(S)
                 PROVE  ToSet(s) \subseteq S /\ \A f \in ToSet(s) : \E i \in 1..Len(s) : s[i] = f
BY ElementOfSeq DEF ToSet

\* The place FirstAccepted names holds a frame that will do, or there is none.
LEMMA Accepted ==
    ASSUME NEW S, NEW queue \in Seq(S), NEW request, NEW st
    PROVE  LET i == FirstAccepted(queue, request, st) IN
           i = 0 \/ (i \in 1..Len(queue) /\ ~TooEarly(queue[i], st) /\ Fits(queue[i], request))
<1> DEFINE I == {i \in 1..Len(queue) : ~TooEarly(queue[i], st) /\ Fits(queue[i], request)}
<1>1. FirstAccepted(queue, request, st) = IF I # {} THEN Min(I) ELSE 0
  BY DEF FirstAccepted, SelectInSeq
<1>2. I # {} => Min(I) \in I
  <2>1. I \in SUBSET Nat OBVIOUS
  <2>2. I # {} => Min(I) \in I
    <3> HIDE DEF I
    <3> QED BY <2>1, MinOfSet
  <2> QED BY <2>2
<1> QED BY <1>1, <1>2

\* RemoveFrame removes the frame at a place that has the number, or nothing.
LEMMA RemovedFrame ==
    ASSUME NEW S, NEW queue \in Seq(S), NEW id
    PROVE  \/ RemoveFrame(queue, id) = queue
           \/ \E i \in 1..Len(queue) : queue[i].id = id /\ RemoveFrame(queue, id) = RemoveAt(queue, i)
<1> DEFINE I == {i \in 1..Len(queue) : queue[i].id = id}
<1>1. SelectInSeq(queue, LAMBDA f : f.id = id) = IF I # {} THEN Min(I) ELSE 0 BY DEF SelectInSeq
<1>2. I # {} => Min(I) \in I
  <2>1. I \in SUBSET Nat OBVIOUS
  <2>2. I # {} => Min(I) \in I
    <3> HIDE DEF I
    <3> QED BY <2>1, MinOfSet
  <2> QED BY <2>2
<1>3. CASE I = {} BY <1>1, <1>3 DEF RemoveFrame
<1>4. CASE I # {}
  <2>1. Min(I) \in 1..Len(queue) /\ queue[Min(I)].id = id BY <1>2, <1>4
  <2>2. Min(I) # 0 BY <2>1
  <2> HIDE DEF I
  <2> QED BY <1>1, <1>4, <2>1, <2>2 DEF RemoveFrame
<1> QED BY <1>3, <1>4

\* ClearOldFrames leaves the queue from the first frame on that has not expired.
LEMMA Cleared ==
    ASSUME NEW S, NEW queue \in Seq(S), NEW t
    PROVE  \/ /\ ClearOldFrames(queue, t) = <<>>
              /\ \A i \in 1..Len(queue) : Expired(queue[i], t)
           \/ \E i \in 1..Len(queue) : /\ ClearOldFrames(queue, t) = SubSeq(queue, i, Len(queue))
                                       /\ ~Expired(queue[i], t)
                                       /\ \A j \in 1..Len(queue) : j < i => Expired(queue[j], t)
<1> DEFINE I == {i \in 1..Len(queue) : ~Expired(queue[i], t)}
<1>1. SelectInSeq(queue, LAMBDA f : ~Expired(f, t)) = IF I # {} THEN Min(I) ELSE 0 BY DEF SelectInSeq
<1>2. I # {} => Min(I) \in I /\ \A y \in I : Min(I) <= y
  <2>1. I \in SUBSET Nat OBVIOUS
  <2> HIDE DEF I
  <2> QED BY <2>1, MinOfSet
<1>3. CASE I = {} BY <1>1, <1>3 DEF ClearOldFrames
<1>4. CASE I # {}
  <2> DEFINE m == Min(I)
  <2>1. m \in I /\ \A y \in I : m <= y BY <1>2, <1>4
  <2>2. ClearOldFrames(queue, t) = IF m = 0 THEN <<>> ELSE SubSeq(queue, m, Len(queue))
    BY <1>1, <1>4 DEF ClearOldFrames
  <2> HIDE DEF m
  <2>3. m \in 1..Len(queue) /\ ~Expired(queue[m], t) BY <2>1
  <2>4. \A j \in 1..Len(queue) : j < m => Expired(queue[j], t)
    <3> SUFFICES ASSUME NEW j \in 1..Len(queue), j < m, ~Expired(queue[j], t) PROVE FALSE OBVIOUS
    <3>1. m <= j BY <2>1
    <3> QED BY <2>3, <3>1
  <2> QED BY <2>2, <2>3, <2>4
<1> QED BY <1>3, <1>4

\* The types of what a frame carries.
LEMMA FrameFacts ==
    ASSUME NEW f \in Frames
    PROVE  f.id \in Nat /\ f.at \in Nat /\ f.ts \in 0..MinusOne
BY BoundAssumption DEF Frames

\* A sequence of frames in the order of their numbers and times.
InOrder(s) == \A i, j \in DOMAIN s : i < j => s[i].id < s[j].id /\ s[i].at <= s[j].at

\* A sequence that takes some elements of another in their order is in order if that is.
LEMMA Thinned ==
    ASSUME NEW s \in Seq(Frames), NEW t \in Seq(Frames), NEW g \in [1..Len(s) -> 1..Len(t)],
           \A i, j \in 1..Len(s) : i < j => g[i] < g[j],
           \A i \in 1..Len(s) : s[i] = t[g[i]], InOrder(t)
    PROVE  InOrder(s) /\ ToSet(s) \subseteq ToSet(t)
<1>1. DOMAIN s = 1..Len(s) /\ DOMAIN t = 1..Len(t) OBVIOUS
<1>2. InOrder(s) BY <1>1 DEF InOrder
<1>3. ToSet(s) \subseteq ToSet(t) BY <1>1 DEF ToSet
<1> QED BY <1>2, <1>3

\* What is pending when the frame in place i has left the queue: nothing with its number.
LEMMA TakenFrame ==
    ASSUME NEW q \in Seq(Frames), NEW d \in Seq(Frames), NEW i \in 1..Len(q), InOrder(q \o d)
    PROVE  /\ RemoveAt(q, i) \in Seq(Frames)
           /\ InOrder(RemoveAt(q, i) \o d) /\ ToSet(RemoveAt(q, i) \o d) \subseteq ToSet(q \o d)
           /\ q[i] \in Frames /\ q[i] \in ToSet(q \o d)
           /\ \A f \in ToSet(RemoveAt(q, i) \o d) : f.id # q[i].id
           /\ \A f \in ToSet(q) : f # q[i] => f \in ToSet(RemoveAt(q, i))
<1> DEFINE r == RemoveAt(q, i)
           n == Len(q) + Len(d)
           g == [k \in 1..n - 1 |-> IF k < i THEN k ELSE k + 1]
<1>1. /\ r \in Seq(Frames) /\ Len(r) = Len(q) - 1
      /\ \A k \in 1..Len(q) - 1 : r[k] = IF k < i THEN q[k] ELSE q[k + 1]
  BY Removed
<1>2. Len(q) \in Nat /\ Len(d) \in Nat /\ i \in Nat /\ 1 <= i /\ i <= Len(q) OBVIOUS
<1> HIDE DEF r
<1>3. /\ q \o d \in Seq(Frames) /\ Len(q \o d) = n
      /\ \A k \in 1..n : (q \o d)[k] = IF k <= Len(q) THEN q[k] ELSE d[k - Len(q)]
  BY ConcatProperties
<1>4. /\ r \o d \in Seq(Frames) /\ Len(r \o d) = n - 1
      /\ \A k \in 1..n - 1 : (r \o d)[k] = IF k <= Len(q) - 1 THEN r[k] ELSE d[k - (Len(q) - 1)]
  <2>1. /\ r \o d \in Seq(Frames) /\ Len(r \o d) = Len(r) + Len(d)
        /\ \A k \in 1..Len(r) + Len(d) : (r \o d)[k] = IF k <= Len(r) THEN r[k] ELSE d[k - Len(r)]
    BY <1>1, ConcatProperties
  <2>2. Len(r) + Len(d) = n - 1 BY <1>1, <1>2
  <2> QED BY <1>1, <2>1, <2>2
<1>5. \A k \in 1..n - 1 : /\ g[k] \in 1..n /\ g[k] # i
                          /\ (r \o d)[k] = (q \o d)[g[k]]
  <2> TAKE k \in 1..n - 1
  <2>1. CASE k <= Len(q) - 1 BY <1>1, <1>2, <1>3, <1>4, <2>1
  <2>2. CASE ~(k <= Len(q) - 1)
    <3>1. g[k] = k + 1 /\ k + 1 \in 1..n /\ ~(k + 1 <= Len(q)) BY <1>2, <2>2
    <3>2. (q \o d)[k + 1] = d[(k + 1) - Len(q)] BY <1>3, <3>1
    <3>3. (r \o d)[k] = d[k - (Len(q) - 1)] BY <1>4, <2>2
    <3>4. (k + 1) - Len(q) = k - (Len(q) - 1) BY <1>2
    <3>5. k + 1 # i BY <1>2, <3>1
    <3> QED BY <3>1, <3>2, <3>3, <3>4, <3>5
  <2> QED BY <2>1, <2>2
<1>6. \A j, k \in 1..n - 1 : j < k => g[j] < g[k] BY <1>2
<1>7. g \in [1..n - 1 -> 1..n] BY <1>2
<1> HIDE DEF g, n
<1>8. InOrder(r \o d) /\ ToSet(r \o d) \subseteq ToSet(q \o d)
  <2>1. g \in [1..Len(r \o d) -> 1..Len(q \o d)] BY <1>3, <1>4, <1>7
  <2>2. \A j, k \in 1..Len(r \o d) : j < k => g[j] < g[k] BY <1>4, <1>6
  <2>3. \A k \in 1..Len(r \o d) : (r \o d)[k] = (q \o d)[g[k]] BY <1>4, <1>5
  <2>4. r \o d \in Seq(Frames) /\ q \o d \in Seq(Frames) BY <1>3, <1>4
  <2> DEFINE s == r \o d
             t == q \o d
  <2> HIDE DEF s, t
  <2>5. InOrder(s) /\ ToSet(s) \subseteq ToSet(t) BY <2>1, <2>2, <2>3, <2>4, Thinned DEF s, t
  <2> QED BY <2>5 DEF s, t
<1>9. i \in 1..n /\ (q \o d)[i] = q[i] BY <1>2, <1>3 DEF n
<1>10. q[i] \in Frames /\ q[i] \in ToSet(q \o d)
  <2>1. q[i] \in Frames BY ElementOfSeq
  <2>2. DOMAIN (q \o d) = 1..n BY <1>3
  <2> QED BY <1>9, <2>1, <2>2 DEF ToSet
<1>11. \A f \in ToSet(r \o d) : f.id # q[i].id
  <2> SUFFICES ASSUME NEW k \in 1..n - 1 PROVE (r \o d)[k].id # q[i].id
    <3>1. \A f \in ToSet(r \o d) : \E k \in 1..n - 1 : (r \o d)[k] = f BY <1>4, Members
    <3> QED BY <3>1
  <2>1. g[k] \in 1..n /\ g[k] # i /\ (r \o d)[k] = (q \o d)[g[k]] BY <1>5
  <2>2. DOMAIN (q \o d) = 1..n BY <1>3
  <2>3. (q \o d)[g[k]].id \in Nat /\ (q \o d)[i].id \in Nat
    <3>1. (q \o d)[g[k]] \in Frames /\ (q \o d)[i] \in Frames BY <1>3, <1>9, <2>1, ElementOfSeq
    <3> QED BY <3>1, FrameFacts
  <2>4. g[k] < i \/ i < g[k] BY <1>2, <2>1 DEF n
  <2>5. (q \o d)[g[k]].id < (q \o d)[i].id \/ (q \o d)[i].id < (q \o d)[g[k]].id
    BY <1>9, <2>1, <2>2, <2>4 DEF InOrder
  <2>6. (q \o d)[g[k]].id # (q \o d)[i].id
    <3>1. \A x, y \in Nat : x < y \/ y < x => x # y OBVIOUS
    <3> QED BY <2>3, <2>5, <3>1, Zenon
  <2> QED BY <1>9, <2>1, <2>6
<1>12. \A f \in ToSet(q) : f # q[i] => f \in ToSet(r)
  <2> SUFFICES ASSUME NEW k \in 1..Len(q), q[k] # q[i] PROVE q[k] \in ToSet(r) BY Members
  <2>1. k # i OBVIOUS
  <2>2. DOMAIN r = 1..Len(q) - 1 BY <1>1
  <2>3. CASE k < i
    <3>1. k \in 1..Len(q) - 1 /\ r[k] = q[k] BY <1>1, <1>2, <2>3
    <3> QED BY <2>2, <3>1 DEF ToSet
  <2>4. CASE i < k
    <3>1. k - 1 \in 1..Len(q) - 1 /\ ~(k - 1 < i) /\ (k - 1) + 1 = k BY <1>2, <2>4
    <3>2. r[k - 1] = q[k] BY <1>1, <3>1
    <3> QED BY <2>2, <3>1, <3>2 DEF ToSet
  <2> QED BY <1>2, <2>1, <2>3, <2>4
<1> QED BY <1>1, <1>8, <1>10, <1>11, <1>12 DEF r

\* What is left from some place on is in order.
LEMMA Rest ==
    ASSUME NEW q \in Seq(Frames), NEW i \in 1..Len(q), InOrder(q)
    PROVE  /\ SubSeq(q, i, Len(q)) \in Seq(Frames)
           /\ InOrder(SubSeq(q, i, Len(q))) /\ ToSet(SubSeq(q, i, Len(q))) \subseteq ToSet(q)
<1> DEFINE r == SubSeq(q, i, Len(q))
           n == Len(q) - i + 1
           g == [k \in 1..n |-> i + k - 1]
<1>1. Len(q) \in Nat /\ i \in Nat /\ 1 <= i /\ i <= Len(q) OBVIOUS
<1>2. r \in Seq(Frames) /\ Len(r) = n /\ \A k \in 1..n : r[k] = q[i + k - 1]
  <2>1. \A k \in i..Len(q) : q[k] \in Frames BY <1>1, ElementOfSeq
  <2> QED BY <1>1, <2>1, SubSeqProperties
<1>3. g \in [1..n -> 1..Len(q)] /\ \A j, k \in 1..n : j < k => g[j] < g[k] BY <1>1
<1>4. \A k \in 1..n : r[k] = q[g[k]] BY <1>2
<1> HIDE DEF r, g, n
<1> QED BY <1>2, <1>3, <1>4, Thinned DEF r

-----------------------------------------------------------------------------
(* Ticks.                                                                  *)

\* The counter goes up by one or back to 0; within one round it tells the time that has passed.
LEMMA TickFacts ==
    /\ TickMod \in Nat /\ MinusOne \in Nat /\ TickMod = MinusOne + 1 /\ StartTick \in 0..MinusOne
    /\ \A x \in 0..MinusOne : (x + 1) % TickMod = IF x < MinusOne THEN x + 1 ELSE 0
    /\ \A x, y \in 0..MinusOne : y <= x => Elapsed(x, y) = x - y
<1>1. TickMod \in Nat /\ TickMod > 1 /\ MinusOne = TickMod - 1 BY TickAssumption DEF MinusOne
<1>2. \A x \in Nat : x < TickMod => x % TickMod = x BY <1>1
<1>3. TickMod % TickMod = 0 BY <1>1
<1>4. \A x \in 0..MinusOne : (x + 1) % TickMod = IF x < MinusOne THEN x + 1 ELSE 0
  <2> TAKE x \in 0..MinusOne
  <2>1. CASE x < MinusOne BY <1>1, <1>2, <2>1
  <2>2. CASE ~(x < MinusOne)
    <3>1. x + 1 = TickMod BY <1>1, <2>2
    <3> QED BY <1>3, <2>2, <3>1
  <2> QED BY <2>1, <2>2
<1>5. \A x, y \in 0..MinusOne : y <= x => Elapsed(x, y) = x - y
  <2> SUFFICES ASSUME NEW x \in 0..MinusOne, NEW y \in 0..MinusOne, y <= x PROVE Elapsed(x, y) = x - y
    OBVIOUS
  <2>1. x - y \in Nat /\ x - y < TickMod BY <1>1
  <2> QED BY <1>2, <2>1 DEF Elapsed
<1> QED BY <1>1, <1>4, <1>5, BoundAssumption

\* A difference of ticks in unsigned arithmetic is the time between them, if that is less than a round.
LEMMA Lap ==
    \A x, y \in 0..MinusOne : \A d \in Nat :
        d < TickMod /\ x - y \in {d, d - TickMod, d + TickMod} => Elapsed(x, y) = d
<1> SUFFICES ASSUME NEW x \in 0..MinusOne, NEW y \in 0..MinusOne, NEW d \in Nat, d < TickMod,
                    x - y \in {d, d - TickMod, d + TickMod}
             PROVE  Elapsed(x, y) = d
  OBVIOUS
<1>1. TickMod \in Nat /\ TickMod > 1 BY TickAssumption
<1>2. d % TickMod = d BY <1>1
<1>3. (d - TickMod) % TickMod = d BY <1>1, <1>2
<1>4. (d + TickMod) % TickMod = d BY <1>1, <1>2
<1> QED BY <1>2, <1>3, <1>4 DEF Elapsed

\* Two ticks of one history are as far apart as their times, or a round more or less.
LEMMA Apart ==
    ASSUME NEW x \in Int, NEW y \in Int, NEW c \in Int, NEW a \in Int, Told(x, c), Told(y, a),
           StartTick \in Int, TickMod \in Int
    PROVE  x - y \in {c - a, (c - a) - TickMod, (c - a) + TickMod}
<1>1. x = StartTick + c \/ x = StartTick + c - TickMod BY DEF Told
<1>2. y = StartTick + a \/ y = StartTick + a - TickMod BY DEF Told
<1>3. CASE x = StartTick + c /\ y = StartTick + a BY <1>3
<1>4. CASE x = StartTick + c - TickMod /\ y = StartTick + a BY <1>4
<1>5. CASE x = StartTick + c /\ y = StartTick + a - TickMod BY <1>5
<1>6. CASE x = StartTick + c - TickMod /\ y = StartTick + a - TickMod BY <1>6
<1> QED BY <1>1, <1>2, <1>3, <1>4, <1>5, <1>6

-----------------------------------------------------------------------------
(* What is common to the steps.                                            *)

\* The parts of the invariant about frames, numbers and times.
DataInv == /\ NumberInv /\ PeekInv /\ QueueInOrder /\ HandedOverOnce
           /\ MaxTicks > 0 => TimeInv /\ StampInv /\ ReplyAfterRequest

\* The bounds, and the sequence without elements.
LEMMA Bounds ==
    /\ MaxFrames \in Nat /\ MaxTicks \in Nat /\ 0 \in 0..MaxTicks /\ 0 \in 0..MinusOne
    /\ 1 \in 1..(MaxFrames + 1)
    /\ <<>> \in Seq(Frames) /\ DOMAIN <<>> = {} /\ ToSet(<<>>) = {} /\ <<>> \o <<>> = <<>>
<1>1. <<>> \in Seq(Frames) OBVIOUS
<1>2. <<>> \o <<>> = <<>> BY <1>1, ConcatEmptySeq
<1>3. DOMAIN <<>> = {} OBVIOUS
<1>4. ToSet(<<>>) = {} BY <1>3 DEF ToSet
<1>5. MaxFrames \in Nat /\ MaxTicks \in Nat /\ 1 \in 1..(MaxFrames + 1) BY BoundAssumption
<1>6. 0 \in 0..MinusOne BY TickFacts
<1> QED BY <1>1, <1>2, <1>3, <1>4, <1>5, <1>6

\* Nothing is claimed of what has left the queue without being handed over.
LEMMA ThinnerQueue ==
    ASSUME IInv, ToSet(Pending') \subseteq ToSet(Pending), InOrder(Pending'),
           UNCHANGED <<m_next_rx_id, recv_frames, rd_request, sending_time, sent_at, now, clock>>,
           \A p \in Peekers : peeked'[p] \subseteq peeked[p]
    PROVE  DataInv'
<1>1. NumberInv' BY DEF IInv, NumberInv
<1>2. PeekInv' BY DEF IInv, PeekInv
<1>3. QueueInOrder' BY DEF InOrder, QueueInOrder
<1>4. HandedOverOnce' BY DEF IInv, HandedOverOnce
<1>5. MaxTicks > 0 => TimeInv' BY DEF IInv, TimeInv
<1>6. MaxTicks > 0 => ReplyAfterRequest' BY DEF IInv, ReplyAfterRequest, BeforeWrap
<1>7. MaxTicks > 0 => StampInv' BY DEF IInv, StampInv, Told
<1> QED BY <1>1, <1>2, <1>3, <1>4, <1>5, <1>6, <1>7 DEF DataInv

\* A step that changes none of it.
LEMMA SameQueue ==
    ASSUME IInv,
           UNCHANGED <<m_rx_list, data_list, m_next_rx_id, recv_frames, rd_request, sending_time,
                       sent_at, now, clock, peeked>>
    PROVE  DataInv'
<1>1. Pending' = Pending BY DEF Pending
<1>2. InOrder(Pending) BY DEF IInv, QueueInOrder, InOrder
<1> QED BY <1>1, <1>2, ThinnerQueue

\* The sequences of the state.
LEMMA Queues ==
    ASSUME IInv
    PROVE  m_rx_list \in Seq(Frames) /\ data_list \in Seq(Frames) /\ Pending \in Seq(Frames)
           /\ InOrder(Pending)
<1>1. m_rx_list \in Seq(Frames) /\ data_list \in Seq(Frames) BY DEF IInv, TypeOK
<1>2. Pending \in Seq(Frames) BY <1>1, ConcatProperties DEF Pending
<1> QED BY <1>1, <1>2 DEF IInv, QueueInOrder, InOrder

-----------------------------------------------------------------------------
(* The owner, and the steps of threads that leave the queue alone.         *)

\* Before Init nothing has been received or asked for.
LEMMA InitIInv == Init => IInv
<1> SUFFICES ASSUME Init PROVE IInv OBVIOUS
<1>1. TypeOK
  <2>1. now \in 0..MinusOne /\ clock \in 0..MaxTicks BY Bounds, TickFacts DEF Init
  <2>2. m_rx_list \in Seq(Frames) /\ data_list \in Seq(Frames) /\ m_next_rx_id \in 1..(MaxFrames + 1)
    BY Bounds DEF Init
  <2>3. recv_frames \in [Readers -> Seq(Frames)] BY Bounds DEF Init
  <2>4. /\ sending_time \in [Readers -> 0..MinusOne] /\ time_ent \in [Readers -> 0..MinusOne]
        /\ sent_at \in [Readers -> 0..MaxTicks]
    BY Bounds DEF Init
  <2>5. rd_pc \in [Readers -> ReaderStates] /\ response \in [Readers -> Responses]
    BY DEF Init, ReaderStates, Responses
  <2>7. /\ rd_request \in [Readers -> (UNION {Requests[r] : r \in Readers}) \cup {NoRequest}]
        /\ peeked \in [Peekers -> SUBSET (1..MaxFrames)]
    BY DEF Init
  <2>6. /\ life \in LifeStates /\ {m_inited, m_quit_rx_thread, m_quit_listen} \subseteq BOOLEAN
        /\ lock_peeker \in Readers \cup {Nobody} /\ rx_pc \in RxStates
    BY DEF Init, LifeStates, RxStates
  <2> QED BY <2>1, <2>2, <2>3, <2>4, <2>5, <2>6, <2>7 DEF TypeOK
<1>2. LifeInv BY DEF Init, LifeInv
<1>3. ReaderInv BY ReaderAssumption DEF Init, ReaderInv, NoRequest
<1>4. ToSet(Pending) = {} /\ DOMAIN Pending = {} BY Bounds DEF Init, Pending
<1>5. ToSet(<<>>) = {} BY Bounds
<1>6. NumberInv
  <2>0. \A r \in Readers : sent_at[r] = 0 /\ clock = 0 /\ recv_frames[r] = <<>> BY DEF Init
  <2>1. \A r \in Readers : sent_at[r] <= clock /\ ToSet(recv_frames[r]) = {} BY <1>5, <2>0
  <2>2. \A p \in Peekers : peeked[p] = {} BY DEF Init
  <2> QED BY <1>4, <2>1, <2>2 DEF NumberInv
<1>7. PeekInv /\ QueueInOrder BY <1>4 DEF PeekInv, QueueInOrder
<1>8. HandedOverOnce BY <1>5 DEF Init, HandedOverOnce
<1>9. TimeInv /\ StampInv /\ ReplyAfterRequest
  <2>0. now = StartTick /\ clock = 0 /\ StartTick \in Int
    <3>1. now = StartTick /\ clock = 0 BY DEF Init
    <3> QED BY <3>1, TickFacts
  <2>1. now = StartTick + clock BY <2>0
  <2>2. \A r \in Readers : ~rd_request[r].sends BY DEF Init, NoRequest
  <2> QED BY <1>4, <2>1, <2>2 DEF TimeInv, StampInv, Told, ReplyAfterRequest
<1> QED BY <1>1, <1>2, <1>3, <1>6, <1>7, <1>8, <1>9 DEF IInv

\* The invariant is about the state.
LEMMA StutterIInv == ASSUME IInv, UNCHANGED vars PROVE IInv'
<1> USE DEF vars, owner_vars, thread_vars, reader_vars, call_vars, time_vars
<1>1. TypeOK' BY DEF IInv, TypeOK
<1>2. LifeInv' BY DEF IInv, LifeInv
<1>3. ReaderInv' BY DEF IInv, ReaderInv
<1>4. DataInv' BY SameQueue
<1> QED BY <1>1, <1>2, <1>3, <1>4 DEF IInv, DataInv

\* A start finds the object as it was made.
LEMMA InitStartIInv == ASSUME IInv, InitStart PROVE IInv'
<1> USE DEF reader_vars, call_vars, time_vars
<1>0. TypeOK /\ LifeInv /\ ReaderInv /\ ~m_inited /\ m_rx_list = <<>> /\ data_list = <<>>
  BY DEF IInv, LifeInv, InitStart
<1>1. TypeOK'
  <2>1. m_next_rx_id' \in 1..(MaxFrames + 1) BY Bounds DEF InitStart
  <2> QED BY <1>0, <2>1 DEF InitStart, TypeOK, LifeStates, RxStates
<1>2. LifeInv' BY <1>0 DEF InitStart, LifeInv
<1>3. ReaderInv' BY <1>0 DEF InitStart, LifeInv, ReaderInv
<1>4. ToSet(Pending') = {} /\ DOMAIN Pending' = {}
  <2>1. m_rx_list' = <<>> /\ data_list' = <<>> BY <1>0 DEF InitStart
  <2>2. Pending' = <<>> BY <2>1, Bounds DEF Pending
  <2> QED BY <2>2, Bounds
<1>5. ToSet(<<>>) = {} BY Bounds
<1>6. \A r \in Readers : recv_frames'[r] = <<>> /\ ~rd_request'[r].sends
  <2>1. \A r \in Readers : rd_pc[r] = "idle" BY <1>0 DEF LifeInv
  <2>2. \A r \in Readers : recv_frames[r] = <<>> /\ rd_request[r] = NoRequest
    BY <1>0, <2>1 DEF ReaderInv
  <2>3. ~NoRequest.sends BY DEF NoRequest
  <2> QED BY <2>2, <2>3 DEF InitStart
<1>7. DataInv'
  <2>1. NumberInv' BY <1>0, <1>4, <1>5, <1>6 DEF InitStart, IInv, NumberInv, LifeInv
  <2>2. PeekInv' /\ QueueInOrder' BY <1>4 DEF PeekInv, QueueInOrder
  <2>3. HandedOverOnce' BY <1>5, <1>6 DEF HandedOverOnce
  <2>4. MaxTicks > 0 => TimeInv' /\ StampInv'
    BY <1>4, <1>6 DEF InitStart, IInv, TimeInv, StampInv, Told
  <2>5. ReplyAfterRequest' BY <1>6 DEF ReplyAfterRequest
  <2> QED BY <2>1, <2>2, <2>3, <2>4, <2>5 DEF DataInv
<1> QED BY <1>1, <1>2, <1>3, <1>7 DEF IInv, DataInv

\* The rest of the owner's steps tell the threads something.
LEMMA OwnerIInv == ASSUME IInv, Owner PROVE IInv'
<1> USE DEF thread_vars, reader_vars, call_vars, time_vars
<1>0. TypeOK /\ LifeInv /\ ReaderInv BY DEF IInv
<1>1. CASE InitStart BY <1>1, InitStartIInv
<1>2. CASE InitFinish
  <2>1. TypeOK' BY <1>0, <1>2 DEF InitFinish, TypeOK, LifeStates
  <2>2. LifeInv' BY <1>0, <1>2 DEF InitFinish, LifeInv
  <2>3. ReaderInv' BY <1>0, <1>2 DEF InitFinish, ReaderInv
  <2>4. DataInv' BY <1>2, SameQueue DEF InitFinish
  <2> QED BY <2>1, <2>2, <2>3, <2>4 DEF IInv, DataInv
<1>3. CASE QuitRxNow
  <2>1. TypeOK' BY <1>0, <1>3 DEF QuitRxNow, TypeOK
  <2>2. LifeInv' BY <1>0, <1>3 DEF QuitRxNow, LifeInv
  <2>3. ReaderInv' BY <1>0, <1>3 DEF QuitRxNow, ReaderInv
  <2>4. DataInv' BY <1>3, SameQueue DEF QuitRxNow
  <2> QED BY <2>1, <2>2, <2>3, <2>4 DEF IInv, DataInv
<1>4. CASE UninitStart
  <2>1. TypeOK' BY <1>0, <1>4 DEF UninitStart, TypeOK, LifeStates
  <2>2. LifeInv' BY <1>0, <1>4 DEF UninitStart, LifeInv
  <2>3. ReaderInv' BY <1>0, <1>4 DEF UninitStart, ReaderInv
  <2>4. DataInv' BY <1>4, SameQueue DEF UninitStart
  <2> QED BY <2>1, <2>2, <2>3, <2>4 DEF IInv, DataInv
<1>5. CASE UninitFinish
  <2>1. TypeOK' BY <1>0, <1>5 DEF UninitFinish, TypeOK, LifeStates
  <2>2. LifeInv' BY <1>0, <1>5 DEF UninitFinish, LifeInv
  <2>3. ReaderInv' BY <1>0, <1>5 DEF UninitFinish, ReaderInv
  <2>4. DataInv' BY <1>5, SameQueue DEF UninitFinish
  <2> QED BY <2>1, <2>2, <2>3, <2>4 DEF IInv, DataInv
<1> QED BY <1>1, <1>2, <1>3, <1>4, <1>5 DEF Owner

\* Time passes: what was past stays past, and the counter tells it or has fallen behind.
LEMMA TickIInv == ASSUME IInv, Tick PROVE IInv'
<1> USE DEF owner_vars, thread_vars, reader_vars, call_vars
<1>0. TypeOK /\ LifeInv /\ ReaderInv BY DEF IInv
<1>1. now \in 0..MinusOne /\ clock \in 0..MaxTicks BY <1>0 DEF TypeOK
<1>2. now' = IF now < MinusOne THEN now + 1 ELSE 0 BY <1>1, TickFacts DEF Tick
<1>3. now' \in 0..MinusOne BY <1>1, <1>2, TickFacts
<1>4. clock' \in 0..MaxTicks /\ clock <= clock' /\ (MaxTicks > 0 => clock' = clock + 1)
  BY <1>1, BoundAssumption DEF Tick
<1>5. TypeOK' BY <1>0, <1>3, <1>4 DEF Tick, TypeOK
<1>6. LifeInv' BY <1>0 DEF Tick, LifeInv
<1>7. ReaderInv' BY <1>0 DEF Tick, ReaderInv
<1>8. Pending' = Pending BY DEF Tick, Pending
<1>9. NumberInv'
  <2>1. \A f \in ToSet(Pending) : f.at \in Nat /\ f.at <= clock
    BY Queues, Members, FrameFacts DEF IInv, NumberInv
  <2>2. \A r \in Readers : sent_at[r] \in Nat /\ sent_at[r] <= clock
    BY <1>0, BoundAssumption DEF TypeOK, IInv, NumberInv
  <2>3. \A x \in Nat : x <= clock => x <= clock' BY <1>1, <1>4
  <2> QED BY <1>8, <2>1, <2>2, <2>3 DEF Tick, IInv, NumberInv
<1>10. PeekInv' BY <1>8 DEF Tick, IInv, PeekInv
<1>11. QueueInOrder' /\ HandedOverOnce' BY <1>8 DEF Tick, IInv, QueueInOrder, HandedOverOnce
<1>12. MaxTicks > 0 => TimeInv'
  <2> SUFFICES ASSUME MaxTicks > 0 PROVE TimeInv' OBVIOUS
  <2>1. CASE now < clock
    <3>1. now' < clock' BY <1>1, <1>2, <1>4, <2>1, TickFacts
    <3> QED BY <3>1 DEF TimeInv
  <2>2. CASE now >= clock /\ now < MinusOne
    <3>1. ~(now < clock) BY <1>1, <2>2
    <3>2. now' = StartTick + clock'
      <4>1. now = StartTick + clock BY <3>1 DEF IInv, TimeInv
      <4> QED BY <1>1, <1>2, <1>4, <2>2, <4>1, TickFacts
    <3> QED BY <1>8, <3>1, <3>2 DEF Tick, IInv, TimeInv
  <2>3. CASE ~(now < MinusOne)
    <3>1. now' < clock' BY <1>1, <1>2, <1>4, <2>3
    <3> QED BY <3>1 DEF TimeInv
  <2> QED BY <1>1, <2>1, <2>2, <2>3, TickFacts
<1>13. MaxTicks > 0 => ReplyAfterRequest'
  <2> SUFFICES ASSUME MaxTicks > 0, BeforeWrap' PROVE BeforeWrap
    BY DEF Tick, IInv, ReplyAfterRequest
  <2> QED BY <1>1, <1>2, <1>4, TickFacts DEF BeforeWrap
<1>14. MaxTicks > 0 => StampInv'
  <2> SUFFICES ASSUME MaxTicks > 0, MaxTicks < TickMod PROVE Told(now', clock')
    BY <1>8 DEF Tick, IInv, StampInv, Told
  <2>1. Told(now, clock) BY DEF IInv, StampInv
  <2> QED BY <1>1, <1>2, <1>4, <2>1, TickFacts, Bounds DEF Told
<1>15. DataInv' BY <1>9, <1>10, <1>11, <1>12, <1>13, <1>14 DEF DataInv
<1> QED BY <1>5, <1>6, <1>7, <1>15 DEF IInv, DataInv

-----------------------------------------------------------------------------
(* The rx thread.                                                          *)

\* The steps before anything is parsed.
LEMMA RxThreadWaitIInv == ASSUME IInv, RxThreadTest \/ RxThreadNothing \/ RxThreadJunk PROVE IInv'
<1> USE DEF owner_vars, reader_vars, call_vars, time_vars
<1>0. TypeOK /\ LifeInv /\ ReaderInv BY DEF IInv
<1>1. /\ UNCHANGED <<life, m_inited, m_quit_rx_thread, m_quit_listen, m_rx_list, m_next_rx_id,
                     lock_peeker, reader_vars, time_vars, peeked>>
      /\ data_list' = data_list /\ rx_pc' \in {"test", "recv", "gone", "clear"}
      /\ rx_pc \notin {"deliver", "gone"} /\ (rx_pc' # "test" => m_inited)
  <2>1. CASE RxThreadTest BY <1>0, <2>1 DEF RxThreadTest, LifeInv
  <2>2. CASE RxThreadNothing BY <1>0, <2>2 DEF RxThreadNothing, LifeInv
  <2>3. CASE RxThreadJunk BY <1>0, <2>3 DEF RxThreadJunk, LifeInv
  <2> QED BY <2>1, <2>2, <2>3
<1>2. TypeOK' BY <1>0, <1>1 DEF TypeOK, RxStates
<1>3. LifeInv' BY <1>0, <1>1 DEF LifeInv
<1>4. ReaderInv' BY <1>0, <1>1 DEF ReaderInv
<1>5. DataInv' BY <1>1, SameQueue
<1> QED BY <1>2, <1>3, <1>4, <1>5 DEF IInv, DataInv

\* What has been parsed is pending behind everything else.
LEMMA RxThreadParseIInv == ASSUME IInv, RxThreadParse PROVE IInv'
<1> USE DEF owner_vars, reader_vars, call_vars, time_vars
<1>0. TypeOK /\ LifeInv /\ ReaderInv BY DEF IInv
<1>1. PICK first \in Contents, second \in Contents, n \in 1..2 :
        /\ m_next_rx_id + n - 1 <= MaxFrames
        /\ data_list' = [i \in 1..n |-> RxData(IF i = 1 THEN first ELSE second, m_next_rx_id + i - 1)]
        /\ m_next_rx_id' = m_next_rx_id + n
  BY DEF RxThreadParse
<1>2. /\ rx_pc = "recv" /\ rx_pc' = "deliver"
      /\ UNCHANGED <<life, m_inited, m_quit_rx_thread, m_quit_listen, m_rx_list, lock_peeker,
                     reader_vars, time_vars, peeked>>
  BY DEF RxThreadParse
<1>3. /\ m_next_rx_id \in Nat /\ m_next_rx_id >= 1 /\ now \in 0..MinusOne /\ clock \in 0..MaxTicks
      /\ clock \in Nat /\ n \in Nat /\ n >= 1
  BY <1>0, Bounds DEF TypeOK
<1> DEFINE d == data_list'
           q == m_rx_list
           m == Len(m_rx_list)
<1>4. \A i \in 1..n : /\ d[i] \in Frames /\ d[i].id = m_next_rx_id + i - 1
                      /\ d[i].at = clock /\ d[i].ts = now
  <2> TAKE i \in 1..n
  <2> DEFINE c == IF i = 1 THEN first ELSE second
  <2>1. c \in Contents /\ c.short \in BOOLEAN BY ContentAssumption
  <2>2. d[i] = RxData(c, m_next_rx_id + i - 1) BY <1>1
  <2>3. m_next_rx_id + i - 1 \in 1..MaxFrames BY <1>1, <1>3, Bounds
  <2> HIDE DEF c
  <2> QED BY <1>3, <2>1, <2>2, <2>3 DEF RxData, Frames
<1>5. d \in Seq(Frames) /\ Len(d) = n
  <2>1. d \in [1..n -> Frames] BY <1>1, <1>4
  <2> QED BY <1>3, <2>1
<1>6. m_next_rx_id' \in 1..(MaxFrames + 1) BY <1>1, <1>3, Bounds
<1>7. TypeOK' BY <1>0, <1>2, <1>5, <1>6 DEF TypeOK, RxStates
<1>8. LifeInv' BY <1>0, <1>2 DEF LifeInv
<1>9. ReaderInv' BY <1>0, <1>2 DEF ReaderInv
<1>10. Pending = q /\ q \in Seq(Frames) /\ m \in Nat /\ DOMAIN q = 1..m
  <2>1. data_list = <<>> BY <1>0, <1>2 DEF LifeInv
  <2>2. m_rx_list \in Seq(Frames) BY Queues
  <2>3. Pending = m_rx_list BY <2>1, <2>2, ConcatEmptySeq DEF Pending
  <2> QED BY <2>2, <2>3
<1>11. /\ Pending' \in Seq(Frames) /\ Len(Pending') = m + n
       /\ \A k \in 1..m + n : Pending'[k] = IF k <= m THEN q[k] ELSE d[k - m]
  <2>1. Pending' = q \o d BY <1>2 DEF Pending
  <2> HIDE DEF d
  <2> QED BY <1>5, <1>10, <2>1, ConcatProperties
<1> HIDE DEF d, q, m
<1>12. \A f \in ToSet(Pending') : f \in ToSet(Pending) \/ \E i \in 1..n : f = d[i]
  <2> SUFFICES ASSUME NEW k \in 1..m + n
               PROVE  Pending'[k] \in ToSet(Pending) \/ \E i \in 1..n : Pending'[k] = d[i]
    <3>1. DOMAIN (Pending') = 1..m + n BY <1>11
    <3> QED BY <3>1 DEF ToSet
  <2>1. CASE k <= m
    <3>1. k \in 1..m /\ Pending'[k] = q[k] BY <1>10, <1>11, <2>1
    <3> QED BY <1>10, <3>1 DEF ToSet
  <2>2. CASE ~(k <= m)
    <3>1. k - m \in 1..n /\ Pending'[k] = d[k - m] BY <1>3, <1>10, <1>11, <2>2
    <3> QED BY <3>1
  <2> QED BY <2>1, <2>2
<1>13. NumberInv'
  <2>1. \A f \in ToSet(Pending) : f.id \in Nat /\ f.id < m_next_rx_id /\ f.at <= clock
    BY Queues, Members, FrameFacts DEF IInv, NumberInv
  <2>2. \A x \in Nat : x < m_next_rx_id => x < m_next_rx_id' BY <1>1, <1>3
  <2>3. \A i \in 1..n : d[i].id < m_next_rx_id' /\ d[i].at <= clock
    <3> TAKE i \in 1..n
    <3>1. m_next_rx_id + i - 1 < m_next_rx_id + n BY <1>3
    <3> QED BY <1>1, <1>3, <1>4, <3>1
  <2>4. \A f \in ToSet(Pending') : f.id < m_next_rx_id' /\ f.at <= clock'
    BY <1>2, <1>12, <2>1, <2>2, <2>3
  <2>5. \A r \in Readers : \A f \in ToSet(recv_frames[r]) : f.id \in Nat /\ f.id < m_next_rx_id
    BY <1>0, Members, FrameFacts DEF TypeOK, IInv, NumberInv
  <2>6. \A p \in Peekers : \A id \in peeked[p] : id \in Nat /\ id < m_next_rx_id
    BY <1>0, Bounds DEF TypeOK, IInv, NumberInv
  <2>7. \A r \in Readers : sent_at[r] <= clock BY DEF IInv, NumberInv
  <2> QED BY <1>2, <2>2, <2>4, <2>5, <2>6, <2>7 DEF NumberInv
<1>14. \A i \in 1..n : d[i].id >= m_next_rx_id
  <2> TAKE i \in 1..n
  <2>1. m_next_rx_id + i - 1 >= m_next_rx_id BY <1>3
  <2> QED BY <1>4, <2>1
<1>15. PeekInv'
  <2>1. \A p \in Peekers : \A i \in 1..n : d[i].id \notin peeked[p]
    <3> SUFFICES ASSUME NEW p \in Peekers, NEW i \in 1..n, d[i].id \in peeked[p] PROVE FALSE OBVIOUS
    <3>1. d[i].id \in Nat /\ d[i].id < m_next_rx_id BY <1>4, FrameFacts DEF IInv, NumberInv
    <3> QED BY <1>3, <1>14, <3>1
  <2> QED BY <1>2, <1>12, <2>1 DEF IInv, PeekInv
<1>16. QueueInOrder'
  <2>1. DOMAIN (Pending') = 1..m + n BY <1>11
  <2> SUFFICES ASSUME NEW i \in 1..m + n, NEW j \in 1..m + n, i < j
               PROVE  Pending'[i].id < Pending'[j].id /\ Pending'[i].at <= Pending'[j].at
    BY <2>1 DEF QueueInOrder
  <2>2. CASE j <= m
    <3>1. i \in 1..m /\ j \in 1..m /\ Pending'[i] = q[i] /\ Pending'[j] = q[j] BY <1>10, <1>11, <2>2
    <3> QED BY <1>10, <3>1 DEF IInv, QueueInOrder
  <2>3. CASE i <= m /\ ~(j <= m)
    <3>1. i \in 1..m /\ Pending'[i] = q[i] /\ j - m \in 1..n /\ Pending'[j] = d[j - m]
      BY <1>3, <1>10, <1>11, <2>3
    <3>2. q[i] \in ToSet(Pending) /\ q[i] \in Frames BY <1>10, <3>1, ElementOfSeq DEF ToSet
    <3>3. q[i].id \in Nat /\ q[i].id < m_next_rx_id /\ q[i].at <= clock
      BY <3>2, FrameFacts DEF IInv, NumberInv
    <3>4. d[j - m].id \in Nat /\ d[j - m].id >= m_next_rx_id /\ d[j - m].at = clock
      BY <1>4, <1>14, <3>1, FrameFacts
    <3> QED BY <1>3, <3>1, <3>3, <3>4
  <2>4. CASE ~(i <= m)
    <3>1. /\ i - m \in 1..n /\ Pending'[i] = d[i - m] /\ j - m \in 1..n /\ Pending'[j] = d[j - m]
          /\ i - m < j - m
      BY <1>3, <1>10, <1>11, <2>4
    <3>2. m_next_rx_id + (i - m) - 1 < m_next_rx_id + (j - m) - 1 BY <1>3, <3>1
    <3> QED BY <1>3, <1>4, <3>1, <3>2
  <2> QED BY <1>10, <2>2, <2>3, <2>4
<1>17. HandedOverOnce'
  <2>1. \A r \in Readers : \A f \in ToSet(recv_frames[r]) : \A i \in 1..n : d[i].id # f.id
    <3> SUFFICES ASSUME NEW r \in Readers, NEW f \in ToSet(recv_frames[r]), NEW i \in 1..n, d[i].id = f.id
                 PROVE  FALSE
      OBVIOUS
    <3>1. d[i].id \in Nat /\ d[i].id < m_next_rx_id BY <1>4, FrameFacts DEF IInv, NumberInv
    <3> QED BY <1>3, <1>14, <3>1
  <2> QED BY <1>2, <1>12, <2>1 DEF IInv, HandedOverOnce
<1>18. MaxTicks > 0 => TimeInv'
  <2>1. now = StartTick + clock => \A i \in 1..n : d[i].ts = StartTick + d[i].at BY <1>4
  <2> QED BY <1>2, <1>12, <2>1 DEF IInv, TimeInv
<1>19. MaxTicks > 0 => ReplyAfterRequest' BY <1>2 DEF IInv, ReplyAfterRequest, BeforeWrap
<1>20. MaxTicks > 0 => StampInv'
  <2>1. Told(now, clock) => \A i \in 1..n : Told(d[i].ts, d[i].at) BY <1>4
  <2> QED BY <1>2, <1>12, <2>1 DEF IInv, StampInv, Told
<1>21. DataInv' BY <1>13, <1>15, <1>16, <1>17, <1>18, <1>19, <1>20 DEF DataInv
<1> QED BY <1>7, <1>8, <1>9, <1>21 DEF IInv, DataInv

\* The splice leaves what is pending as it is.
LEMMA RxThreadDeliverIInv == ASSUME IInv, RxThreadDeliver PROVE IInv'
<1> USE DEF owner_vars, reader_vars, call_vars, time_vars
<1>0. TypeOK /\ LifeInv /\ ReaderInv BY DEF IInv
<1>1. m_rx_list' = Pending /\ Pending \in Seq(Frames) /\ InOrder(Pending) /\ data_list' = <<>>
  BY Queues DEF RxThreadDeliver, Pending
<1>2. /\ rx_pc = "deliver" /\ rx_pc' = "clear"
      /\ UNCHANGED <<life, m_inited, m_quit_rx_thread, m_quit_listen, m_next_rx_id, lock_peeker,
                     reader_vars, time_vars, peeked>>
  BY DEF RxThreadDeliver
<1>3. TypeOK' BY <1>0, <1>1, <1>2, Bounds DEF TypeOK, RxStates
<1>4. LifeInv' BY <1>0, <1>1, <1>2 DEF LifeInv
<1>5. ReaderInv' BY <1>0, <1>2 DEF ReaderInv
<1>6. Pending' = Pending
  <2>1. Pending' = m_rx_list' \o data_list' BY DEF Pending
  <2> QED BY <1>1, <2>1, ConcatEmptySeq
<1>7. DataInv' BY <1>1, <1>2, <1>6, ThinnerQueue
<1> QED BY <1>3, <1>4, <1>5, <1>7 DEF IInv, DataInv

\* ClearOldFrames takes from the front.
LEMMA RxThreadClearIInv == ASSUME IInv, RxThreadClear PROVE IInv'
<1> USE DEF owner_vars, reader_vars, call_vars, time_vars
<1>0. TypeOK /\ LifeInv /\ ReaderInv BY DEF IInv
<1>1. /\ rx_pc = "clear" /\ rx_pc' = "test" /\ m_rx_list' = ClearOldFrames(m_rx_list, now)
      /\ UNCHANGED <<life, m_inited, m_quit_rx_thread, m_quit_listen, data_list, m_next_rx_id,
                     lock_peeker, reader_vars, time_vars, peeked>>
  BY DEF RxThreadClear
<1>2. data_list = <<>> /\ m_inited BY <1>0, <1>1 DEF LifeInv
<1>3. m_rx_list \in Seq(Frames) /\ Pending = m_rx_list /\ InOrder(m_rx_list)
  BY <1>2, Queues, ConcatEmptySeq DEF Pending
<1>4. /\ m_rx_list' \in Seq(Frames) /\ InOrder(m_rx_list')
      /\ ToSet(m_rx_list') \subseteq ToSet(m_rx_list)
  <2>1. CASE m_rx_list' = <<>>
    <3>1. InOrder(<<>>) BY Bounds DEF InOrder
    <3> QED BY <2>1, <3>1, Bounds
  <2>2. CASE \E i \in 1..Len(m_rx_list) : m_rx_list' = SubSeq(m_rx_list, i, Len(m_rx_list))
    BY <1>3, <2>2, Rest
  <2> QED BY <1>1, <1>3, <2>1, <2>2, Cleared
<1>5. TypeOK' BY <1>0, <1>1, <1>4 DEF TypeOK, RxStates
<1>6. LifeInv' BY <1>0, <1>1, <1>2 DEF LifeInv
<1>7. ReaderInv' BY <1>0, <1>1 DEF ReaderInv
<1>8. Pending' = m_rx_list'
  <2>1. Pending' = m_rx_list' \o data_list' BY DEF Pending
  <2> QED BY <1>1, <1>2, <1>4, <2>1, ConcatEmptySeq
<1>9. DataInv' BY <1>1, <1>3, <1>4, <1>8, ThinnerQueue
<1> QED BY <1>5, <1>6, <1>7, <1>9 DEF IInv, DataInv

-----------------------------------------------------------------------------
(* The readers.                                                            *)

\* A reader between calls, or at the beginning of one, has no frames; what an application call
\* has read of the time is the time.
LEMMA FreshReader ==
    ASSUME IInv, NEW r \in Readers,
           UNCHANGED <<m_rx_list, data_list, m_next_rx_id, now, clock, peeked>>,
           recv_frames' = [recv_frames EXCEPT ![r] = <<>>],
           \A s \in Readers \ {r} : /\ rd_request'[s] = rd_request[s] /\ sent_at'[s] = sent_at[s]
                                    /\ sending_time'[s] = sending_time[s],
           sent_at'[r] <= clock,
           rd_request'[r].sends => sent_at'[r] = clock /\ sending_time'[r] = now
    PROVE  DataInv'
<1>1. Pending' = Pending BY DEF Pending
<1>2. recv_frames'[r] = <<>> /\ ToSet(recv_frames'[r]) = {}
      /\ \A s \in Readers \ {r} : recv_frames'[s] = recv_frames[s]
  <2>1. recv_frames'[r] = <<>> /\ \A s \in Readers \ {r} : recv_frames'[s] = recv_frames[s]
    BY DEF IInv, TypeOK
  <2> QED BY <2>1, Bounds
<1>3. NumberInv' BY <1>1, <1>2 DEF IInv, NumberInv
<1>4. PeekInv' BY <1>1, <1>2 DEF IInv, PeekInv, NumberInv
<1>5. QueueInOrder' BY <1>1 DEF IInv, QueueInOrder
<1>6. HandedOverOnce' BY <1>1, <1>2 DEF IInv, HandedOverOnce
<1>7. MaxTicks > 0 => TimeInv' BY <1>1 DEF IInv, TimeInv
<1>8. MaxTicks > 0 => ReplyAfterRequest' BY <1>2 DEF IInv, ReplyAfterRequest, BeforeWrap
<1>9. MaxTicks > 0 => StampInv' BY <1>1 DEF IInv, StampInv, Told
<1> QED BY <1>3, <1>4, <1>5, <1>6, <1>7, <1>8, <1>9 DEF DataInv

\* An application call begins with the peeker's lock, a listener without it.
LEMMA ReaderBeginIInv ==
    ASSUME IInv, NEW r \in Readers, NEW request \in Requests[r], ReaderBegin(r, request)
    PROVE  IInv'
<1> USE DEF owner_vars, thread_vars, time_vars
<1>0. TypeOK /\ LifeInv /\ ReaderInv BY DEF IInv
<1>1. /\ rd_pc[r] = "idle" /\ m_inited
      /\ rd_request' = [rd_request EXCEPT ![r] = request]
      /\ recv_frames' = [recv_frames EXCEPT ![r] = <<>>]
      /\ response' = [response EXCEPT ![r] = "UNDEFINED"] /\ sent_at' = [sent_at EXCEPT ![r] = clock]
      /\ UNCHANGED <<life, m_inited, m_quit_rx_thread, m_quit_listen, rx_pc, data_list, m_next_rx_id,
                     now, clock, m_rx_list, peeked>>
  BY DEF ReaderBegin
<1>2. request.sends \in BOOLEAN BY RequestAssumption
<1>3. CASE request.sends
  <2>1. /\ lock_peeker = Nobody /\ lock_peeker' = r /\ sending_time' = [sending_time EXCEPT ![r] = now]
        /\ rd_pc' = [rd_pc EXCEPT ![r] = "send"] /\ time_ent' = time_ent
    BY <1>3 DEF ReaderBegin
  <2>2. \A s \in Readers : /\ rd_request'[s] = IF s = r THEN request ELSE rd_request[s]
                           /\ rd_pc'[s] = IF s = r THEN "send" ELSE rd_pc[s]
                           /\ recv_frames'[s] = IF s = r THEN <<>> ELSE recv_frames[s]
                           /\ sent_at'[s] = IF s = r THEN clock ELSE sent_at[s]
                           /\ sending_time'[s] = IF s = r THEN now ELSE sending_time[s]
    BY <1>0, <1>1, <2>1 DEF TypeOK
  <2>3. TypeOK'
    <3>1. /\ rd_request' \in [Readers -> (UNION {Requests[q] : q \in Readers}) \cup {NoRequest}]
          /\ response' \in [Readers -> Responses] /\ rd_pc' \in [Readers -> ReaderStates]
      BY <1>0, <1>1, <2>1 DEF TypeOK, Responses, ReaderStates
    <3>2. recv_frames' \in [Readers -> Seq(Frames)] BY <1>0, <1>1, Bounds DEF TypeOK
    <3>3. sent_at' \in [Readers -> 0..MaxTicks] /\ sending_time' \in [Readers -> 0..MinusOne]
      BY <1>0, <1>1, <2>1 DEF TypeOK
    <3> QED BY <1>0, <1>1, <2>1, <3>1, <3>2, <3>3 DEF TypeOK
  <2>4. LifeInv' BY <1>0, <1>1 DEF LifeInv
  <2>5. ReaderInv' BY <1>0, <1>3, <2>1, <2>2, ReaderAssumption DEF ReaderInv
  <2>6. DataInv'
    <3>1. clock <= clock BY <1>0, Bounds DEF TypeOK
    <3> QED BY <1>1, <2>2, <3>1, FreshReader
  <2> QED BY <2>3, <2>4, <2>5, <2>6 DEF IInv, DataInv
<1>4. CASE ~request.sends
  <2>1. /\ lock_peeker' = lock_peeker /\ sending_time' = [sending_time EXCEPT ![r] = MinusOne]
        /\ rd_pc' = [rd_pc EXCEPT ![r] = "scan"] /\ time_ent' = [time_ent EXCEPT ![r] = now]
    BY <1>4 DEF ReaderBegin
  <2>2. \A s \in Readers : /\ rd_request'[s] = IF s = r THEN request ELSE rd_request[s]
                           /\ rd_pc'[s] = IF s = r THEN "scan" ELSE rd_pc[s]
                           /\ recv_frames'[s] = IF s = r THEN <<>> ELSE recv_frames[s]
                           /\ sent_at'[s] = IF s = r THEN clock ELSE sent_at[s]
                           /\ s # r => sending_time'[s] = sending_time[s]
    BY <1>0, <1>1, <2>1 DEF TypeOK
  <2>3. TypeOK'
    <3>0. MinusOne \in 0..MinusOne BY TickFacts
    <3>1. /\ rd_request' \in [Readers -> (UNION {Requests[q] : q \in Readers}) \cup {NoRequest}]
          /\ response' \in [Readers -> Responses] /\ rd_pc' \in [Readers -> ReaderStates]
      BY <1>0, <1>1, <2>1 DEF TypeOK, Responses, ReaderStates
    <3>2. recv_frames' \in [Readers -> Seq(Frames)] BY <1>0, <1>1, Bounds DEF TypeOK
    <3>3. sent_at' \in [Readers -> 0..MaxTicks] /\ sending_time' \in [Readers -> 0..MinusOne]
      BY <1>0, <1>1, <2>1, <3>0 DEF TypeOK
    <3>4. time_ent' \in [Readers -> 0..MinusOne] BY <1>0, <2>1 DEF TypeOK
    <3> QED BY <1>0, <1>1, <2>1, <3>1, <3>2, <3>3, <3>4 DEF TypeOK
  <2>4. LifeInv' BY <1>0, <1>1 DEF LifeInv
  <2>5. ReaderInv'
    <3>1. ~rd_request[r].sends BY <1>0, <1>1 DEF ReaderInv, NoRequest
    <3> QED BY <1>0, <1>4, <2>1, <2>2, <3>1 DEF ReaderInv
  <2>6. DataInv'
    <3>1. clock <= clock BY <1>0, Bounds DEF TypeOK
    <3> QED BY <1>1, <1>4, <2>2, <3>1, FreshReader
  <2> QED BY <2>3, <2>4, <2>5, <2>6 DEF IInv, DataInv
<1> QED BY <1>2, <1>3, <1>4

\* A reader that goes on has what it had.
LEMMA ReaderWaitIInv ==
    ASSUME IInv, NEW r \in Readers, ReaderEnter(r) \/ ReaderTimeout(r)
           \/ (ReaderScan(r) /\ UNCHANGED <<m_rx_list, recv_frames>>)
    PROVE  IInv'
<1> USE DEF owner_vars, thread_vars, time_vars, call_vars
<1>0. TypeOK /\ LifeInv /\ ReaderInv BY DEF IInv
<1>1. /\ rd_pc[r] # "idle" /\ \E c \in ReaderStates \ {"idle"} : rd_pc' = [rd_pc EXCEPT ![r] = c]
      /\ time_ent' = time_ent \/ time_ent' = [time_ent EXCEPT ![r] = now]
      /\ response' = response \/ \E a \in Responses : response' = [response EXCEPT ![r] = a]
      /\ UNCHANGED <<life, m_inited, m_quit_rx_thread, m_quit_listen, rx_pc, data_list, m_next_rx_id,
                     rd_request, sending_time, sent_at, recv_frames, now, clock, m_rx_list,
                     lock_peeker, peeked>>
  <2>1. CASE ReaderEnter(r) BY <2>1 DEF ReaderEnter, ReaderStates
  <2>2. CASE ReaderTimeout(r) BY <2>2 DEF ReaderTimeout, Answer, ReaderStates, Responses
  <2>3. CASE ReaderScan(r) /\ UNCHANGED <<m_rx_list, recv_frames>>
    BY <2>3 DEF ReaderScan, Take, Answer, ReaderStates, Responses
  <2> QED BY <2>1, <2>2, <2>3
<1>2. \A s \in Readers : rd_pc'[s] = "idle" <=> rd_pc[s] = "idle" BY <1>0, <1>1 DEF TypeOK
<1>3. TypeOK'
  <2>1. rd_pc' \in [Readers -> ReaderStates] BY <1>0, <1>1 DEF TypeOK
  <2>2. time_ent' \in [Readers -> 0..MinusOne] BY <1>0, <1>1 DEF TypeOK
  <2>3. response' \in [Readers -> Responses] BY <1>0, <1>1 DEF TypeOK
  <2> QED BY <1>0, <1>1, <2>1, <2>2, <2>3 DEF TypeOK
<1>4. LifeInv' BY <1>0, <1>1, <1>2 DEF LifeInv
<1>5. ReaderInv' BY <1>0, <1>1, <1>2 DEF ReaderInv
<1>6. DataInv' BY <1>1, SameQueue
<1> QED BY <1>3, <1>4, <1>5, <1>6 DEF IInv, DataInv

\* A frame goes from the queue to the reader: it is the only one with its number, and for an
\* application call it has come in time.
LEMMA ReaderTakeIInv ==
    ASSUME IInv, NEW r \in Readers, ReaderScan(r), ~m_quit_listen,
           FirstAccepted(m_rx_list, rd_request[r], sending_time[r]) # 0
    PROVE  IInv'
<1> USE DEF owner_vars, thread_vars, time_vars, call_vars
<1>0. TypeOK /\ LifeInv /\ ReaderInv BY DEF IInv
<1> DEFINE i == FirstAccepted(m_rx_list, rd_request[r], sending_time[r])
           f == m_rx_list[i]
<1>1. i \in 1..Len(m_rx_list) /\ ~TooEarly(f, sending_time[r]) BY Queues, Accepted
<1>2. /\ rd_pc[r] = "scan" /\ Take(r, i)
      /\ UNCHANGED <<life, m_inited, m_quit_rx_thread, m_quit_listen, rx_pc, data_list, m_next_rx_id,
                     rd_request, sending_time, sent_at, now, clock, lock_peeker, peeked>>
  BY DEF ReaderScan
<1> HIDE DEF i
<1>3. /\ m_rx_list' = RemoveAt(m_rx_list, i)
      /\ recv_frames' = recv_frames \/ recv_frames' = [recv_frames EXCEPT ![r] = Append(recv_frames[r], f)]
      /\ \E c \in ReaderStates \ {"idle"} : rd_pc' = [rd_pc EXCEPT ![r] = c]
      /\ time_ent' = time_ent \/ time_ent' = [time_ent EXCEPT ![r] = now]
      /\ response' = response \/ \E a \in Responses : response' = [response EXCEPT ![r] = a]
  BY <1>1, <1>2 DEF Take, Answer, ReaderStates, Responses
<1>4. /\ m_rx_list' \in Seq(Frames) /\ InOrder(Pending') /\ ToSet(Pending') \subseteq ToSet(Pending)
      /\ f \in Frames /\ f \in ToSet(Pending) /\ \A g \in ToSet(Pending') : g.id # f.id
  <2>1. InOrder(m_rx_list \o data_list) BY Queues DEF Pending
  <2>2. Pending' = RemoveAt(m_rx_list, i) \o data_list BY <1>2, <1>3 DEF Pending
  <2> QED BY <1>1, <1>3, <2>1, <2>2, Queues, TakenFrame DEF Pending
<1> HIDE DEF f
<1>5. recv_frames' \in [Readers -> Seq(Frames)]
  <2>1. recv_frames[r] \in Seq(Frames) BY <1>0 DEF TypeOK
  <2>2. Append(recv_frames[r], f) \in Seq(Frames) BY <1>4, <2>1, AppendProperties
  <2> QED BY <1>0, <1>3, <2>2 DEF TypeOK
<1>6. \A s \in Readers : \A g \in ToSet(recv_frames'[s]) :
         g \in ToSet(recv_frames[s]) \/ (s = r /\ g = f)
  <2>1. CASE recv_frames' = recv_frames BY <2>1
  <2>2. CASE recv_frames' = [recv_frames EXCEPT ![r] = Append(recv_frames[r], f)]
    <3>1. \A s \in Readers \ {r} : recv_frames'[s] = recv_frames[s] BY <1>0, <2>2 DEF TypeOK
    <3>2. recv_frames'[r] = Append(recv_frames[r], f) /\ recv_frames[r] \in Seq(Frames)
      BY <1>0, <2>2 DEF TypeOK
    <3>3. \A g \in ToSet(Append(recv_frames[r], f)) : g \in ToSet(recv_frames[r]) \/ g = f
      <4> DEFINE s == recv_frames[r]
      <4>1. /\ Append(s, f) \in Seq(Frames) /\ Len(Append(s, f)) = Len(s) + 1
            /\ \A k \in 1..Len(s) : Append(s, f)[k] = s[k]
            /\ Append(s, f)[Len(s) + 1] = f
        BY <1>4, <3>2, AppendProperties
      <4>2. Len(s) \in Nat /\ DOMAIN s = 1..Len(s) BY <3>2
      <4> SUFFICES ASSUME NEW k \in 1..Len(s) + 1
                   PROVE  Append(s, f)[k] \in ToSet(s) \/ Append(s, f)[k] = f
        BY <4>1 DEF ToSet
      <4> HIDE DEF s
      <4>3. k \in 1..Len(s) \/ k = Len(s) + 1 BY <4>2
      <4>4. CASE k \in 1..Len(s) BY <4>1, <4>2, <4>4 DEF ToSet
      <4>5. CASE k = Len(s) + 1 BY <4>1, <4>5
      <4> QED BY <4>3, <4>4, <4>5
    <3> QED BY <3>1, <3>2, <3>3
  <2> QED BY <1>3, <2>1, <2>2
<1>7. \A s \in Readers : rd_pc'[s] = "idle" <=> rd_pc[s] = "idle" BY <1>0, <1>2, <1>3 DEF TypeOK
<1>8. TypeOK'
  <2>1. rd_pc' \in [Readers -> ReaderStates] BY <1>0, <1>3 DEF TypeOK
  <2>2. time_ent' \in [Readers -> 0..MinusOne] BY <1>0, <1>2, <1>3 DEF TypeOK
  <2>3. response' \in [Readers -> Responses] BY <1>0, <1>3 DEF TypeOK
  <2> QED BY <1>0, <1>2, <1>4, <1>5, <2>1, <2>2, <2>3 DEF TypeOK
<1>9. LifeInv'
  <2>1. m_inited BY <1>0, <1>2 DEF LifeInv
  <2> QED BY <1>0, <1>2, <2>1 DEF LifeInv
<1>10. ReaderInv'
  <2>1. \A s \in Readers : s # r => recv_frames'[s] = recv_frames[s] BY <1>0, <1>3 DEF TypeOK
  <2> QED BY <1>0, <1>2, <1>7, <2>1 DEF ReaderInv
<1>11. NumberInv' BY <1>2, <1>4, <1>6 DEF IInv, NumberInv
<1>12. PeekInv' BY <1>2, <1>4 DEF IInv, PeekInv
<1>13. QueueInOrder' BY <1>4 DEF QueueInOrder, InOrder
<1>14. HandedOverOnce'
  <2>1. \A s \in Readers : \A g \in ToSet(recv_frames[s]) : g.id # f.id
    BY <1>4 DEF IInv, HandedOverOnce
  <2> QED BY <1>4, <1>6, <2>1 DEF IInv, HandedOverOnce
<1>15. MaxTicks > 0 => TimeInv' BY <1>2, <1>4 DEF IInv, TimeInv
<1>16. MaxTicks > 0 => ReplyAfterRequest'
  <2> SUFFICES ASSUME MaxTicks > 0, BeforeWrap, rd_request[r].sends
               PROVE  f.at >= sent_at[r] + ResponseTime
    BY <1>2, <1>6 DEF IInv, ReplyAfterRequest, BeforeWrap
  <2>1. /\ now \in 0..MinusOne /\ clock \in Nat /\ sent_at[r] \in Nat
        /\ sending_time[r] \in 0..MinusOne /\ f.at \in Nat /\ f.ts \in 0..MinusOne
    BY <1>0, <1>4, Bounds, FrameFacts DEF TypeOK
  <2>2. clock <= now /\ now < MinusOne BY DEF BeforeWrap
  <2>3. ~(now < clock) BY <2>1, <2>2, TickFacts
  <2>4. /\ now = StartTick + clock /\ f.ts = StartTick + f.at
        /\ sending_time[r] = StartTick + sent_at[r] /\ sent_at[r] <= clock
    BY <1>4, <2>3 DEF IInv, TimeInv, NumberInv
  <2>5. sending_time[r] # MinusOne BY <2>1, <2>2, <2>4, TickFacts
  <2>6. /\ ~(f.ts < sending_time[r]) /\ ~(Elapsed(f.ts, sending_time[r]) < ResponseTime)
    BY <1>1, <2>5 DEF TooEarly, f
  <2>7. sending_time[r] <= f.ts BY <2>1, <2>6, TickFacts
  <2>8. Elapsed(f.ts, sending_time[r]) = f.ts - sending_time[r] BY <2>1, <2>7, TickFacts
  <2>9. ResponseTime \in Int /\ StartTick \in Int BY TickAssumption, TickFacts
  <2> QED BY <2>1, <2>4, <2>6, <2>8, <2>9
<1>17. MaxTicks > 0 => StampInv' BY <1>2, <1>4 DEF IInv, StampInv, Told
<1>18. DataInv' BY <1>11, <1>12, <1>13, <1>14, <1>15, <1>16, <1>17 DEF DataInv
<1> QED BY <1>8, <1>9, <1>10, <1>18 DEF IInv, DataInv

\* A search hands over a frame, or leaves all as it is.
LEMMA ReaderScanIInv == ASSUME IInv, NEW r \in Readers, ReaderScan(r) PROVE IInv'
<1>1. CASE m_quit_listen \/ FirstAccepted(m_rx_list, rd_request[r], sending_time[r]) = 0
  <2>1. UNCHANGED <<m_rx_list, recv_frames>> BY <1>1 DEF ReaderScan, Take
  <2> QED BY <2>1, ReaderWaitIInv
<1>2. CASE ~(m_quit_listen \/ FirstAccepted(m_rx_list, rd_request[r], sending_time[r]) = 0)
  BY <1>2, ReaderTakeIInv
<1> QED BY <1>1, <1>2

\* The reader deletes what it was given and gives the lock back.
LEMMA ReaderReturnIInv == ASSUME IInv, NEW r \in Readers, ReaderReturn(r) PROVE IInv'
<1> USE DEF owner_vars, thread_vars, time_vars
<1>0. TypeOK /\ LifeInv /\ ReaderInv BY DEF IInv
<1>1. /\ rd_pc[r] = "return" /\ rd_pc' = [rd_pc EXCEPT ![r] = "idle"]
      /\ rd_request' = [rd_request EXCEPT ![r] = NoRequest]
      /\ recv_frames' = [recv_frames EXCEPT ![r] = <<>>]
      /\ sending_time' = [sending_time EXCEPT ![r] = 0] /\ time_ent' = [time_ent EXCEPT ![r] = 0]
      /\ sent_at' = [sent_at EXCEPT ![r] = 0] /\ response' = [response EXCEPT ![r] = "UNDEFINED"]
      /\ lock_peeker' = IF rd_request[r].sends THEN Nobody ELSE lock_peeker
      /\ UNCHANGED <<life, m_inited, m_quit_rx_thread, m_quit_listen, rx_pc, data_list, m_next_rx_id,
                     now, clock, m_rx_list, peeked>>
  BY DEF ReaderReturn
<1>2. \A s \in Readers : /\ rd_request'[s] = IF s = r THEN NoRequest ELSE rd_request[s]
                         /\ rd_pc'[s] = IF s = r THEN "idle" ELSE rd_pc[s]
                         /\ recv_frames'[s] = IF s = r THEN <<>> ELSE recv_frames[s]
                         /\ sent_at'[s] = IF s = r THEN 0 ELSE sent_at[s]
                         /\ s # r => sending_time'[s] = sending_time[s]
  BY <1>0, <1>1 DEF TypeOK
<1>3. ~NoRequest.sends BY DEF NoRequest
<1>4. TypeOK'
  <2>1. /\ rd_request' \in [Readers -> (UNION {Requests[q] : q \in Readers}) \cup {NoRequest}]
        /\ response' \in [Readers -> Responses] /\ rd_pc' \in [Readers -> ReaderStates]
    BY <1>0, <1>1 DEF TypeOK, Responses, ReaderStates
  <2>2. recv_frames' \in [Readers -> Seq(Frames)] BY <1>0, <1>1, Bounds DEF TypeOK
  <2>3. /\ sent_at' \in [Readers -> 0..MaxTicks] /\ sending_time' \in [Readers -> 0..MinusOne]
        /\ time_ent' \in [Readers -> 0..MinusOne]
    BY <1>0, <1>1, Bounds DEF TypeOK
  <2>4. lock_peeker' \in Readers \cup {Nobody} BY <1>0, <1>1 DEF TypeOK
  <2> QED BY <1>0, <1>1, <2>1, <2>2, <2>3, <2>4 DEF TypeOK
<1>5. LifeInv'
  <2>1. m_inited BY <1>0, <1>1 DEF LifeInv
  <2> QED BY <1>0, <1>1, <2>1 DEF LifeInv
<1>6. ReaderInv' BY <1>0, <1>1, <1>2, <1>3, ReaderAssumption DEF ReaderInv
<1>7. DataInv'
  <2>1. 0 <= clock BY <1>0, Bounds DEF TypeOK
  <2> QED BY <1>1, <1>2, <1>3, <2>1, FreshReader
<1> QED BY <1>4, <1>5, <1>6, <1>7 DEF IInv, DataInv

-----------------------------------------------------------------------------
(* The peekers.                                                            *)

\* While a peeker looks, no application call is in progress.
LEMMA FramePeekerIInv == ASSUME IInv, NEW p \in Peekers, NEW filter, FramePeeker(p, filter) PROVE IInv'
<1> USE DEF owner_vars, thread_vars, reader_vars, call_vars, time_vars
<1>0. TypeOK /\ LifeInv /\ ReaderInv BY DEF IInv
<1> DEFINE ids == {f.id : f \in {g \in ToSet(m_rx_list) : filter \in {DontCare, g.type}}}
<1>1. /\ m_inited /\ lock_peeker = Nobody /\ peeked' = [peeked EXCEPT ![p] = ids]
      /\ UNCHANGED <<owner_vars, thread_vars, reader_vars, time_vars, m_rx_list, lock_peeker>>
  BY DEF FramePeeker
<1>2. Pending' = Pending BY <1>1 DEF Pending
<1>3. \A f \in ToSet(m_rx_list) : f \in Frames /\ f \in ToSet(Pending)
  <2> SUFFICES ASSUME NEW k \in 1..Len(m_rx_list)
               PROVE  m_rx_list[k] \in Frames /\ m_rx_list[k] \in ToSet(Pending)
    BY Queues, Members
  <2>1. /\ Len(Pending) = Len(m_rx_list) + Len(data_list) /\ Pending \in Seq(Frames)
        /\ \A j \in 1..Len(m_rx_list) + Len(data_list) :
              Pending[j] = IF j <= Len(m_rx_list) THEN m_rx_list[j] ELSE data_list[j - Len(m_rx_list)]
    BY Queues, ConcatProperties DEF Pending
  <2>2. Len(m_rx_list) \in Nat /\ Len(data_list) \in Nat BY Queues
  <2>3. k \in 1..Len(m_rx_list) + Len(data_list) /\ Pending[k] = m_rx_list[k] BY <2>1, <2>2
  <2>4. DOMAIN Pending = 1..Len(m_rx_list) + Len(data_list) BY <2>1
  <2> QED BY <2>3, <2>4, Queues, ElementOfSeq DEF ToSet
<1>4. \A id \in ids : \E f \in ToSet(Pending) : f \in Frames /\ f.id = id BY <1>3
<1>5. ids \subseteq 1..MaxFrames BY <1>4 DEF Frames
<1>6. \A id \in ids : id < m_next_rx_id BY <1>4 DEF IInv, NumberInv
<1> HIDE DEF ids
<1>7. TypeOK' BY <1>0, <1>1, <1>5 DEF TypeOK
<1>8. LifeInv' BY <1>0, <1>1 DEF LifeInv
<1>9. ReaderInv' BY <1>0, <1>1 DEF ReaderInv
<1>10. NumberInv'
  <2>1. \A s \in Peekers : \A id \in peeked'[s] : id \in peeked[s] \/ id \in ids
    BY <1>0, <1>1 DEF TypeOK
  <2> QED BY <1>1, <1>2, <1>6, <2>1 DEF IInv, NumberInv
<1>11. PeekInv'
  <2>1. \A r \in Readers : ~rd_request'[r].sends BY <1>0, <1>1, ReaderAssumption DEF ReaderInv
  <2> QED BY <2>1 DEF PeekInv
<1>12. QueueInOrder' /\ HandedOverOnce' BY <1>1, <1>2 DEF IInv, QueueInOrder, HandedOverOnce
<1>13. MaxTicks > 0 => TimeInv' /\ StampInv' /\ ReplyAfterRequest'
  BY <1>1, <1>2 DEF IInv, TimeInv, StampInv, Told, ReplyAfterRequest, BeforeWrap
<1> QED BY <1>7, <1>8, <1>9, <1>10, <1>11, <1>12, <1>13 DEF IInv

\* A frame that is removed was peeked at; the others stay in order.
LEMMA RemoveIInv ==
    ASSUME IInv, NEW p \in Peekers, NEW id \in peeked[p], NEW dies \in BOOLEAN,
           RemoveFrameFromRxQueue(p, id, dies)
    PROVE  IInv'
<1> USE DEF owner_vars, thread_vars, reader_vars, call_vars, time_vars
<1>0. TypeOK /\ LifeInv /\ ReaderInv BY DEF IInv
<1>1. /\ m_rx_list' = RemoveFrame(m_rx_list, id) /\ peeked' = [peeked EXCEPT ![p] = peeked[p] \ {id}]
      /\ (life' = life /\ rx_pc' = rx_pc) \/ (life' = "crashed" /\ rx_pc' = "gone")
      /\ UNCHANGED <<m_inited, m_quit_rx_thread, m_quit_listen, data_list, m_next_rx_id,
                     reader_vars, time_vars, lock_peeker>>
  BY DEF RemoveFrameFromRxQueue
<1>2. m_inited BY <1>0 DEF LifeInv
<1>3. /\ m_rx_list' \in Seq(Frames) /\ InOrder(Pending') /\ ToSet(Pending') \subseteq ToSet(Pending)
  <2>1. Pending' = m_rx_list' \o data_list BY <1>1 DEF Pending
  <2>2. CASE m_rx_list' = m_rx_list
    <3>1. Pending' = Pending BY <2>1, <2>2 DEF Pending
    <3> QED BY <2>2, <3>1, Queues
  <2>3. CASE \E i \in 1..Len(m_rx_list) : m_rx_list' = RemoveAt(m_rx_list, i)
    <3>1. PICK i \in 1..Len(m_rx_list) : m_rx_list' = RemoveAt(m_rx_list, i) BY <2>3
    <3>2. InOrder(m_rx_list \o data_list) BY Queues DEF Pending
    <3> QED BY <2>1, <3>1, <3>2, Queues, TakenFrame DEF Pending
  <2> QED BY <1>1, <2>2, <2>3, Queues, RemovedFrame
<1>4. \A s \in Peekers : peeked'[s] \subseteq peeked[s] BY <1>0, <1>1 DEF TypeOK
<1>5. TypeOK'
  <2>1. peeked' \in [Peekers -> SUBSET (1..MaxFrames)] BY <1>0, <1>1 DEF TypeOK
  <2>2. life' \in LifeStates /\ rx_pc' \in RxStates BY <1>0, <1>1 DEF TypeOK, LifeStates, RxStates
  <2> QED BY <1>0, <1>1, <1>3, <2>1, <2>2 DEF TypeOK
<1>6. LifeInv' BY <1>0, <1>1, <1>2 DEF LifeInv
<1>7. ReaderInv' BY <1>0, <1>1 DEF ReaderInv
<1>8. DataInv' BY <1>1, <1>3, <1>4, ThinnerQueue
<1> QED BY <1>5, <1>6, <1>7, <1>8 DEF IInv, DataInv

-----------------------------------------------------------------------------
(* The theorems.                                                           *)

\* IInv holds in every reachable state, for every set of readers and peekers: types, what there
\* can be before Init of CommBase is through, who has m_mutex4lock_peeker, and the numbers and
\* times of all frames that are pending, handed over or peeked at.
THEOREM Invariance == Spec => []IInv
<1>1. IInv /\ [Next]_vars => IInv'
  <2> SUFFICES ASSUME IInv, [Next]_vars PROVE IInv' OBVIOUS
  <2>1. CASE Tick BY <2>1, TickIInv
  <2>2. CASE Owner BY <2>2, OwnerIInv
  <2>3. CASE RxThread
    BY <2>3, RxThreadWaitIInv, RxThreadParseIInv, RxThreadDeliverIInv, RxThreadClearIInv DEF RxThread
  <2>4. ASSUME NEW r \in Readers, Reader(r) PROVE IInv'
    <3>1. ASSUME NEW request \in Requests[r], ReaderBegin(r, request) PROVE IInv'
      BY <3>1, ReaderBeginIInv
    <3>2. CASE ReaderEnter(r) \/ ReaderTimeout(r) BY <3>2, ReaderWaitIInv
    <3>3. CASE ReaderScan(r) BY <3>3, ReaderScanIInv
    <3>4. CASE ReaderReturn(r) BY <3>4, ReaderReturnIInv
    <3> QED BY <2>4, <3>1, <3>2, <3>3, <3>4 DEF Reader
  <2>5. ASSUME NEW p \in Peekers, Peeker(p) PROVE IInv'
    BY <2>5, FramePeekerIInv, RemoveIInv DEF Peeker
  <2>6. CASE UNCHANGED vars BY <2>6, StutterIInv
  <2> QED BY <2>1, <2>2, <2>3, <2>4, <2>5, <2>6 DEF Next
<1> QED BY <1>1, InitIInv, PTL DEF Spec

\* Whatever readers, peekers and ClearOldFrames take out of m_rx_list, and however the threads
\* interleave, it stays in the order of arrival, and what is being parsed comes behind it.
THEOREM OrderTheorem == Spec => []QueueInOrder
<1>1. IInv => QueueInOrder BY DEF IInv
<1> QED BY <1>1, Invariance, PTL

\* A frame that rx_sync or rx_sync_ex hands over has left the queue and goes to nobody else.
THEOREM HandOverTheorem == Spec => []HandedOverOnce
<1>1. IInv => HandedOverOnce BY DEF IInv
<1> QED BY <1>1, Invariance, PTL

\* When the history has a clock: until the tick counter wraps, a call that has sent a request is
\* handed nothing that came before it, or sooner after it than the configured delay.
THEOREM ReplyTheorem == ASSUME MaxTicks > 0 PROVE Spec => []ReplyAfterRequest
<1>1. IInv => ReplyAfterRequest BY DEF IInv
<1> QED BY <1>1, Invariance, PTL

\* With a delay configured, RemoveFrameFromRxQueue never takes the reply of a call in progress:
\* the frames a peeker can name were queued before the call took m_mutex4lock_peeker.
THEOREM PeekerTheorem == ASSUME ResponseTime > 0 PROVE Spec => PeekerNeverSteals
<1> DEFINE Spared == \A r \in Readers : \A f \in ToSet(m_rx_list) :
                        peeked' # peeked /\ Answers(f, r) => f \in ToSet(m_rx_list')
<1>1. IInv /\ [Next]_vars => Spared
  <2> SUFFICES ASSUME IInv, [Next]_vars, NEW r \in Readers, NEW f \in ToSet(m_rx_list),
                      peeked' # peeked, Answers(f, r)
               PROVE  f \in ToSet(m_rx_list')
    OBVIOUS
  <2>1. PICK p \in Peekers : Peeker(p)
    <3> USE DEF owner_vars, thread_vars, reader_vars, call_vars, time_vars
    <3>1. ~Tick BY DEF Tick
    <3>2. ~Owner BY DEF Owner, InitStart, InitFinish, QuitRxNow, UninitStart, UninitFinish
    <3>3. ~RxThread
      BY DEF RxThread, RxThreadTest, RxThreadNothing, RxThreadJunk, RxThreadParse, RxThreadDeliver,
             RxThreadClear
    <3>4. \A s \in Readers : ~Reader(s)
      BY DEF Reader, ReaderBegin, ReaderEnter, ReaderScan, ReaderTimeout, ReaderReturn
    <3>5. ~UNCHANGED vars BY DEF vars
    <3> QED BY <3>1, <3>2, <3>3, <3>4, <3>5 DEF Next
  <2>2. CASE \E filter \in {DontCare} \cup {c.type : c \in Contents} : FramePeeker(p, filter)
    BY <2>2 DEF FramePeeker
  <2>3. CASE \E id \in peeked[p], dies \in BOOLEAN : RemoveFrameFromRxQueue(p, id, dies)
    <3>1. PICK id \in peeked[p] : m_rx_list' = RemoveFrame(m_rx_list, id)
      BY <2>3 DEF RemoveFrameFromRxQueue
    <3>2. CASE m_rx_list' = m_rx_list BY <3>2
    <3>3. ASSUME NEW i \in 1..Len(m_rx_list), m_rx_list[i].id = id,
                 m_rx_list' = RemoveAt(m_rx_list, i)
          PROVE  f \in ToSet(m_rx_list')
      <4>1. InOrder(m_rx_list \o data_list) BY Queues DEF Pending
      <4>2. /\ m_rx_list[i] \in ToSet(Pending) /\ m_rx_list[i] \in Frames
            /\ f # m_rx_list[i] => f \in ToSet(m_rx_list')
        BY <3>3, <4>1, Queues, TakenFrame DEF Pending
      <4>3. rd_request[r].sends /\ f.at >= sent_at[r] + ResponseTime BY DEF Answers
      <4>4. m_rx_list[i].at <= sent_at[r] BY <3>3, <4>2, <4>3 DEF IInv, PeekInv
      <4>5. sent_at[r] \in Nat /\ m_rx_list[i].at \in Nat /\ ResponseTime \in Int
        BY <4>2, Bounds, FrameFacts, TickAssumption DEF IInv, TypeOK
      <4>6. f # m_rx_list[i] BY <4>3, <4>4, <4>5
      <4> QED BY <4>2, <4>6
    <3> QED BY <3>1, <3>2, <3>3, Queues, RemovedFrame
  <2> QED BY <2>1, <2>2, <2>3 DEF Peeker
<1> QED BY <1>1, Invariance, PTL DEF Spec, PeekerNeverSteals

\* In a history shorter than a round of the tick counter, which may begin anywhere and wrap,
\* ClearOldFrames deletes what is as old as LifeTime and nothing else: the ticks give the age of
\* a frame, and behind the first young one there are only younger ones.
THEOREM AgeTheorem == ASSUME MaxTicks > 0, MaxTicks < TickMod PROVE Spec => ClearedByAge
<1> DEFINE Judged(n) == /\ m_rx_list' = SubSeq(m_rx_list, n + 1, Len(m_rx_list))
                        /\ \A i \in DOMAIN m_rx_list : i > n <=> TrueAge(m_rx_list[i]) < LifeTime
           Cleans == rx_pc = "clear" /\ rx_pc' = "test" => \E n \in 0..Len(m_rx_list) : Judged(n)
<1>1. IInv /\ [Next]_vars => Cleans
  <2> SUFFICES ASSUME IInv, [Next]_vars, rx_pc = "clear", rx_pc' = "test"
               PROVE  \E n \in 0..Len(m_rx_list) : Judged(n)
    OBVIOUS
  <2>1. m_rx_list' = ClearOldFrames(m_rx_list, now)
    <3> USE DEF owner_vars, thread_vars, reader_vars, call_vars, time_vars
    <3>1. ~Tick BY DEF Tick
    <3>2. ~Owner
      BY DEF Owner, InitStart, InitFinish, QuitRxNow, UninitStart, UninitFinish, IInv, LifeInv
    <3>3. \A s \in Readers : ~Reader(s)
      BY DEF Reader, ReaderBegin, ReaderEnter, ReaderScan, ReaderTimeout, ReaderReturn
    <3>4. \A p \in Peekers : ~Peeker(p) BY DEF Peeker, FramePeeker, RemoveFrameFromRxQueue
    <3>5. ~UNCHANGED vars BY DEF vars
    <3>6. RxThread BY <3>1, <3>2, <3>3, <3>4, <3>5 DEF Next
    <3> QED BY <3>6 DEF RxThread, RxThreadTest, RxThreadNothing, RxThreadJunk, RxThreadParse,
                        RxThreadDeliver, RxThreadClear
  <2>2. m_rx_list \in Seq(Frames) /\ Pending = m_rx_list /\ InOrder(m_rx_list)
    <3>1. data_list = <<>> BY DEF IInv, LifeInv
    <3> QED BY <3>1, Queues, ConcatEmptySeq DEF Pending
  <2>3. DOMAIN m_rx_list = 1..Len(m_rx_list) /\ Len(m_rx_list) \in Nat BY <2>2
  <2>4. \A i \in 1..Len(m_rx_list) :
           /\ m_rx_list[i].at \in Nat /\ m_rx_list[i].at <= clock
           /\ Expired(m_rx_list[i], now) <=> ~(TrueAge(m_rx_list[i]) < LifeTime)
    <3> TAKE i \in 1..Len(m_rx_list)
    <3> DEFINE f == m_rx_list[i]
    <3>1. f \in Frames /\ f \in ToSet(Pending) BY <2>2, <2>3, ElementOfSeq DEF ToSet
    <3> HIDE DEF f
    <3>2. /\ f.at \in Nat /\ f.ts \in 0..MinusOne /\ f.at <= clock
          /\ now \in 0..MinusOne /\ clock \in Nat /\ clock <= MaxTicks
      BY <3>1, FrameFacts, Bounds DEF IInv, NumberInv, TypeOK
    <3>3. Told(now, clock) /\ Told(f.ts, f.at) BY <3>1 DEF IInv, StampInv
    <3>4. Elapsed(now, f.ts) = clock - f.at
      <4> DEFINE d == clock - f.at
      <4>1. d \in Nat /\ d < TickMod BY <3>2, TickFacts, Bounds
      <4>2. now - f.ts \in {d, d - TickMod, d + TickMod}
        <5>1. StartTick \in Int /\ TickMod \in Int BY TickFacts
        <5>2. now \in Int /\ f.ts \in Int /\ clock \in Int /\ f.at \in Int BY <3>2
        <5> QED BY <3>3, <5>1, <5>2, Apart
      <4> HIDE DEF d
      <4>3. Elapsed(now, f.ts) = d BY <3>2, <4>1, <4>2, Lap
      <4> QED BY <4>3 DEF d
    <3>5. LifeTime \in Int BY TickAssumption
    <3> QED BY <3>2, <3>4, <3>5 DEF Expired, TrueAge, f
  <2>5. \A i, j \in 1..Len(m_rx_list) : i <= j => TrueAge(m_rx_list[j]) <= TrueAge(m_rx_list[i])
    <3> SUFFICES ASSUME NEW i \in 1..Len(m_rx_list), NEW j \in 1..Len(m_rx_list), i <= j
                 PROVE  clock - m_rx_list[j].at <= clock - m_rx_list[i].at
      BY DEF TrueAge
    <3>1. m_rx_list[i].at <= m_rx_list[j].at
      <4>1. CASE i = j BY <2>4, <4>1
      <4>2. CASE i < j BY <2>2, <2>3, <4>2 DEF InOrder
      <4> QED BY <4>1, <4>2
    <3>2. clock \in Nat BY Bounds DEF IInv, TypeOK
    <3> QED BY <2>4, <3>1, <3>2
  <2>6. CASE m_rx_list' = <<>> /\ \A i \in 1..Len(m_rx_list) : Expired(m_rx_list[i], now)
    <3>1. SubSeq(m_rx_list, Len(m_rx_list) + 1, Len(m_rx_list)) = <<>> BY <2>3, SubSeqEmpty
    <3>2. Judged(Len(m_rx_list)) BY <2>3, <2>4, <2>6, <3>1
    <3> QED BY <2>3, <3>2
  <2>7. ASSUME NEW i \in 1..Len(m_rx_list), m_rx_list' = SubSeq(m_rx_list, i, Len(m_rx_list)),
               ~Expired(m_rx_list[i], now),
               \A j \in 1..Len(m_rx_list) : j < i => Expired(m_rx_list[j], now)
        PROVE  \E n \in 0..Len(m_rx_list) : Judged(n)
    <3>1. (i - 1) + 1 = i /\ i - 1 \in 0..Len(m_rx_list) BY <2>3
    <3>2. \A j \in 1..Len(m_rx_list) : j > i - 1 <=> TrueAge(m_rx_list[j]) < LifeTime
      <4> TAKE j \in 1..Len(m_rx_list)
      <4>1. CASE j < i
        <5>1. ~(j > i - 1) BY <2>3, <4>1
        <5> QED BY <2>4, <2>7, <4>1, <5>1
      <4>2. CASE i <= j
        <5>1. j > i - 1 BY <2>3, <4>2
        <5>2. TrueAge(m_rx_list[j]) <= TrueAge(m_rx_list[i]) BY <2>5, <4>2
        <5>3. TrueAge(m_rx_list[i]) < LifeTime BY <2>4, <2>7
        <5>4. /\ TrueAge(m_rx_list[i]) \in Int /\ TrueAge(m_rx_list[j]) \in Int /\ LifeTime \in Int
          BY <2>4, Bounds, TickAssumption DEF TrueAge, IInv, TypeOK
        <5> QED BY <5>1, <5>2, <5>3, <5>4
      <4> QED BY <2>3, <4>1, <4>2
    <3>3. Judged(i - 1) BY <2>3, <2>7, <3>1, <3>2
    <3> QED BY <3>1, <3>3
  <2> QED BY <2>1, <2>2, <2>6, <2>7, Cleared
<1> QED BY <1>1, Invariance, PTL DEF Spec, ClearedByAge
=============================================================================
