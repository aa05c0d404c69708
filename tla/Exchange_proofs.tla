-------------------------- MODULE Exchange_proofs ---------------------------
(***************************************************************************)
(* Exchange, for any processes, threads, devices and requests, whatever is *)
(* lost or late: a call has m_mutex_objs from its first step to its last,  *)
(* so that the address it has given the device ffffffff stays, and no      *)
(* device acts twice on a request, whoever serves it.                      *)
(*                                                                         *)
(* One lemma per group of conjuncts of IInv, one case per action.          *)
(***************************************************************************)
EXTENDS Exchange, ListLemmas

-----------------------------------------------------------------------------
(* Devices, and what they do with a request.                               *)

\* The constants, but for the last devices of processes.
LEMMA Constants ==
    /\ Nobody \notin App \cup Node /\ App \cap Node = {}
    /\ AppNode \in [App -> Node] /\ Host \in [App -> Address] /\ Home \in [Device -> Node]
    /\ MaxCalls \in Nat /\ IsFiniteSet(Device) /\ Joined \subseteq Device
BY ExchangeAssumption

\* The device ffffffff of a process is a device of that process, and no other's.
LEMMA SpecialHome ==
    ASSUME NEW n \in Node
    PROVE  Special(n) \in Device /\ Home[Special(n)] = n
<1>1. \E d \in At(n) : \A e \in At(n) : e <= d
  BY ExchangeAssumption DEF At
<1>2. Special(n) \in At(n)
  BY <1>1 DEF Special
<1>. QED BY <1>2 DEF At

\* A frame changes and renames devices of the process that acts on it; it renames
\* ordinary ones.
LEMMA Targets ==
    ASSUME NEW n \in Node, NEW f
    PROVE  /\ Written(n, f) \subseteq At(n) /\ Renamed(n, f) \subseteq Ordinary(n)
           /\ Written(n, f) # {} => f.type \in Writes
           /\ Renamed(n, f) # {} => f.type \in Renames
<1>1. Written(n, f) \subseteq At(n) /\ (Written(n, f) # {} => f.type \in Writes)
  BY Constants DEF Written, WriteTargets, ForcedTargets, GroupTargets, Addressed, WithAddress, Writes
<1>2. Renamed(n, f) \subseteq Ordinary(n) /\ (Renamed(n, f) # {} => f.type \in Renames)
  BY DEF Renamed, AddressTargets, SerialTargets, Renames
<1>. QED BY <1>1, <1>2

\* No frame renames the device ffffffff.
LEMMA SpecialKept ==
    ASSUME NEW n \in Node, NEW m \in Node, NEW f, Respond(n, f)
    PROVE  addr'[Special(m)] = addr[Special(m)]
<1>1. Special(m) \notin Renamed(n, f)
  BY SpecialHome, Targets DEF Ordinary, At
<1>. QED BY <1>1, SpecialHome DEF Respond

\* What is answered is no request, and of its own call; a long answer is in the name of
\* a device of the process, and says of it what Holds gives.
Holds(f, d) ==
    IF f.type \in {"IndividualAddress_Read", "SerialNumber_Read"} THEN NoValue ELSE mem[d][f.item]
ReplyOK(n, f, r) ==
    /\ r.call = f.call /\ r.type \notin RequestTypes
    /\ ~IsShort(r) => /\ r.by \in At(n) /\ r.from = addr[r.by] /\ r.val = Holds(f, r.by)
                      /\ f.type \notin Writes \cup Renames

LEMMA ShortOK ==
    ASSUME NEW n, NEW f, NEW type \in {"ACK", "NACK"}
    PROVE  ReplyOK(n, f, Short(f, type, n))
<1>1. Short(f, type, n).call = f.call /\ Short(f, type, n).type = type
  BY DEF Short, Frame
<1>2. type \notin RequestTypes /\ type \in {"ACK"} \cup Refusals
  BY DEF RequestTypes, Refusals
<1>. QED BY <1>1, <1>2 DEF ReplyOK, IsShort

LEMMA LongOK ==
    ASSUME NEW n, NEW f, NEW d \in At(n), NEW type, type \notin RequestTypes, NEW to,
           f.type \notin Writes \cup Renames
    PROVE  ReplyOK(n, f, Frame(f.call, type, addr[d], to, f.item, Holds(f, d), d))
BY DEF ReplyOK, Frame

LEMMA ReplyFacts ==
    ASSUME NEW n \in Node, NEW f, NEW r \in Replies(n, f)
    PROVE  ReplyOK(n, f, r)
<1>1. ASSUME NEW answer, answer \notin RequestTypes, r \in ReadReplies(n, f, answer),
             f.type \in {"PropertyValue_Read", "Property_Read", "Authorize_Request", "Link_Read"}
      PROVE  ReplyOK(n, f, r)
  <2>1. \/ r = Short(f, "NACK", n)
        \/ \E d \in At(n) : r = Frame(f.call, answer, addr[d], f.from, f.item, Holds(f, d), d)
    BY <1>1 DEF ReadReplies, Addressed, WithAddress, Holds
  <2>2. f.type \notin Writes \cup Renames
    BY <1>1 DEF Writes, Renames
  <2>. QED BY <1>1, <2>1, <2>2, ShortOK, LongOK
<1>2. CASE f.type \in {"PropertyValue_Write", "Property_Write", "Link_Write", "UserMemory_Write"}
  <2>1. r \in {Short(f, "NACK", n), Short(f, "ACK", n)}
    BY <1>2 DEF Replies, Acknowledged
  <2>. QED BY <2>1, ShortOK
<1>3. ASSUME NEW d \in At(n), NEW to,
             NEW type \in {"UserMemory_Response", "GroupValue_Response",
                           "IndividualAddress_Response", "SerialNumber_Response"},
             r = Frame(f.call, type, addr[d], to, f.item, Holds(f, d), d),
             f.type \in {"UserMemory_Read", "GroupValue_Read", "IndividualAddress_Read",
                         "SerialNumber_Read"}
      PROVE  ReplyOK(n, f, r)
  <2>1. f.type \notin Writes \cup Renames /\ type \notin RequestTypes
    BY <1>3 DEF Writes, Renames, RequestTypes
  <2>. QED BY <1>3, <2>1, LongOK
<1>4. CASE f.type = "UserMemory_Read"
  <2>1. r \in MemoryReplies(n, f)
    BY <1>4 DEF Replies
  <2>2. \E d \in At(n) : r = Frame(f.call, "UserMemory_Response", addr[d], f.from, f.item, Holds(f, d), d)
    BY <1>4, <2>1 DEF MemoryReplies, Addressed, WithAddress, Holds
  <2>. QED BY <1>3, <1>4, <2>2
<1>5. CASE f.type = "GroupValue_Read"
  <2>1. r \in GroupReplies(n, f)
    BY <1>5 DEF Replies
  <2>2. \E d \in At(n) :
          r = Frame(f.call, "GroupValue_Response", addr[d], f.to, f.item, Holds(f, d), d)
    BY <1>5, <2>1 DEF GroupReplies, Ordinary, Holds
  <2>. QED BY <1>3, <1>5, <2>2
<1>6. CASE f.type = "IndividualAddress_Read"
  <2>1. r \in AddressReplies(n, f)
    BY <1>6 DEF Replies
  <2>2. \E d \in At(n) :
          r = Frame(f.call, "IndividualAddress_Response", addr[d], f.from, f.item, Holds(f, d), d)
    BY <1>6, <2>1 DEF AddressReplies, Ordinary, Holds
  <2>. QED BY <1>3, <1>6, <2>2
<1>7. CASE f.type = "SerialNumber_Read"
  <2>1. r \in SerialReplies(n, f)
    BY <1>7 DEF Replies
  <2>2. \E d \in At(n) :
          r = Frame(f.call, "SerialNumber_Response", addr[d], f.from, f.item, Holds(f, d), d)
    BY <1>7, <2>1 DEF SerialReplies, Ordinary, Holds
  <2>. QED BY <1>3, <1>7, <2>2
<1>8. CASE f.type = "PropertyValue_Read"
  BY <1>1, <1>8 DEF Replies, RequestTypes
<1>9. CASE f.type = "Property_Read"
  BY <1>1, <1>9 DEF Replies, RequestTypes
<1>10. CASE f.type = "Authorize_Request"
  BY <1>1, <1>10 DEF Replies, RequestTypes
<1>11. CASE f.type = "Link_Read"
  BY <1>1, <1>11 DEF Replies, RequestTypes
<1>. QED BY <1>2, <1>4, <1>5, <1>6, <1>7, <1>8, <1>9, <1>10, <1>11 DEF Replies

\* A device of the process acts once on a frame.
LEMMA MarksApart ==
    ASSUME NEW n \in Node, NEW f
    PROVE  /\ \A m \in Marks(n, f) : m.by \in At(n)
           /\ \A m, k \in Marks(n, f) : m.by = k.by => m = k
           /\ IsFiniteSet(Marks(n, f))
<1>. DEFINE long == {q \in Replies(n, f) : ~IsShort(q)}
            A == {[by |-> r.by, val |-> r.val] : r \in long}
            B == {[by |-> d, val |-> f.val] : d \in Written(n, f) \cup Renamed(n, f)}
<1>1. Marks(n, f) = A \cup B
  BY DEF Marks
<1>2. /\ \A m \in A : m.by \in At(n)
      /\ \A m, k \in A : m.by = k.by => m = k
      /\ f.type \in Writes \cup Renames => A = {}
  BY ReplyFacts DEF ReplyOK
<1>3. /\ \A m \in B : m.by \in At(n)
      /\ \A m, k \in B : m.by = k.by => m = k
      /\ B # {} => f.type \in Writes \cup Renames
  BY Targets DEF Ordinary
<1>. HIDE DEF A, B
<1>4. /\ \A m \in Marks(n, f) : m.by \in At(n)
      /\ \A m, k \in Marks(n, f) : m.by = k.by => m = k
  BY <1>1, <1>2, <1>3
<1>5. [m \in Marks(n, f) |-> m.by] \in Injection(Marks(n, f), Device)
  BY <1>4 DEF Injection, IsInjective, At
<1>6. IsFiniteSet(Marks(n, f))
  BY <1>5, FS_Injection, Constants
<1>. QED BY <1>4, <1>6

-----------------------------------------------------------------------------
(* What a step leaves of the queues, the net and the history.              *)

\* A place a search in the queue names holds a frame of the kind searched for.
LEMMA FirstRequestFacts ==
    ASSUME TypeOK, NEW n \in Node, FirstRequest(n) # 0
    PROVE  FirstRequest(n) \in DOMAIN rx[n] /\ rx[n][FirstRequest(n)].frame.type \in RequestTypes
<1>. DEFINE I == {i \in 1..Len(rx[n]) : rx[n][i].frame.type \in RequestTypes}
<1>1. FirstRequest(n) = IF I # {} THEN Min(I) ELSE 0
  BY DEF FirstRequest, SelectInSeq
<1>2. I # {} => Min(I) \in I
  <2>1. I \in SUBSET Nat
    OBVIOUS
  <2>. HIDE DEF I
  <2>. QED BY <2>1, MinOfSet
<1>3. DOMAIN rx[n] = 1..Len(rx[n])
  BY DEF TypeOK
<1>. QED BY <1>1, <1>2, <1>3

LEMMA FirstAnswerFacts ==
    ASSUME TypeOK, NEW a \in App, FirstAnswer(a) # 0
    PROVE  LET e == rx[AppNode[a]][FirstAnswer(a)] IN
           /\ FirstAnswer(a) \in DOMAIN rx[AppNode[a]]
           /\ e.fresh /\ RightAddresses(a, e.frame) /\ Lets(req[a].service, e.frame.type)
<1>. DEFINE q == rx[AppNode[a]]
            I == {i \in 1..Len(q) : /\ q[i].fresh /\ RightAddresses(a, q[i].frame)
                                    /\ Lets(req[a].service, q[i].frame.type)}
<1>1. FirstAnswer(a) = IF I # {} THEN Min(I) ELSE 0
  BY DEF FirstAnswer, SelectInSeq
<1>2. I # {} => Min(I) \in I
  <2>1. I \in SUBSET Nat
    OBVIOUS
  <2>. HIDE DEF I
  <2>. QED BY <2>1, MinOfSet
<1>3. DOMAIN q = 1..Len(q)
  BY DEF TypeOK
<1>. QED BY <1>1, <1>2, <1>3

\* A search that finds none: there is none.
LEMMA NoAnswerFacts ==
    ASSUME TypeOK, NEW a \in App, FirstAnswer(a) = 0, NEW i \in DOMAIN rx[AppNode[a]]
    PROVE  LET e == rx[AppNode[a]][i] IN
           ~(e.fresh /\ RightAddresses(a, e.frame) /\ Lets(req[a].service, e.frame.type))
<1>. DEFINE q == rx[AppNode[a]]
            I == {j \in 1..Len(q) : /\ q[j].fresh /\ RightAddresses(a, q[j].frame)
                                    /\ Lets(req[a].service, q[j].frame.type)}
<1>1. FirstAnswer(a) = IF I # {} THEN Min(I) ELSE 0
  BY DEF FirstAnswer, SelectInSeq
<1>2. I # {} => Min(I) \in I
  <2>1. I \in SUBSET Nat
    OBVIOUS
  <2>. HIDE DEF I
  <2>. QED BY <2>1, MinOfSet
<1>3. AppNode[a] \in Node
  BY Constants
<1>4. DOMAIN q = 1..Len(q)
  BY <1>3, OwnElements DEF TypeOK
<1>5. 0 \notin I
  BY <1>3, OwnElements DEF TypeOK
<1>6. I = {}
  BY <1>1, <1>2, <1>5
<1>. QED BY <1>4, <1>6

\* Every frame in a queue after a step was in it before, at a place of its own, and no older.
Thins(g) ==
    /\ g \in [Node -> [Nat -> Nat]]
    /\ \A m \in Node : \A i \in DOMAIN rx'[m] :
         /\ g[m][i] \in DOMAIN rx[m] /\ rx'[m][i].frame = rx[m][g[m][i]].frame
         /\ rx'[m][i].fresh => rx[m][g[m][i]].fresh
         /\ IsEntry(rx'[m][i])
    /\ \A m \in Node : \A i, j \in DOMAIN rx'[m] : g[m][i] = g[m][j] => i = j

QueuesOK == DOMAIN rx = Node /\ \A m \in Node : rx[m] \in Seq(Range(rx[m]))

LEMMA QueueFacts ==
    ASSUME TypeOK, NEW n \in Node
    PROVE  DOMAIN rx[n] = 1..Len(rx[n]) /\ Len(rx[n]) \in Nat
BY OwnElements DEF TypeOK

LEMMA SameQueues ==
    ASSUME IInv, rx' = rx
    PROVE  QueuesOK' /\ Thins([m \in Node |-> [i \in Nat |-> i]])
<1>1. QueuesOK'
  BY DEF IInv, TypeOK, QueuesOK
<1>2. \A m \in Node : DOMAIN rx[m] \subseteq Nat
  BY QueueFacts DEF IInv
<1>. QED BY <1>1, <1>2 DEF Thins, IInv, FrameInv

\* The frame in place k of a queue leaves it.
Shift(n, k) == [m \in Node |-> [i \in Nat |-> IF m = n /\ i >= k THEN i + 1 ELSE i]]

LEMMA LeftQueue ==
    ASSUME IInv, NEW n \in Node, NEW k \in DOMAIN rx[n],
           rx' = [rx EXCEPT ![n] = RemoveAt(@, k)]
    PROVE  /\ QueuesOK' /\ Thins(Shift(n, k))
           /\ \A i \in DOMAIN rx'[n] : Shift(n, k)[n][i] # k
<1>1. /\ DOMAIN rx = Node /\ rx[n] \in Seq(Range(rx[n]))
      /\ DOMAIN rx[n] = 1..Len(rx[n]) /\ Len(rx[n]) \in Nat
  BY QueueFacts DEF IInv, TypeOK
<1>0. k \in 1..Len(rx[n]) /\ k \in Nat
  BY <1>1
<1>. DEFINE s == RemoveAt(rx[n], k)
<1>2. /\ s \in Seq(Range(rx[n])) /\ Len(s) = Len(rx[n]) - 1
      /\ \A i \in 1..Len(rx[n]) - 1 : s[i] = IF i < k THEN rx[n][i] ELSE rx[n][i + 1]
  BY <1>0, <1>1, Removed
<1>3. s \in Seq(Range(s)) /\ DOMAIN s = 1..Len(rx[n]) - 1
  BY <1>2, OwnElements
<1>4. rx'[n] = s /\ DOMAIN rx' = Node /\ \A m \in Node : m # n => rx'[m] = rx[m]
  BY <1>1
<1>. HIDE DEF s
<1>5. QueuesOK'
  BY <1>3, <1>4 DEF QueuesOK, IInv, TypeOK
<1>6. \A m \in Node : DOMAIN rx[m] \subseteq Nat
  BY QueueFacts DEF IInv
<1>7. \A m \in Node : \A i \in DOMAIN rx[m] :
        IsEntry(rx[m][i])
  BY DEF IInv, FrameInv
<1>. DEFINE g == Shift(n, k)
<1>8. /\ g \in [Node -> [Nat -> Nat]]
      /\ \A i \in Nat : g[n][i] = IF i >= k THEN i + 1 ELSE i
      /\ \A m \in Node : m # n => \A i \in Nat : g[m][i] = i
  BY DEF Shift
<1>. HIDE DEF g
<1>9. \A i \in DOMAIN rx'[n] :
        /\ i \in Nat /\ 1 <= i /\ i <= Len(rx[n]) - 1
        /\ rx'[n][i] = IF i < k THEN rx[n][i] ELSE rx[n][i + 1]
        /\ g[n][i] = IF i >= k THEN i + 1 ELSE i
  <2>1. DOMAIN rx'[n] = 1..Len(rx[n]) - 1
    BY <1>3, <1>4
  <2>2. \A i \in 1..Len(rx[n]) - 1 : i \in Nat /\ 1 <= i /\ i <= Len(rx[n]) - 1
    BY <1>1
  <2>. QED BY <1>2, <1>4, <1>8, <2>1, <2>2
<1>10. \A i \in DOMAIN rx'[n] :
         g[n][i] \in DOMAIN rx[n] /\ rx'[n][i] = rx[n][g[n][i]] /\ g[n][i] # k
  <2>. SUFFICES ASSUME NEW i \in DOMAIN rx'[n]
                PROVE  g[n][i] \in DOMAIN rx[n] /\ rx'[n][i] = rx[n][g[n][i]] /\ g[n][i] # k
    OBVIOUS
  <2>1. CASE i < k
    BY <1>0, <1>1, <1>9, <2>1
  <2>2. CASE ~(i < k)
    <3>1. g[n][i] = i + 1 /\ i + 1 \in 1..Len(rx[n]) /\ i + 1 # k
      BY <1>0, <1>1, <1>9, <2>2
    <3>. QED BY <1>1, <1>9, <2>2, <3>1
  <2>. QED BY <2>1, <2>2
<1>11. \A i, j \in DOMAIN rx'[n] : g[n][i] = g[n][j] => i = j
  <2>1. k \in Nat /\ \A i \in DOMAIN rx'[n] : i \in Nat /\ g[n][i] = IF i >= k THEN i + 1 ELSE i
    BY <1>0, <1>9
  <2>. QED BY <2>1
<1>12. \A m \in Node : m # n => \A i \in DOMAIN rx'[m] :
         g[m][i] = i /\ i \in DOMAIN rx[m] /\ rx'[m][i] = rx[m][i]
  BY <1>4, <1>6, <1>8
<1>13. \A m \in Node : \A i \in DOMAIN rx'[m] :
         g[m][i] \in DOMAIN rx[m] /\ rx'[m][i] = rx[m][g[m][i]]
  BY <1>10, <1>12
<1>14. \A m \in Node : \A i, j \in DOMAIN rx'[m] : g[m][i] = g[m][j] => i = j
  BY <1>11, <1>12
<1>15. \A m \in Node : \A i \in DOMAIN rx'[m] :
         IsEntry(rx'[m][i])
  BY <1>7, <1>13
<1>16. \A m \in Node : \A i \in DOMAIN rx'[m] :
         rx'[m][i].frame = rx[m][g[m][i]].frame /\ (rx'[m][i].fresh => rx[m][g[m][i]].fresh)
  BY <1>13
<1>17. Thins(g)
  BY <1>8, <1>13, <1>14, <1>15, <1>16 DEF Thins
<1>. QED BY <1>5, <1>10, <1>17 DEF g

\* Where nothing but the queues, a net that shrinks and the places of threads changes,
\* everything said of frames and of the history stays.
LEMMA Kept ==
    ASSUME IInv, NEW g, Thins(g), net' \subseteq net, performed' = performed,
           calls' \in Int, calls <= calls',
           \A b \in App : pc'[b] = "respond" => pc[b] = "respond" /\ got'[b] = got[b],
           \A b \in App : pc'[b] \in {"lock", "send"} =>
               \/ pc[b] \in {"lock", "send"} /\ call'[b] = call[b]
               \/ call'[b] = calls + 1
    PROVE  /\ FrameInv' /\ OneCopy' /\ PerformedOnce'
           /\ \A c \in 1..MaxCalls : performed'[c] # <<>> => c <= calls' /\ ~Asking(c)'
<1>. USE DEF IInv
<1>0. calls \in Nat
  BY DEF TypeOK
<1>1. ASSUME NEW c \in Int, c <= calls, ~Asking(c) PROVE ~Asking(c)'
  BY <1>0, <1>1 DEF Asking
<1>2. ASSUME NEW f, FrameOK(f)
      PROVE  /\ f.call \in 1..calls' /\ ~Asking(f.call)'
             /\ f.type \in Writes => f.val \in Value
             /\ f.type \in Renames => f.val \in Address
  BY <1>0, <1>1, <1>2 DEF FrameOK
<1>3. \A m \in Node : \A i \in DOMAIN rx'[m] :
        g[m][i] \in DOMAIN rx[m] /\ rx'[m][i].frame = rx[m][g[m][i]].frame
  BY DEF Thins
<1>4. \A m \in Node : \A i, j \in DOMAIN rx'[m] : g[m][i] = g[m][j] => i = j
  BY DEF Thins
<1>5. FrameInv'
  <2>1. \A copy \in net' : FrameOK(copy.frame)
    BY DEF FrameInv
  <2>2. \A m \in Node : \A i \in DOMAIN rx'[m] : FrameOK(rx'[m][i].frame)
    <3>1. \A m \in Node : \A i \in DOMAIN rx[m] : FrameOK(rx[m][i].frame)
      BY DEF FrameInv
    <3>. QED BY <1>3, <3>1
  <2>3. \A a \in App : pc'[a] = "respond" =>
          FrameOK(got'[a][1]) /\ got'[a][1].type \in RequestTypes
    BY DEF FrameInv
  <2>4. \A f : FrameOK(f) => FrameOK(f)'
    BY <1>2 DEF FrameOK
  <2>5. \A m \in Node : \A i \in DOMAIN rx'[m] :
          IsEntry(rx'[m][i])
    BY DEF Thins
  <2>. QED BY <2>1, <2>2, <2>3, <2>4, <2>5 DEF FrameInv, FrameOK
<1>6. OneCopy'
  <2>1. \A x, y \in net' : x.at = y.at /\ SameRequest(x.frame, y.frame) => x = y
    BY DEF OneCopy
  <2>2. \A x \in net' : x.at \in Node
    BY DEF TypeOK
  <2>3. \A x \in net' : \A i \in DOMAIN rx'[x.at] : ~SameRequest(x.frame, rx'[x.at][i].frame)
    <3>1. \A x \in net : \A i \in DOMAIN rx[x.at] : ~SameRequest(x.frame, rx[x.at][i].frame)
      BY DEF OneCopy
    <3>. QED BY <1>3, <2>2, <3>1
  <2>4. \A n \in Node : \A i, j \in DOMAIN rx'[n] :
          SameRequest(rx'[n][i].frame, rx'[n][j].frame) => i = j
    <3>1. \A n \in Node : \A i, j \in DOMAIN rx[n] :
            SameRequest(rx[n][i].frame, rx[n][j].frame) => i = j
      BY DEF OneCopy
    <3>. QED BY <1>3, <1>4, <3>1
  <2>5. \A a \in App : \A i \in DOMAIN rx'[AppNode[a]] :
          pc'[a] = "respond" => ~SameRequest(got'[a][1], rx'[AppNode[a]][i].frame)
    <3>1. \A a \in App : \A i \in DOMAIN rx[AppNode[a]] :
            pc[a] = "respond" => ~SameRequest(got[a][1], rx[AppNode[a]][i].frame)
      BY DEF OneCopy
    <3>. QED BY <1>3, <3>1, Constants
  <2>6. \A n \in Node : \A i \in DOMAIN rx'[n] :
          rx'[n][i].frame.type \in RequestTypes => ~ActedAt(n, rx'[n][i].frame.call)
    <3>1. \A n \in Node : \A i \in DOMAIN rx[n] :
            rx[n][i].frame.type \in RequestTypes => ~ActedAt(n, rx[n][i].frame.call)
      BY DEF OneCopy
    <3>. QED BY <1>3, <3>1
  <2>7. /\ \A x \in net' : \A a \in App :
             pc'[a] = "respond" /\ AppNode[a] = x.at => ~SameRequest(x.frame, got'[a][1])
        /\ \A x \in net' : x.frame.type \in RequestTypes => ~ActedAt(x.at, x.frame.call)
        /\ \A a, b \in App :
             /\ pc'[a] = "respond" /\ pc'[b] = "respond" /\ AppNode[a] = AppNode[b]
             /\ SameRequest(got'[a][1], got'[b][1])
             => a = b
        /\ \A a \in App : pc'[a] = "respond" => ~ActedAt(AppNode[a], got'[a][1].call)
    BY DEF OneCopy
  <2>8. /\ \A n \in Node : \A i \in DOMAIN rx'[n] :
             rx'[n][i].frame.type \in RequestTypes => ~ActedAt(n, rx[n][i].frame.call)'
        /\ \A x \in net' : x.frame.type \in RequestTypes => ~ActedAt(x.at, x.frame.call)'
        /\ \A a \in App : pc'[a] = "respond" => ~ActedAt(AppNode[a], got[a][1].call)'
    <3>1. performed' = performed
      OBVIOUS
    <3>2. \A n \in Node : \A i \in DOMAIN rx'[n] :
            rx'[n][i].frame.type \in RequestTypes => ~ActedAt(n, rx[n][i].frame.call)'
      BY ONLY <2>6, <3>1 DEF ActedAt
    <3>3. \A x \in net' : x.frame.type \in RequestTypes => ~ActedAt(x.at, x.frame.call)'
      BY ONLY <2>7, <3>1 DEF ActedAt
    <3>4. \A a \in App : pc'[a] = "respond" => ~ActedAt(AppNode[a], got[a][1].call)'
      BY ONLY <2>7, <3>1 DEF ActedAt
    <3>. QED BY ONLY <3>2, <3>3, <3>4
  <2>. QED BY <2>1, <2>3, <2>4, <2>5, <2>7, <2>8 DEF OneCopy, SameRequest
<1>7. PerformedOnce'
  BY DEF PerformedOnce
<1>8. \A c \in 1..MaxCalls : performed'[c] # <<>> => c <= calls' /\ ~Asking(c)'
  BY <1>0, <1>1 DEF CallInv, TypeOK
<1>. QED BY <1>5, <1>6, <1>7, <1>8

-----------------------------------------------------------------------------
(* What acting on a request does.                                          *)

\* The history of the call grows by what the devices of the process do, each once.
LEMMA Recorded ==
    ASSUME TypeOK, PerformedOnce, NEW n \in Node, NEW f, Respond(n, f),
           f.call \in 1..MaxCalls, ~ActedAt(n, f.call)
    PROVE  /\ DOMAIN performed' = 1..MaxCalls
           /\ \A c \in 1..MaxCalls : performed'[c] \in Seq(Range(performed'[c]))
           /\ \A c \in 1..MaxCalls : c # f.call => performed'[c] = performed[c]
           /\ \A m \in Node : \A i \in DOMAIN performed'[f.call] :
                Home[performed'[f.call][i].by] = m => m = n \/ ActedAt(m, f.call)
           /\ PerformedOnce'
<1>. DEFINE c == f.call
            s == performed[c]
            L == SetToSeq(Marks(n, f))
            t == s \o L
<1>1. /\ DOMAIN performed = 1..MaxCalls /\ s \in Seq(Range(s))
      /\ \A d \in 1..MaxCalls : performed[d] \in Seq(Range(performed[d]))
  BY DEF TypeOK
<1>2. performed' = [performed EXCEPT ![c] = t]
  BY DEF Respond
<1>3. /\ L \in Seq(Marks(n, f))
      /\ \A i, j \in 1..Len(L) : L[i] = L[j] => i = j
  BY MarksApart, Listed
<1>4. /\ \A m \in Marks(n, f) : Home[m.by] = n
      /\ \A m, k \in Marks(n, f) : m.by = k.by => m = k
  BY MarksApart DEF At
<1>5. /\ Len(s) \in Nat /\ DOMAIN s = 1..Len(s)
      /\ Len(L) \in Nat /\ \A i \in 1..Len(L) : L[i] \in Marks(n, f)
  BY <1>1, <1>3, LenProperties, ElementOfSeq
<1>6. /\ t \in Seq(Range(s) \cup Marks(n, f)) /\ Len(t) = Len(s) + Len(L)
      /\ \A i \in 1..Len(s) + Len(L) : t[i] = IF i <= Len(s) THEN s[i] ELSE L[i - Len(s)]
  BY <1>1, <1>3, Extended
<1>7. t \in Seq(Range(t)) /\ DOMAIN t = 1..Len(s) + Len(L)
  BY <1>6, OwnElements
<1>8. \A i \in DOMAIN t : i \in Nat /\ 1 <= i /\ i <= Len(s) + Len(L)
  BY <1>5, <1>7
<1>. HIDE DEF s, L, t
<1>9. \A i \in DOMAIN t : \/ i \in DOMAIN s /\ t[i] = s[i] /\ i <= Len(s)
                          \/ /\ i > Len(s) /\ i - Len(s) \in 1..Len(L)
                             /\ t[i] = L[i - Len(s)]
  BY <1>5, <1>6, <1>7, <1>8
<1>10. \A i \in DOMAIN s : Home[s[i].by] # n
  BY DEF ActedAt, s
<1>11. \A i, j \in DOMAIN s : s[i].by = s[j].by => i = j
  BY DEF PerformedOnce, s
<1>12. \A i, j \in 1..Len(L) : L[i].by = L[j].by => i = j
  BY <1>3, <1>4, <1>5
<1>13. \A i \in 1..Len(L) : Home[L[i].by] = n
  BY <1>4, <1>5
<1>14. \A i, j \in DOMAIN t : t[i].by = t[j].by => i = j
  <2>. SUFFICES ASSUME NEW i \in DOMAIN t, NEW j \in DOMAIN t, t[i].by = t[j].by
                PROVE  i = j
    OBVIOUS
  <2>1. CASE i <= Len(s) /\ j <= Len(s)
    BY <1>5, <1>8, <1>9, <1>11, <2>1
  <2>2. CASE i > Len(s) /\ j > Len(s)
    <3>1. i - Len(s) = j - Len(s)
      BY <1>5, <1>8, <1>9, <1>12, <2>2
    <3>. QED BY <1>5, <1>8, <3>1
  <2>3. CASE i <= Len(s) /\ j > Len(s)
    BY <1>5, <1>8, <1>9, <1>10, <1>13, <2>3
  <2>4. CASE i > Len(s) /\ j <= Len(s)
    BY <1>5, <1>8, <1>9, <1>10, <1>13, <2>4
  <2>. QED BY <1>5, <1>8, <2>1, <2>2, <2>3, <2>4
<1>15. \A m \in Node : \A i \in DOMAIN t : Home[t[i].by] = m => m = n \/ ActedAt(m, c)
  BY <1>9, <1>13 DEF ActedAt, s
<1>16. /\ DOMAIN performed' = 1..MaxCalls /\ performed'[c] = t
       /\ \A d \in 1..MaxCalls : d # c => performed'[d] = performed[d]
  BY <1>1, <1>2
<1>17. PerformedOnce'
  BY <1>14, <1>16 DEF PerformedOnce
<1>. QED BY <1>1, <1>7, <1>15, <1>16, <1>17

\* What it sends is no request.
LEMMA Answered ==
    ASSUME NEW n \in Node, NEW f, Respond(n, f)
    PROVE  \A x \in net' : \/ x \in net
                           \/ /\ x.at \in Node /\ x.frame.call = f.call
                              /\ x.frame.type \notin RequestTypes
<1>1. \A x \in Sent(n, Replies(n, f)) : x.at \in Node /\ x.frame \in Replies(n, f)
  BY DEF Sent
<1>2. \A r \in Replies(n, f) : r.call = f.call /\ r.type \notin RequestTypes
  BY ReplyFacts DEF ReplyOK
<1>. QED BY <1>1, <1>2 DEF Respond

\* Items and addresses keep their types.
LEMMA Stored ==
    ASSUME TypeOK, NEW n \in Node, NEW f, FrameOK(f), Respond(n, f)
    PROVE  mem' \in [Device -> [Item -> Value]] /\ addr' \in [Device -> Address \cup {NoAddress}]
<1>1. \A d \in Device : mem[d] \in [Item -> Value] /\ addr[d] \in Address \cup {NoAddress}
  BY DEF TypeOK
<1>2. Written(n, f) # {} => f.val \in Value
  BY Targets DEF FrameOK
<1>3. Renamed(n, f) # {} => f.val \in Address
  BY Targets DEF FrameOK
<1>4. \A d \in Device : d \in Written(n, f) => [mem[d] EXCEPT ![f.item] = f.val] \in [Item -> Value]
  BY <1>1, <1>2
<1>5. mem' \in [Device -> [Item -> Value]]
  BY <1>1, <1>4 DEF Respond
<1>6. addr' \in [Device -> Address \cup {NoAddress}]
  BY <1>1, <1>3 DEF Respond
<1>. QED BY <1>5, <1>6

\* A request f that has left net, queue and hands of the process is acted on.
LEMMA Served ==
    ASSUME IInv, NEW n \in Node, NEW f, Respond(n, f), FrameOK(f), f.type \in RequestTypes,
           NEW g, Thins(g), UNCHANGED <<calls, call>>, ~ActedAt(n, f.call),
           \A x \in net : x.at = n => ~SameRequest(x.frame, f),
           \A i \in DOMAIN rx'[n] : ~SameRequest(rx'[n][i].frame, f),
           \A b \in App : pc'[b] = "respond" => pc[b] = "respond" /\ got'[b] = got[b],
           \A b \in App : pc'[b] = "respond" /\ AppNode[b] = n => ~SameRequest(got[b][1], f),
           \A b \in App : pc'[b] \in {"lock", "send"} => pc[b] \in {"lock", "send"}
    PROVE  /\ FrameInv' /\ OneCopy' /\ PerformedOnce'
           /\ \A c \in 1..MaxCalls : performed'[c] # <<>> => c <= calls' /\ ~Asking(c)'
           /\ DOMAIN performed' = 1..MaxCalls
           /\ \A c \in 1..MaxCalls : performed'[c] \in Seq(Range(performed'[c]))
<1>1. f.call \in 1..MaxCalls /\ f.call <= calls /\ calls \in Nat
  BY Constants DEF FrameOK, IInv, TypeOK
<1>2. /\ DOMAIN performed' = 1..MaxCalls
      /\ \A c \in 1..MaxCalls : performed'[c] \in Seq(Range(performed'[c]))
      /\ \A c \in 1..MaxCalls : c # f.call => performed'[c] = performed[c]
      /\ \A m \in Node : \A i \in DOMAIN performed'[f.call] :
           Home[performed'[f.call][i].by] = m => m = n \/ ActedAt(m, f.call)
      /\ PerformedOnce'
  BY <1>1, Recorded DEF IInv
<1>3. \A x \in net' : \/ x \in net
                      \/ x.at \in Node /\ x.frame.call = f.call /\ x.frame.type \notin RequestTypes
  BY Answered
<1>4. \A m \in Node : \A i \in DOMAIN rx'[m] :
        g[m][i] \in DOMAIN rx[m] /\ rx'[m][i].frame = rx[m][g[m][i]].frame
  BY DEF Thins
<1>5. \A m \in Node : \A i, j \in DOMAIN rx'[m] : g[m][i] = g[m][j] => i = j
  BY DEF Thins
<1>6. \A c : Asking(c)' => Asking(c)
  BY DEF Asking
<1>7. \A h : FrameOK(h) => FrameOK(h)'
  BY <1>6 DEF FrameOK
<1>8. \A m \in Node : \A c \in 1..MaxCalls : ActedAt(m, c)' => ActedAt(m, c) \/ (m = n /\ c = f.call)
  <2>. SUFFICES ASSUME NEW m \in Node, NEW c \in 1..MaxCalls, NEW i \in DOMAIN performed'[c],
                       Home[performed'[c][i].by] = m
                PROVE  ActedAt(m, c) \/ (m = n /\ c = f.call)
    BY DEF ActedAt
  <2>1. CASE c = f.call
    BY <1>2, <2>1
  <2>2. CASE c # f.call
    BY <1>2, <2>2 DEF ActedAt
  <2>. QED BY <2>1, <2>2
<1>9. FrameInv'
  <2>1. \A x \in net' : FrameOK(x.frame)
    <3>1. Writes \cup Renames \subseteq RequestTypes
      BY DEF Writes, Renames, RequestTypes
    <3>2. \A x \in net : FrameOK(x.frame)
      BY DEF IInv, FrameInv
    <3>. QED BY <1>3, <3>1, <3>2 DEF FrameOK
  <2>2. \A m \in Node : \A i \in DOMAIN rx'[m] : FrameOK(rx'[m][i].frame)
    <3>1. \A m \in Node : \A i \in DOMAIN rx[m] : FrameOK(rx[m][i].frame)
      BY DEF IInv, FrameInv
    <3>. QED BY <1>4, <3>1
  <2>3. \A a \in App : pc'[a] = "respond" =>
          FrameOK(got'[a][1]) /\ got'[a][1].type \in RequestTypes
    BY DEF IInv, FrameInv
  <2>4. \A m \in Node : \A i \in DOMAIN rx'[m] : IsEntry(rx'[m][i])
    BY DEF Thins
  <2>. QED BY <1>7, <2>1, <2>2, <2>3, <2>4 DEF FrameInv, FrameOK
<1>10. OneCopy'
  <2>1. \A x \in net' : x.at \in Node /\ (x.frame.type \in RequestTypes => x \in net)
    BY <1>3 DEF IInv, TypeOK
  <2>2. \A x, y \in net' : x.at = y.at /\ SameRequest(x.frame, y.frame) => x = y
    BY <2>1 DEF IInv, OneCopy, SameRequest
  <2>3. \A x \in net' : \A i \in DOMAIN rx'[x.at] : ~SameRequest(x.frame, rx'[x.at][i].frame)
    <3>1. \A x \in net : \A i \in DOMAIN rx[x.at] : ~SameRequest(x.frame, rx[x.at][i].frame)
      BY DEF IInv, OneCopy
    <3>2. \A x \in net : \A i \in DOMAIN rx'[x.at] : ~SameRequest(x.frame, rx'[x.at][i].frame)
      <4>1. \A x \in net : x.at \in Node
        BY DEF IInv, TypeOK
      <4>. QED BY <1>4, <3>1, <4>1
    <3>. QED BY <2>1, <3>2 DEF SameRequest
  <2>4. \A x \in net' : \A a \in App :
          pc'[a] = "respond" /\ AppNode[a] = x.at => ~SameRequest(x.frame, got'[a][1])
    <3>1. \A x \in net : \A a \in App :
            pc[a] = "respond" /\ AppNode[a] = x.at => ~SameRequest(x.frame, got[a][1])
      BY DEF IInv, OneCopy
    <3>. QED BY <2>1, <3>1 DEF SameRequest
  <2>5. \A x \in net' : x.frame.type \in RequestTypes => ~ActedAt(x.at, x.frame.call)'
    <3>1. \A x \in net : x.frame.type \in RequestTypes =>
            ~ActedAt(x.at, x.frame.call) /\ x.frame.call \in 1..MaxCalls
      BY <1>1, Constants DEF IInv, OneCopy, FrameInv, FrameOK, TypeOK
    <3>. QED BY <1>8, <2>1, <3>1 DEF SameRequest
  <2>6. \A m \in Node : \A i, j \in DOMAIN rx'[m] :
          SameRequest(rx'[m][i].frame, rx'[m][j].frame) => i = j
    <3>1. \A m \in Node : \A i, j \in DOMAIN rx[m] :
            SameRequest(rx[m][i].frame, rx[m][j].frame) => i = j
      BY DEF IInv, OneCopy
    <3>. QED BY <1>4, <1>5, <3>1
  <2>7. \A a \in App : \A i \in DOMAIN rx'[AppNode[a]] :
          pc'[a] = "respond" => ~SameRequest(got'[a][1], rx'[AppNode[a]][i].frame)
    <3>1. \A a \in App : \A i \in DOMAIN rx[AppNode[a]] :
            pc[a] = "respond" => ~SameRequest(got[a][1], rx[AppNode[a]][i].frame)
      BY DEF IInv, OneCopy
    <3>. QED BY <1>4, <3>1, Constants
  <2>8. \A m \in Node : \A i \in DOMAIN rx'[m] :
          rx'[m][i].frame.type \in RequestTypes => ~ActedAt(m, rx[m][i].frame.call)'
    <3>1. \A m \in Node : \A i \in DOMAIN rx[m] : rx[m][i].frame.type \in RequestTypes =>
            ~ActedAt(m, rx[m][i].frame.call) /\ rx[m][i].frame.call \in 1..MaxCalls
      BY <1>1, Constants DEF IInv, OneCopy, FrameInv, FrameOK, TypeOK
    <3>2. \A m \in Node : \A i \in DOMAIN rx'[m] : rx'[m][i].frame.type \in RequestTypes =>
            ~ActedAt(m, rx'[m][i].frame.call) /\ rx'[m][i].frame.call \in 1..MaxCalls
      BY <1>4, <3>1
    <3>3. \A m \in Node : \A c \in 1..MaxCalls :
            ~ActedAt(m, c) /\ (m = n => c # f.call) =>
              \A j \in DOMAIN performed'[c] : Home[performed'[c][j].by] # m
      BY <1>8 DEF ActedAt
    <3>4. \A i \in DOMAIN rx'[n] : rx'[n][i].frame.type \in RequestTypes => rx'[n][i].frame.call # f.call
      BY DEF SameRequest
    <3>5. \A m \in Node : \A i \in DOMAIN rx'[m] : rx'[m][i].frame.type \in RequestTypes =>
            \A j \in DOMAIN performed'[rx'[m][i].frame.call] :
              Home[performed'[rx'[m][i].frame.call][j].by] # m
      BY <3>2, <3>3, <3>4
    <3>. QED BY <3>5 DEF ActedAt
  <2>9. \A a, b \in App :
          /\ pc'[a] = "respond" /\ pc'[b] = "respond" /\ AppNode[a] = AppNode[b]
          /\ SameRequest(got'[a][1], got'[b][1])
          => a = b
    BY DEF IInv, OneCopy
  <2>10. \A a \in App : pc'[a] = "respond" => ~ActedAt(AppNode[a], got[a][1].call)'
    <3>1. \A a \in App : pc[a] = "respond" =>
            /\ ~ActedAt(AppNode[a], got[a][1].call) /\ got[a][1].call \in 1..MaxCalls
            /\ got[a][1].type \in RequestTypes /\ AppNode[a] \in Node
      BY <1>1, Constants DEF IInv, OneCopy, FrameInv, FrameOK, TypeOK
    <3>2. \A a \in App : pc'[a] = "respond" /\ AppNode[a] = n => got[a][1].call # f.call
      BY <3>1 DEF SameRequest
    <3>3. \A a \in App : pc'[a] = "respond" =>
            \A j \in DOMAIN performed'[got'[a][1].call] :
              Home[performed'[got'[a][1].call][j].by] # AppNode[a]
      BY <1>8, <3>1, <3>2, SMTT(30) DEF ActedAt
    <3>. QED BY <3>3 DEF ActedAt
  <2>. QED BY <2>2, <2>3, <2>4, <2>5, <2>6, <2>7, <2>8, <2>9, <2>10
       DEF OneCopy, SameRequest, ActedAt
<1>11. \A c \in 1..MaxCalls : performed'[c] # <<>> => c <= calls' /\ ~Asking(c)'
  <2>1. ~Asking(f.call)
    BY DEF FrameOK
  <2>. QED BY <1>1, <1>2, <1>6, <2>1 DEF IInv, CallInv
<1>. QED BY <1>2, <1>9, <1>10, <1>11

-----------------------------------------------------------------------------
(* The initial states, and the types.                                      *)

LEMMA InitHolds == Init => IInv
<1>. SUFFICES ASSUME Init PROVE IInv
  OBVIOUS
<1>1. /\ \A a \in App : pc[a] = "idle" /\ got[a] = <<>>
      /\ \A n \in Node : lst[n] # "holds" /\ rx[n] = <<>>
      /\ \A c \in 1..MaxCalls : performed[c] = <<>>
  BY DEF Init
<1>2. TypeOK
  <2>1. /\ objs \in [Node -> Node \cup App \cup {Nobody}]
        /\ lst \in [Node -> {"off", "free", "holds"}]
        /\ pc \in [App -> {"idle", "lock", "send", "recv", "return", "listen", "respond"}]
    BY DEF Init
  <2>2. /\ addr \in [Device -> Address \cup {NoAddress}] /\ mem \in [Device -> [Item -> Value]]
        /\ req \in [App -> (UNION {Requests[a] : a \in App}) \cup {NoRequest}]
    BY ExchangeAssumption DEF Init
  <2>3. /\ DOMAIN rx = Node /\ \A n \in Node : rx[n] \in Seq(Range(rx[n]))
        /\ DOMAIN got = App /\ \A a \in App : got[a] \in Seq(Range(got[a]))
        /\ DOMAIN performed = 1..MaxCalls
        /\ \A c \in 1..MaxCalls : performed[c] \in Seq(Range(performed[c]))
    <3>1. \A S : <<>> \in Seq(S)
      BY EmptySeq
    <3>. QED BY <1>1, <3>1 DEF Init
  <2>4. /\ net = {} /\ lost = {} /\ calls = 0 /\ calls \in 0..MaxCalls
        /\ ret \in [App -> {-1, 0, 1, 3, 74}] /\ call \in [App -> 0..MaxCalls]
    BY Constants DEF Init
  <2>. QED BY <2>1, <2>2, <2>3, <2>4 DEF TypeOK
<1>3. MutexInv /\ HostHeld
  BY <1>1 DEF MutexInv, HostHeld, Calling
<1>4. CallInv
  BY <1>1 DEF CallInv
<1>5. FrameInv
  BY <1>1 DEF FrameInv, Init
<1>6. OneCopy
  BY <1>1 DEF OneCopy, Init
<1>7. PerformedOnce
  BY <1>1 DEF PerformedOnce
<1>. QED BY <1>2, <1>3, <1>4, <1>5, <1>6, <1>7 DEF IInv

\* Sending makes the queue old, and leaves every frame where it is.
LEMMA AgedQueue ==
    ASSUME IInv, NEW n \in Node,
           rx' = [rx EXCEPT ![n] = [i \in DOMAIN @ |-> [frame |-> @[i].frame, fresh |-> FALSE]]]
    PROVE  /\ QueuesOK' /\ Thins([m \in Node |-> [i \in Nat |-> i]])
           /\ \A i \in DOMAIN rx'[n] : ~rx'[n][i].fresh
<1>. DEFINE q == [i \in DOMAIN rx[n] |-> [frame |-> rx[n][i].frame, fresh |-> FALSE]]
<1>1. /\ DOMAIN rx = Node /\ DOMAIN rx[n] = 1..Len(rx[n]) /\ Len(rx[n]) \in Nat
      /\ \A m \in Node : rx[m] \in Seq(Range(rx[m])) /\ DOMAIN rx[m] \subseteq Nat
  BY QueueFacts DEF IInv, TypeOK
<1>2. \A m \in Node : \A i \in DOMAIN rx[m] : IsEntry(rx[m][i])
  BY DEF IInv, FrameInv
<1>4. \A i \in DOMAIN rx[n] : q[i] = [frame |-> rx[n][i].frame, fresh |-> FALSE]
  OBVIOUS
<1>5. \A i \in DOMAIN rx[n] : q[i].frame = rx[n][i].frame /\ ~q[i].fresh /\ IsEntry(q[i])
  BY <1>4 DEF IsEntry
<1>6. q \in [1..Len(rx[n]) -> Range(q)] /\ DOMAIN q = DOMAIN rx[n]
  BY <1>1 DEF Range
<1>7. q \in Seq(Range(q))
  BY <1>1, <1>6, SeqDef
<1>8. rx'[n] = q /\ DOMAIN rx' = Node /\ \A m \in Node : m # n => rx'[m] = rx[m]
  BY <1>1
<1>. HIDE DEF q
<1>9. QueuesOK'
  BY <1>1, <1>7, <1>8 DEF QueuesOK
<1>10. \A m \in Node : \A i \in DOMAIN rx'[m] :
         /\ i \in DOMAIN rx[m] /\ i \in Nat /\ rx'[m][i].frame = rx[m][i].frame
         /\ (rx'[m][i].fresh => rx[m][i].fresh) /\ IsEntry(rx'[m][i])
  BY <1>1, <1>2, <1>5, <1>6, <1>8
<1>11. \A i \in DOMAIN rx'[n] : ~rx'[n][i].fresh
  BY <1>5, <1>6, <1>8
<1>12. Thins([m \in Node |-> [i \in Nat |-> i]])
  <2>. DEFINE g == [m \in Node |-> [i \in Nat |-> i]]
  <2>1. g \in [Node -> [Nat -> Nat]] /\ \A m \in Node : \A i \in Nat : g[m][i] = i
    OBVIOUS
  <2>. HIDE DEF g
  <2>2. \A m \in Node : \A i \in DOMAIN rx'[m] : g[m][i] = i
    BY <1>10, <2>1
  <2>3. \A m \in Node : \A i \in DOMAIN rx'[m] :
          /\ g[m][i] \in DOMAIN rx[m] /\ rx'[m][i].frame = rx[m][g[m][i]].frame
          /\ rx'[m][i].fresh => rx[m][g[m][i]].fresh
          /\ IsEntry(rx'[m][i])
    <3>. SUFFICES ASSUME NEW m \in Node, NEW i \in DOMAIN rx'[m]
                  PROVE  /\ g[m][i] \in DOMAIN rx[m] /\ rx'[m][i].frame = rx[m][g[m][i]].frame
                         /\ rx'[m][i].fresh => rx[m][g[m][i]].fresh
                         /\ IsEntry(rx'[m][i])
      OBVIOUS
    <3>1. g[m][i] = i
      BY <2>2
    <3>. QED BY <1>10, <3>1
  <2>4. \A m \in Node : \A i, j \in DOMAIN rx'[m] : g[m][i] = g[m][j] => i = j
    BY <2>2
  <2>5. Thins(g)
    BY <2>1, <2>3, <2>4 DEF Thins
  <2>. QED BY <2>5 DEF g
<1>. QED BY <1>9, <1>11, <1>12

\* What the functions have in common, and what a query and an order are.
LEMMA ServiceFacts ==
    ASSUME NEW s \in API
    PROVE  /\ s.way \in {"query", "order", "collect", "tell", "raw", "listen"}
           /\ s.refused \in {-1, 0, 1, 3, 74} /\ s.otherwise \in {-1, 0, 1, 3, 74}
           /\ s.way = "query" => s \in Queries
           /\ s.way = "order" => s \in Orders \cup {PropertyValue_Write2}
<1>1. CASE s \in Queries
  BY <1>1 DEF Queries, PropertyValue_Read, Property_Read, Authorize_Query, Link_Read,
     UserMemory_Read, Query, Service
<1>2. CASE s \in Orders
  BY <1>2 DEF Orders, PropertyValue_Write, Property_Write, Link_Write, UserMemory_Write, Order, Service
<1>3. CASE s \in Collects
  BY <1>3 DEF Collects, GroupValue_Read, IndividualAddress_Read, SerialNumber_Read, Collect, Service
<1>4. CASE s \in Tells
  BY <1>4 DEF Tells, GroupValue_Write, IndividualAddress_Write, SerialNumber_Write, Tell, Service
<1>5. ASSUME NEW t, s = Send_Rawdate(t), t \in Queries \cup Orders \cup Collects \cup Tells
      PROVE  s.way = "raw" /\ s.refused = 0 /\ s.otherwise = 3
  <2>1. \E w, q, e, x, y : t = Service(w, q, e, x, y)
    BY <1>5 DEF Queries, Orders, Collects, Tells, Query, Order, Collect, Tell, PropertyValue_Read,
       Property_Read, Authorize_Query, Link_Read, UserMemory_Read, PropertyValue_Write,
       Property_Write, Link_Write, UserMemory_Write, GroupValue_Read, IndividualAddress_Read,
       SerialNumber_Read, GroupValue_Write, IndividualAddress_Write, SerialNumber_Write
  <2>. QED BY <1>5, <2>1 DEF Send_Rawdate, Service
<1>6. CASE s = PropertyValue_Write2
  BY <1>6 DEF PropertyValue_Write2, PropertyValue_Write, Order, Service
<1>7. CASE s = Listen_Sync
  BY <1>7 DEF Listen_Sync, Service
<1>. QED BY <1>1, <1>2, <1>3, <1>4, <1>5, <1>6, <1>7 DEF API

\* What a function returns is one of its results.
LEMMA Results ==
    ASSUME IInv, NEW a \in App, pc[a] # "idle", NEW types
    PROVE  Result(req[a].service, types) \in {-1, 0, 1, 3, 74}
<1>1. /\ req[a].service.refused \in {-1, 0, 1, 3, 74}
      /\ req[a].service.otherwise \in {-1, 0, 1, 3, 74}
  BY RequestAssumption, ServiceFacts DEF IInv, CallInv
<1>. QED BY <1>1 DEF Result

\* Where a queue loses the frame in place k, the queues keep their type.
LEMMA QueueTypes ==
    ASSUME IInv, NEW n \in Node,
           \/ rx' = rx
           \/ \E k \in DOMAIN rx[n] : rx' = [rx EXCEPT ![n] = RemoveAt(@, k)]
           \/ \E e : rx' = [rx EXCEPT ![n] = Append(@, e)]
    PROVE  QueuesOK'
<1>1. ASSUME NEW e, rx' = [rx EXCEPT ![n] = Append(@, e)] PROVE QueuesOK'
  <2>1. DOMAIN rx = Node /\ \A m \in Node : rx[m] \in Seq(Range(rx[m]))
    BY DEF IInv, TypeOK
  <2>2. Append(rx[n], e) \in Seq(Range(Append(rx[n], e)))
    BY <2>1, Pushed
  <2>3. rx'[n] = Append(rx[n], e) /\ DOMAIN rx' = Node /\ \A m \in Node : m # n => rx'[m] = rx[m]
    BY <1>1, <2>1
  <2>. QED BY <2>1, <2>2, <2>3 DEF QueuesOK
<1>. QED BY <1>1, SameQueues, LeftQueue

\* Tail takes the frame in place 1.
LEMMA TailRemoves ==
    ASSUME TypeOK, NEW n \in Node, rx[n] # <<>>
    PROVE  1 \in DOMAIN rx[n] /\ Tail(rx[n]) = RemoveAt(rx[n], 1)
<1>1. rx[n] \in Seq(Range(rx[n])) /\ Len(rx[n]) \in Nat \ {0} /\ DOMAIN rx[n] = 1..Len(rx[n])
  BY QueueFacts, EmptySeq DEF TypeOK
<1>2. 1 \in 1..Len(rx[n])
  BY <1>1
<1>. DEFINE t == Tail(rx[n])
            r == RemoveAt(rx[n], 1)
<1>3. /\ t \in Seq(Range(rx[n])) /\ Len(t) = Len(rx[n]) - 1
      /\ \A i \in 1..Len(t) : t[i] = rx[n][i + 1]
  BY <1>1, HeadTailProperties
<1>4. /\ r \in Seq(Range(rx[n])) /\ Len(r) = Len(rx[n]) - 1
      /\ \A i \in 1..Len(rx[n]) - 1 : r[i] = IF i < 1 THEN rx[n][i] ELSE rx[n][i + 1]
  BY <1>1, <1>2, Removed
<1>. HIDE DEF t, r
<1>5. \A i \in 1..Len(t) : t[i] = r[i]
  BY <1>1, <1>3, <1>4
<1>6. t = r
  BY <1>3, <1>4, <1>5, SeqEqual
<1>. QED BY <1>1, <1>2, <1>6 DEF t, r

-----------------------------------------------------------------------------
(* One step: types.                                                        *)

LEMMA TypeStep ==
    ASSUME IInv, [Next]_vars,
           \* of the history, see HistoryStep
           DOMAIN performed' = 1..MaxCalls,
           \A c \in 1..MaxCalls : performed'[c] \in Seq(Range(performed'[c]))
    PROVE  TypeOK'
<1>. USE DEF TypeOK
<1>0. TypeOK /\ Nobody \notin App \cup Node /\ AppNode \in [App -> Node] /\ MaxCalls \in Nat
  BY Constants DEF IInv
<1>1. ASSUME QueuesOK', \A copy \in net' : copy.at \in Node,
             UNCHANGED <<objs, addr, mem, lst, pc, req, got, ret, call, calls>>,
             lost' \subseteq 1..calls
      PROVE  TypeOK'
  BY <1>0, <1>1 DEF QueuesOK
<1>2. CASE UNCHANGED vars
  BY <1>0, <1>2 DEF vars, app_vars
<1>3. CASE Lose
  <2>1. PICK copy \in net : net' = net \ {copy} /\ lost' = lost \cup {copy.frame.call}
    BY <1>3 DEF Lose
  <2>2. copy.frame.call \in 1..calls
    BY DEF IInv, FrameInv, FrameOK
  <2>3. QueuesOK'
    BY <1>3, SameQueues DEF Lose
  <2>. QED BY <1>0, <1>1, <1>3, <2>1, <2>2, <2>3 DEF Lose, app_vars
<1>4. ASSUME NEW n \in Node, Deliver(n) PROVE TypeOK'
  <2>1. PICK copy \in net :
          /\ net' = net \ {copy}
          /\ \/ rx' = rx
             \/ rx' = [rx EXCEPT ![n] = Append(@, [frame |-> copy.frame, fresh |-> TRUE])]
    BY <1>4 DEF Deliver
  <2>2. QueuesOK'
    BY <2>1, QueueTypes
  <2>. QED BY <1>0, <1>1, <1>4, <2>1, <2>2 DEF Deliver, app_vars
<1>5. ASSUME NEW n \in Node, ClearOldFrames(n) PROVE TypeOK'
  <2>1. rx[n] # <<>> /\ rx' = [rx EXCEPT ![n] = Tail(@)]
    BY <1>5 DEF ClearOldFrames
  <2>2. 1 \in DOMAIN rx[n] /\ rx' = [rx EXCEPT ![n] = RemoveAt(@, 1)]
    BY <1>0, <2>1, TailRemoves
  <2>3. QueuesOK'
    BY <2>2, QueueTypes
  <2>. QED BY <1>0, <1>1, <1>5, <2>3 DEF ClearOldFrames, app_vars
<1>6. ASSUME NEW n \in Node, Listen_Async(n) PROVE TypeOK'
  BY <1>0, <1>6 DEF Listen_Async, app_vars
<1>7. ASSUME NEW n \in Node, ListenLock(n) PROVE TypeOK'
  BY <1>0, <1>7 DEF ListenLock, app_vars
<1>8. ASSUME NEW n \in Node, ListenServe(n) PROVE TypeOK'
  <2>. DEFINE k == FirstRequest(n)
              f == rx[n][k].frame
  <2>1. /\ k # 0 /\ Respond(n, f) /\ rx' = [rx EXCEPT ![n] = RemoveAt(@, k)]
        /\ lst' = [lst EXCEPT ![n] = "free"] /\ objs' = [objs EXCEPT ![n] = Nobody]
        /\ UNCHANGED <<app_vars, calls, lost>>
    BY <1>8 DEF ListenServe
  <2>2. k \in DOMAIN rx[n]
    BY <1>0, <2>1, FirstRequestFacts
  <2>3. FrameOK(f)
    BY <2>2 DEF IInv, FrameInv
  <2>. HIDE DEF k, f
  <2>4. QueuesOK'
    BY <2>1, <2>2, QueueTypes
  <2>5. mem' \in [Device -> [Item -> Value]] /\ addr' \in [Device -> Address \cup {NoAddress}]
    BY <1>0, <2>1, <2>3, Stored
  <2>6. \A copy \in net' : copy.at \in Node
    BY <1>0, <2>1, Answered
  <2>. QED BY <1>0, <2>1, <2>4, <2>5, <2>6 DEF QueuesOK, app_vars
<1>9. ASSUME NEW n \in Node, ListenIdle(n) PROVE TypeOK'
  BY <1>0, <1>9 DEF ListenIdle, app_vars
<1>10. ASSUME NEW a \in App, Ask(a) PROVE TypeOK'
  <2>1. PICK r \in Requests[a] :
          /\ req' = [req EXCEPT ![a] = r]
          /\ pc' = [pc EXCEPT ![a] = IF r.service.way = "listen" THEN "listen" ELSE "lock"]
    BY <1>10 DEF Ask
  <2>2. req' \in [App -> (UNION {Requests[b] : b \in App}) \cup {NoRequest}]
    BY <1>0, <2>1
  <2>3. calls' = calls + 1 /\ calls' \in 0..MaxCalls /\ call' \in [App -> 0..MaxCalls]
    BY <1>0, <1>10 DEF Ask
  <2>4. lost \subseteq 1..calls'
    BY <1>0, <2>3
  <2>. QED BY <1>0, <1>10, <2>1, <2>2, <2>3, <2>4 DEF Ask
<1>11. ASSUME NEW a \in App, Lock(a) PROVE TypeOK'
  BY <1>0, <1>11, Constants DEF Lock
<1>12. ASSUME NEW a \in App, Send(a) PROVE TypeOK'
  <2>. DEFINE n == AppNode[a]
  <2>1. /\ net' = net \cup Sent(n, {Question(a)})
        /\ \/ rx' = rx
           \/ rx' = [rx EXCEPT ![n] = [i \in DOMAIN @ |-> [frame |-> @[i].frame, fresh |-> FALSE]]]
        /\ pc' = [pc EXCEPT ![a] = IF Waits(req[a].service) THEN "recv" ELSE "return"]
        /\ UNCHANGED <<objs, addr, mem, lst, req, got, ret, call, calls, performed, lost>>
    BY <1>12 DEF Send
  <2>2. QueuesOK'
    BY <1>0, <2>1, SameQueues, AgedQueue
  <2>3. \A copy \in net' : copy.at \in Node
    BY <1>0, <2>1 DEF Sent
  <2>. QED BY <1>0, <2>1, <2>2, <2>3 DEF QueuesOK
<1>13. ASSUME NEW a \in App, Take(a) PROVE TypeOK'
  <2>. DEFINE n == AppNode[a]
              k == FirstAnswer(a)
              f == rx[n][k].frame
              handed == Append(got[a], f)
              result == Result(req[a].service, Types(handed))
  <2>1. /\ pc[a] = "recv" /\ k # 0
        /\ rx' = [rx EXCEPT ![n] = RemoveAt(@, k)]
        /\ got' = got \/ got' = [got EXCEPT ![a] = handed]
        /\ ret' = ret \/ ret' = [ret EXCEPT ![a] = result]
        /\ pc' = pc \/ pc' = [pc EXCEPT ![a] = "return"]
        /\ UNCHANGED <<objs, addr, mem, net, lst, req, call, calls, performed, lost>>
    BY <1>13 DEF Take
  <2>2. k \in DOMAIN rx[n]
    BY <1>0, <2>1, FirstAnswerFacts
  <2>3. result \in {-1, 0, 1, 3, 74}
    BY <2>1, Results
  <2>4. handed \in Seq(Range(handed))
    BY <1>0, Pushed
  <2>. HIDE DEF k, f, handed, result
  <2>5. QueuesOK'
    BY <1>0, <2>1, <2>2, QueueTypes
  <2>6. DOMAIN got' = App /\ \A b \in App : got'[b] \in Seq(Range(got'[b]))
    BY <1>0, <2>1, <2>4
  <2>7. ret' \in [App -> {-1, 0, 1, 3, 74}]
    <3>1. [ret EXCEPT ![a] = result] \in [App -> {-1, 0, 1, 3, 74}]
      BY <1>0, <2>3
    <3>. QED BY <1>0, <2>1, <3>1
  <2>. QED BY <1>0, <2>1, <2>5, <2>6, <2>7 DEF QueuesOK
<1>14. ASSUME NEW a \in App, Timeout(a) PROVE TypeOK'
  <2>1. Result(req[a].service, Types(got[a])) \in {-1, 0, 1, 3, 74}
    BY <1>14, Results DEF Timeout
  <2>. QED BY <1>0, <1>14, <2>1 DEF Timeout
<1>15. ASSUME NEW a \in App, Return(a) PROVE TypeOK'
  <2>1. \A S : <<>> \in Seq(S)
    BY EmptySeq
  <2>2. DOMAIN got' = App /\ \A b \in App : got'[b] \in Seq(Range(got'[b]))
    BY <1>0, <1>15, <2>1 DEF Return
  <2>. QED BY <1>0, <1>15, <2>2 DEF Return
<1>16. ASSUME NEW a \in App, ListenSyncTake(a) PROVE TypeOK'
  <2>. DEFINE n == AppNode[a]
              k == FirstRequest(n)
              one == <<rx[n][k].frame>>
  <2>1. /\ k # 0 /\ rx' = [rx EXCEPT ![n] = RemoveAt(@, k)]
        /\ got' = [got EXCEPT ![a] = one]
        /\ pc' = [pc EXCEPT ![a] = "respond"]
        /\ UNCHANGED <<objs, addr, mem, net, lst, req, ret, call, calls, performed, lost>>
    BY <1>16 DEF ListenSyncTake
  <2>2. n \in Node /\ k \in DOMAIN rx[n]
    BY <1>0, <2>1, FirstRequestFacts
  <2>3. one \in Seq(Range(one))
    <3>1. one \in Seq({rx[n][k].frame})
      OBVIOUS
    <3>. QED BY <3>1, OwnElements
  <2>. HIDE DEF k, one
  <2>4. QueuesOK'
    BY <2>1, <2>2, QueueTypes
  <2>5. DOMAIN got' = App /\ \A b \in App : got'[b] \in Seq(Range(got'[b]))
    BY <1>0, <2>1, <2>3
  <2>. QED BY <1>0, <2>1, <2>4, <2>5 DEF QueuesOK
<1>17. ASSUME NEW a \in App, ListenSyncTimeout(a) PROVE TypeOK'
  <2>1. Result(req[a].service, <<>>) \in {-1, 0, 1, 3, 74}
    BY <1>17, Results DEF ListenSyncTimeout
  <2>. QED BY <1>0, <1>17, <2>1 DEF ListenSyncTimeout
<1>18. ASSUME NEW a \in App, ListenSyncRespond(a) PROVE TypeOK'
  <2>. DEFINE n == AppNode[a]
              f == got[a][1]
  <2>1. /\ pc[a] = "respond" /\ Respond(n, f)
        /\ ret' = [ret EXCEPT ![a] = 0] /\ pc' = [pc EXCEPT ![a] = "return"]
        /\ UNCHANGED <<objs, rx, lst, req, got, call, calls, lost>>
    BY <1>18 DEF ListenSyncRespond
  <2>2. n \in Node /\ FrameOK(f)
    BY <1>0, <2>1 DEF IInv, FrameInv
  <2>. HIDE DEF n, f
  <2>3. mem' \in [Device -> [Item -> Value]] /\ addr' \in [Device -> Address \cup {NoAddress}]
    BY <1>0, <2>1, <2>2, Stored
  <2>4. \A copy \in net' : copy.at \in Node
    BY <1>0, <2>1, <2>2, Answered
  <2>. QED BY <1>0, <2>1, <2>3, <2>4
<1>. QED
  BY <1>2, <1>3, <1>4, <1>5, <1>6, <1>7, <1>8, <1>9, <1>10, <1>11, <1>12, <1>13, <1>14,
     <1>15, <1>16, <1>17, <1>18 DEF Next, Channel, Listener, Thread

-----------------------------------------------------------------------------
(* One step: the mutex and the calls.                                      *)

LEMMA MutexStep ==
    ASSUME IInv, [Next]_vars
    PROVE  MutexInv' /\ HostHeld'
<1>. USE DEF MutexInv, HostHeld, Calling
<1>0. TypeOK /\ MutexInv /\ HostHeld /\ AppNode \in [App -> Node]
      /\ Nobody \notin App \cup Node /\ App \cap Node = {}
  BY Constants DEF IInv
<1>. USE <1>0 DEF TypeOK
\* Channel, and steps that change no mutex, address or place in a call.
<1>1. ASSUME UNCHANGED <<objs, addr, lst, pc, req>> PROVE MutexInv' /\ HostHeld'
  BY <1>1
<1>2. CASE UNCHANGED vars
  BY <1>1, <1>2 DEF vars, app_vars
<1>3. CASE Lose
  BY <1>1, <1>3 DEF Lose, app_vars
<1>4. ASSUME NEW n \in Node, Channel(n) PROVE MutexInv' /\ HostHeld'
  BY <1>1, <1>4 DEF Channel, Deliver, ClearOldFrames, app_vars
\* The listener.
<1>5. ASSUME NEW n \in Node, Listen_Async(n) PROVE MutexInv' /\ HostHeld'
  BY <1>5 DEF Listen_Async, app_vars
<1>6. ASSUME NEW n \in Node, ListenLock(n) PROVE MutexInv' /\ HostHeld'
  BY <1>6 DEF ListenLock, app_vars
<1>7. ASSUME NEW n \in Node, ListenServe(n) PROVE MutexInv' /\ HostHeld'
  <2>1. /\ Respond(n, rx[n][FirstRequest(n)].frame) /\ lst[n] = "holds"
        /\ lst' = [lst EXCEPT ![n] = "free"]
        /\ objs' = [objs EXCEPT ![n] = Nobody]
        /\ UNCHANGED <<pc, req>>
    BY <1>7 DEF ListenServe, app_vars
  <2>2. \A m \in Node : addr'[Special(m)] = addr[Special(m)]
    BY <2>1, SpecialKept
  <2>. QED BY <2>1, <2>2
<1>8. ASSUME NEW n \in Node, ListenIdle(n) PROVE MutexInv' /\ HostHeld'
  BY <1>8 DEF ListenIdle, app_vars
\* The threads that call.
<1>9. ASSUME NEW a \in App, Ask(a) PROVE MutexInv' /\ HostHeld'
  <2>1. PICK r \in Requests[a] :
          /\ req' = [req EXCEPT ![a] = r]
          /\ pc' = [pc EXCEPT ![a] = IF r.service.way = "listen" THEN "listen" ELSE "lock"]
    BY <1>9 DEF Ask
  <2>2. UNCHANGED <<objs, addr, lst>>
    BY <1>9 DEF Ask
  <2>. QED BY <2>1, <2>2
<1>10. ASSUME NEW a \in App, Lock(a) PROVE MutexInv' /\ HostHeld'
  <2>. DEFINE n == AppNode[a]
  <2>1. /\ pc[a] = "lock" /\ objs[n] = Nobody
        /\ objs' = [objs EXCEPT ![n] = a]
        /\ addr' = [addr EXCEPT ![Special(n)] = Host[a]]
        /\ pc' = [pc EXCEPT ![a] = "send"]
        /\ UNCHANGED <<lst, req>>
    BY <1>10 DEF Lock
  <2>2. n \in Node /\ Special(n) \in Device
    BY SpecialHome
  <2>3. MutexInv'
    BY <2>1, <2>2
  \* Any other call is of another process, whose device ffffffff is another one.
  <2>4. ASSUME NEW b \in App, Calling(b)' PROVE addr'[Special(AppNode[b])] = Host[b]
    <3>1. CASE b = a
      BY <2>1, <2>2, <3>1
    <3>2. CASE b # a
      <4>1. Calling(b)
        BY <2>1, <2>4, <3>2
      <4>2. AppNode[b] # n
        BY <2>1, <4>1
      <4>3. Special(AppNode[b]) # Special(n)
        <5>1. Home[Special(AppNode[b])] = AppNode[b] /\ Home[Special(n)] = n
          BY SpecialHome
        <5>. QED BY <4>2, <5>1
      <4>. QED BY <2>1, <4>1, <4>3, SpecialHome
    <3>. QED BY <3>1, <3>2
  <2>. QED BY <2>3, <2>4
<1>11. ASSUME NEW a \in App, Send(a) PROVE MutexInv' /\ HostHeld'
  BY <1>11 DEF Send
<1>12. ASSUME NEW a \in App, Take(a) PROVE MutexInv' /\ HostHeld'
  <2>1. /\ pc[a] = "recv" /\ UNCHANGED <<objs, addr, lst, req>>
        /\ pc' = pc \/ pc' = [pc EXCEPT ![a] = "return"]
    BY <1>12 DEF Take
  <2>. QED BY <2>1
<1>13. ASSUME NEW a \in App, Timeout(a) PROVE MutexInv' /\ HostHeld'
  BY <1>13 DEF Timeout
<1>14. ASSUME NEW a \in App, Return(a) PROVE MutexInv' /\ HostHeld'
  BY <1>14 DEF Return
<1>15. ASSUME NEW a \in App, ListenSyncTake(a) PROVE MutexInv' /\ HostHeld'
  BY <1>15 DEF ListenSyncTake
<1>16. ASSUME NEW a \in App, ListenSyncTimeout(a) PROVE MutexInv' /\ HostHeld'
  BY <1>16 DEF ListenSyncTimeout
<1>17. ASSUME NEW a \in App, ListenSyncRespond(a) PROVE MutexInv' /\ HostHeld'
  <2>1. /\ Respond(AppNode[a], got[a][1]) /\ pc[a] = "respond"
        /\ pc' = [pc EXCEPT ![a] = "return"]
        /\ UNCHANGED <<objs, lst, req>>
    BY <1>17 DEF ListenSyncRespond
  <2>2. \A m \in Node : addr'[Special(m)] = addr[Special(m)]
    BY <2>1, SpecialKept
  <2>. QED BY <2>1, <2>2
<1>. QED
  BY <1>2, <1>3, <1>4, <1>5, <1>6, <1>7, <1>8, <1>9, <1>10, <1>11, <1>12, <1>13, <1>14,
     <1>15, <1>16, <1>17 DEF Next, Listener, Thread

\* The first two conjuncts of CallInv.
LEMMA CallStep ==
    ASSUME IInv, [Next]_vars
    PROVE  /\ \A a \in App : pc'[a] # "idle" => req'[a] \in Requests[a] /\ call'[a] \in 1..calls'
           /\ \A a, b \in App : pc'[a] # "idle" /\ pc'[b] # "idle" /\ call'[a] = call'[b] => a = b
<1>1. /\ \A a \in App : pc[a] # "idle" => req[a] \in Requests[a] /\ call[a] \in 1..calls
      /\ \A a, b \in App : pc[a] # "idle" /\ pc[b] # "idle" /\ call[a] = call[b] => a = b
      /\ calls \in Nat /\ DOMAIN req = App /\ DOMAIN call = App /\ DOMAIN pc = App
  BY Constants DEF IInv, CallInv, TypeOK
<1>2. CASE UNCHANGED <<req, call, calls>> /\ \A a \in App : pc'[a] # "idle" => pc[a] # "idle"
  BY <1>1, <1>2
<1>3. ASSUME NEW a \in App, Ask(a)
      PROVE  /\ \A b \in App : pc'[b] # "idle" => req'[b] \in Requests[b] /\ call'[b] \in 1..calls'
             /\ \A b, c \in App : pc'[b] # "idle" /\ pc'[c] # "idle" /\ call'[b] = call'[c] => b = c
  <2>1. PICK r \in Requests[a] :
          /\ req' = [req EXCEPT ![a] = r]
          /\ pc' = [pc EXCEPT ![a] = IF r.service.way = "listen" THEN "listen" ELSE "lock"]
    BY <1>3 DEF Ask
  <2>2. calls' = calls + 1 /\ call' = [call EXCEPT ![a] = calls + 1]
    BY <1>3 DEF Ask
  <2>3. req'[a] = r /\ call'[a] = calls + 1
    BY <1>1, <2>1, <2>2
  <2>4. \A b \in App : b # a => pc'[b] = pc[b] /\ req'[b] = req[b] /\ call'[b] = call[b]
    BY <1>1, <2>1, <2>2
  <2>. QED BY <1>1, <2>2, <2>3, <2>4
<1>4. ASSUME NEW a \in App, Return(a)
      PROVE  /\ \A b \in App : pc'[b] # "idle" => req'[b] \in Requests[b] /\ call'[b] \in 1..calls'
             /\ \A b, c \in App : pc'[b] # "idle" /\ pc'[c] # "idle" /\ call'[b] = call'[c] => b = c
  <2>1. /\ pc' = [pc EXCEPT ![a] = "idle"] /\ req' = [req EXCEPT ![a] = NoRequest]
        /\ call' = [call EXCEPT ![a] = 0] /\ calls' = calls
    BY <1>4 DEF Return
  <2>2. pc'[a] = "idle"
    BY <1>1, <2>1
  <2>3. \A b \in App : b # a => pc'[b] = pc[b] /\ req'[b] = req[b] /\ call'[b] = call[b]
    BY <1>1, <2>1
  <2>. QED BY <1>1, <2>1, <2>2, <2>3
<1>5. CASE UNCHANGED <<pc, req, call, calls>>
  BY <1>1, <1>5
<1>6. CASE Lose \/ (\E n \in Node : Channel(n) \/ Listener(n)) \/ UNCHANGED vars
  BY <1>5, <1>6 DEF Lose, Channel, Deliver, ClearOldFrames, Listener, Listen_Async, ListenLock,
     ListenServe, ListenIdle, app_vars, vars
<1>7. ASSUME NEW a \in App, Lock(a) \/ Send(a) \/ Take(a) \/ Timeout(a) \/ ListenSyncTake(a)
                            \/ ListenSyncTimeout(a) \/ ListenSyncRespond(a)
      PROVE  UNCHANGED <<req, call, calls>> /\ \A b \in App : pc'[b] # "idle" => pc[b] # "idle"
  <2>1. /\ UNCHANGED <<req, call, calls>> /\ pc[a] # "idle"
        /\ \A b \in App : b # a => pc'[b] = pc[b]
    BY <1>1, <1>7 DEF Lock, Send, Take, Timeout, ListenSyncTake, ListenSyncTimeout,
       ListenSyncRespond
  <2>. QED BY <2>1
<1>. QED BY <1>2, <1>3, <1>4, <1>6, <1>7 DEF Next, Thread

-----------------------------------------------------------------------------
(* One step: the frames and the history.                                   *)

HistoryOK ==
    /\ FrameInv /\ OneCopy /\ PerformedOnce
    /\ \A c \in 1..MaxCalls : performed[c] # <<>> => c <= calls /\ ~Asking(c)
    /\ DOMAIN performed = 1..MaxCalls
    /\ \A c \in 1..MaxCalls : performed[c] \in Seq(Range(performed[c]))

\* A frame is let into the queue.
LEMMA DeliverKeeps ==
    ASSUME IInv, NEW n \in Node, Deliver(n)
    PROVE  HistoryOK'
<1>1. PICK copy \in net :
        /\ copy.at = n /\ net' = net \ {copy}
        /\ \/ rx' = rx
           \/ rx' = [rx EXCEPT ![n] = Append(@, [frame |-> copy.frame, fresh |-> TRUE])]
        /\ UNCHANGED <<pc, got, call, calls, performed>>
  BY DEF Deliver, app_vars
<1>2. /\ DOMAIN performed' = 1..MaxCalls
      /\ \A c \in 1..MaxCalls : performed'[c] \in Seq(Range(performed'[c]))
      /\ calls' \in Int /\ calls <= calls'
  BY <1>1 DEF IInv, TypeOK
<1>3. CASE rx' = rx
  <2>1. Thins([m \in Node |-> [i \in Nat |-> i]])
    BY <1>3, SameQueues
  <2>. QED BY <1>1, <1>2, <2>1, Kept DEF HistoryOK
<1>4. CASE rx' = [rx EXCEPT ![n] = Append(@, [frame |-> copy.frame, fresh |-> TRUE])]
  <2>. DEFINE f == copy.frame
              e == [frame |-> f, fresh |-> TRUE]
              q == Append(rx[n], e)
              k == Len(rx[n]) + 1
  <2>1. /\ DOMAIN rx = Node /\ rx[n] \in Seq(Range(rx[n]))
        /\ DOMAIN rx[n] = 1..Len(rx[n]) /\ Len(rx[n]) \in Nat
    BY QueueFacts DEF IInv, TypeOK
  <2>2. /\ DOMAIN q = 1..k /\ q[k] = e
        /\ \A i \in 1..Len(rx[n]) : q[i] = rx[n][i]
    BY <2>1, Pushed
  <2>3. e.frame = f /\ IsEntry(e)
    BY DEF IsEntry
  <2>. HIDE DEF e, q
  <2>4. rx'[n] = q /\ DOMAIN rx' = Node /\ \A m \in Node : m # n => rx'[m] = rx[m]
    BY <1>4, <2>1 DEF e, q
  <2>5. \A i \in DOMAIN rx'[n] : \/ i \in DOMAIN rx[n] /\ rx'[n][i] = rx[n][i]
                                 \/ i = k /\ rx'[n][i] = e
    BY <2>1, <2>2, <2>4
  <2>. HIDE DEF f, k
  <2>6. \A m \in Node : \A i \in DOMAIN rx'[m] :
          \/ i \in DOMAIN rx[m] /\ rx'[m][i] = rx[m][i]
          \/ m = n /\ i = k /\ rx'[m][i].frame = f /\ IsEntry(rx'[m][i])
    BY <2>3, <2>4, <2>5
  <2>7. FrameOK(f) /\ copy.at = n /\ f = copy.frame
    BY <1>1 DEF IInv, FrameInv, f
  <2>8. \A h : FrameOK(h) => FrameOK(h)'
    BY <1>1 DEF FrameOK, Asking
  <2>9. FrameInv'
    <3>1. \A x \in net' : FrameOK(x.frame)
      BY <1>1 DEF IInv, FrameInv
    <3>2. \A m \in Node : \A i \in DOMAIN rx'[m] : FrameOK(rx'[m][i].frame) /\ IsEntry(rx'[m][i])
      <4>1. \A m \in Node : \A i \in DOMAIN rx[m] : FrameOK(rx[m][i].frame) /\ IsEntry(rx[m][i])
        BY DEF IInv, FrameInv
      <4>. QED BY <2>6, <2>7, <4>1
    <3>3. \A a \in App : pc'[a] = "respond" =>
            FrameOK(got'[a][1]) /\ got'[a][1].type \in RequestTypes
      BY <1>1 DEF IInv, FrameInv
    <3>. QED BY <2>8, <3>1, <3>2, <3>3 DEF FrameInv, FrameOK
  <2>10. OneCopy'
    <3>1. \A x, y \in net' : x.at = y.at /\ SameRequest(x.frame, y.frame) => x = y
      BY <1>1 DEF IInv, OneCopy
    <3>2. \A x \in net' : x.at \in Node /\ x \in net /\ (x.at = n => ~SameRequest(x.frame, f))
      BY <1>1, <2>7 DEF IInv, TypeOK, OneCopy
    <3>3. \A x \in net' : \A i \in DOMAIN rx'[x.at] : ~SameRequest(x.frame, rx'[x.at][i].frame)
      <4>1. \A x \in net : \A i \in DOMAIN rx[x.at] : ~SameRequest(x.frame, rx[x.at][i].frame)
        BY DEF IInv, OneCopy
      <4>. QED BY <2>6, <3>2, <4>1
    <3>4. \A x \in net' : \A a \in App :
            pc'[a] = "respond" /\ AppNode[a] = x.at => ~SameRequest(x.frame, got'[a][1])
      BY <1>1 DEF IInv, OneCopy
    <3>5. \A x \in net' : x.frame.type \in RequestTypes => ~ActedAt(x.at, x.frame.call)
      BY <1>1 DEF IInv, OneCopy
    <3>6. \A m \in Node : \A i, j \in DOMAIN rx'[m] :
            SameRequest(rx'[m][i].frame, rx'[m][j].frame) => i = j
      <4>1. \A m \in Node : \A i, j \in DOMAIN rx[m] :
              SameRequest(rx[m][i].frame, rx[m][j].frame) => i = j
        BY DEF IInv, OneCopy
      <4>2. \A i \in DOMAIN rx[n] : ~SameRequest(rx[n][i].frame, f) /\ ~SameRequest(f, rx[n][i].frame)
        BY <2>7 DEF IInv, OneCopy, SameRequest
      <4>. QED BY <2>6, <4>1, <4>2
    <3>7. \A a \in App : \A i \in DOMAIN rx'[AppNode[a]] :
            pc'[a] = "respond" => ~SameRequest(got'[a][1], rx'[AppNode[a]][i].frame)
      <4>1. \A a \in App : \A i \in DOMAIN rx[AppNode[a]] :
              pc[a] = "respond" => ~SameRequest(got[a][1], rx[AppNode[a]][i].frame)
        BY DEF IInv, OneCopy
      <4>2. \A a \in App : pc[a] = "respond" /\ AppNode[a] = n => ~SameRequest(got[a][1], f)
        BY <2>7 DEF IInv, OneCopy, SameRequest
      <4>. QED BY <1>1, <2>6, <4>1, <4>2, Constants
    <3>8. \A m \in Node : \A i \in DOMAIN rx'[m] :
            rx'[m][i].frame.type \in RequestTypes => ~ActedAt(m, rx'[m][i].frame.call)
      <4>1. \A m \in Node : \A i \in DOMAIN rx[m] :
              rx[m][i].frame.type \in RequestTypes => ~ActedAt(m, rx[m][i].frame.call)
        BY DEF IInv, OneCopy
      <4>2. f.type \in RequestTypes => ~ActedAt(n, f.call)
        BY <2>7 DEF IInv, OneCopy
      <4>. QED BY <2>6, <4>1, <4>2
    <3>9. /\ \A a, b \in App :
               /\ pc'[a] = "respond" /\ pc'[b] = "respond" /\ AppNode[a] = AppNode[b]
               /\ SameRequest(got'[a][1], got'[b][1])
               => a = b
          /\ \A a \in App : pc'[a] = "respond" => ~ActedAt(AppNode[a], got'[a][1].call)
      BY <1>1 DEF IInv, OneCopy
    <3>10. performed' = performed
      BY <1>1
    <3>. QED BY <3>1, <3>3, <3>4, <3>5, <3>6, <3>7, <3>8, <3>9, <3>10
         DEF OneCopy, SameRequest, ActedAt
  <2>11. PerformedOnce' /\ \A c \in 1..MaxCalls : performed'[c] # <<>> => c <= calls' /\ ~Asking(c)'
    BY <1>1 DEF IInv, PerformedOnce, CallInv, Asking
  <2>. QED BY <1>2, <2>9, <2>10, <2>11 DEF HistoryOK
<1>. QED BY <1>1, <1>3, <1>4

\* A call sends its one frame: nothing of the call has been seen before.
LEMMA SendKeeps ==
    ASSUME IInv, NEW a \in App, Send(a)
    PROVE  HistoryOK'
<1>. DEFINE n == AppNode[a]
            f == Question(a)
            g == [m \in Node |-> [i \in Nat |-> i]]
<1>1. /\ pc[a] = "send" /\ net' = net \cup Sent(n, {f})
      /\ \/ rx' = rx
         \/ rx' = [rx EXCEPT ![n] = [i \in DOMAIN @ |-> [frame |-> @[i].frame, fresh |-> FALSE]]]
      /\ pc' = [pc EXCEPT ![a] = IF Waits(req[a].service) THEN "recv" ELSE "return"]
      /\ UNCHANGED <<got, call, calls, performed>>
  BY DEF Send
<1>2. /\ n \in Node /\ calls \in Nat /\ DOMAIN pc = App
      /\ DOMAIN performed' = 1..MaxCalls
      /\ \A c \in 1..MaxCalls : performed'[c] \in Seq(Range(performed'[c]))
  <2>1. n \in Node /\ calls \in Nat /\ DOMAIN pc = App
    BY Constants DEF IInv, TypeOK
  <2>2. /\ DOMAIN performed = 1..MaxCalls
        /\ \A c \in 1..MaxCalls : performed[c] \in Seq(Range(performed[c]))
    BY DEF IInv, TypeOK
  <2>. QED BY <1>1, <2>1, <2>2
<1>3. /\ f.call = call[a] /\ f.call \in 1..calls
      /\ f.type \in Writes => f.val \in Value
      /\ f.type \in Renames => f.val \in Address
  <2>1. f.call = call[a] /\ f.type = req[a].service.asks /\ f.val = req[a].val
    BY DEF Question, Frame
  <2>2. call[a] \in 1..calls /\ req[a] \in Requests[a]
    BY <1>1 DEF IInv, CallInv
  <2>. QED BY <2>1, <2>2, RequestAssumption
<1>4. \A x \in net' : x \in net \/ (x.at \in Node /\ x.frame = f)
  BY <1>1 DEF Sent
<1>5. \A x, y \in net' : x.at = y.at /\ x.frame = f /\ y.frame = f /\ x \notin net /\ y \notin net
        => x = y
  BY <1>1 DEF Sent
<1>. HIDE DEF n, f, g
<1>6. Asking(f.call) /\ pc'[a] \notin {"lock", "send", "respond"}
      /\ \A b \in App : b # a => pc'[b] = pc[b]
  BY <1>1, <1>2, <1>3 DEF Asking
<1>7. \A c : Asking(c)' => Asking(c) /\ c # f.call
  <2>. SUFFICES ASSUME NEW b \in App, pc'[b] \in {"lock", "send"}
                PROVE  Asking(call[b]) /\ call[b] # f.call
    BY <1>1 DEF Asking
  <2>1. b # a /\ pc[b] \in {"lock", "send"}
    BY <1>6
  <2>2. call[b] # call[a]
    BY <1>1, <2>1 DEF IInv, CallInv
  <2>. QED BY <1>3, <2>1, <2>2 DEF Asking
<1>8. Thins(g)
  BY <1>1, <1>2, SameQueues, AgedQueue DEF g
<1>9. \A m \in Node : \A i \in DOMAIN rx'[m] :
        i \in DOMAIN rx[m] /\ rx'[m][i].frame = rx[m][i].frame /\ IsEntry(rx'[m][i])
  <2>1. \A m \in Node : \A i \in DOMAIN rx'[m] :
          g[m][i] \in DOMAIN rx[m] /\ rx'[m][i].frame = rx[m][g[m][i]].frame /\ IsEntry(rx'[m][i])
    BY <1>8 DEF Thins
  <2>2. \A m \in Node : DOMAIN rx'[m] \subseteq Nat
    <3>1. QueuesOK'
      BY <1>1, <1>2, SameQueues, AgedQueue
    <3>. QED BY <3>1, OwnElements DEF QueuesOK
  <2>. QED BY <2>1, <2>2 DEF g
<1>10. /\ \A x \in net : x.frame.call # f.call
       /\ \A m \in Node : \A i \in DOMAIN rx[m] : rx[m][i].frame.call # f.call
       /\ \A b \in App : pc[b] = "respond" => got[b][1].call # f.call
       /\ \A c \in 1..MaxCalls : performed[c] # <<>> => c # f.call
  BY <1>6 DEF IInv, FrameInv, FrameOK, CallInv
<1>11. \A h : FrameOK(h) \/ h = f => FrameOK(h)'
  BY <1>1, <1>3, <1>7 DEF FrameOK
<1>12. FrameInv'
  <2>1. \A x \in net' : FrameOK(x.frame) \/ x.frame = f
    BY <1>4 DEF IInv, FrameInv
  <2>2. \A m \in Node : \A i \in DOMAIN rx'[m] : FrameOK(rx'[m][i].frame) /\ IsEntry(rx'[m][i])
    BY <1>9 DEF IInv, FrameInv
  <2>3. \A b \in App : pc'[b] = "respond" =>
          FrameOK(got'[b][1]) /\ got'[b][1].type \in RequestTypes
    BY <1>1, <1>6 DEF IInv, FrameInv
  <2>. QED BY <1>11, <2>1, <2>2, <2>3 DEF FrameInv, FrameOK
<1>13. OneCopy'
  <2>0. f.call \in 1..MaxCalls
    BY <1>2, <1>3, Constants DEF IInv, TypeOK
  <2>1. \A x, y \in net' : x.at = y.at /\ SameRequest(x.frame, y.frame) => x = y
    <3>1. \A x, y \in net : x.at = y.at /\ SameRequest(x.frame, y.frame) => x = y
      BY DEF IInv, OneCopy
    <3>2. \A x, y \in net' : SameRequest(x.frame, y.frame) => x.frame.call = y.frame.call
      BY DEF SameRequest
    <3>. QED BY <1>4, <1>5, <1>10, <3>1, <3>2
  <2>2. \A x \in net' : \A i \in DOMAIN rx'[x.at] : ~SameRequest(x.frame, rx'[x.at][i].frame)
    <3>1. \A x \in net : x.at \in Node /\ \A i \in DOMAIN rx[x.at] : ~SameRequest(x.frame, rx[x.at][i].frame)
      BY DEF IInv, OneCopy, TypeOK
    <3>2. \A m \in Node : \A i \in DOMAIN rx[m] : ~SameRequest(f, rx[m][i].frame)
      BY <1>10 DEF SameRequest
    <3>. QED BY <1>4, <1>9, <3>1, <3>2
  <2>3. \A x \in net' : \A b \in App :
          pc'[b] = "respond" /\ AppNode[b] = x.at => ~SameRequest(x.frame, got'[b][1])
    <3>1. \A x \in net : \A b \in App :
            pc[b] = "respond" /\ AppNode[b] = x.at => ~SameRequest(x.frame, got[b][1])
      BY DEF IInv, OneCopy
    <3>2. \A b \in App : pc[b] = "respond" => ~SameRequest(f, got[b][1])
      BY <1>10 DEF SameRequest
    <3>. QED BY <1>1, <1>4, <1>6, <3>1, <3>2
  <2>4. \A x \in net' : x.frame.type \in RequestTypes => ~ActedAt(x.at, x.frame.call)
    <3>1. \A m : ~ActedAt(m, f.call)
      BY <1>10, <2>0 DEF ActedAt
    <3>2. \A x \in net : x.frame.type \in RequestTypes => ~ActedAt(x.at, x.frame.call)
      BY DEF IInv, OneCopy
    <3>. QED BY <1>4, <3>1, <3>2
  <2>5. \A m \in Node : \A i, j \in DOMAIN rx'[m] :
          SameRequest(rx'[m][i].frame, rx'[m][j].frame) => i = j
    <3>1. \A m \in Node : \A i, j \in DOMAIN rx[m] :
            SameRequest(rx[m][i].frame, rx[m][j].frame) => i = j
      BY DEF IInv, OneCopy
    <3>. QED BY <1>9, <3>1
  <2>6. \A b \in App : \A i \in DOMAIN rx'[AppNode[b]] :
          pc'[b] = "respond" => ~SameRequest(got'[b][1], rx'[AppNode[b]][i].frame)
    <3>1. \A b \in App : \A i \in DOMAIN rx[AppNode[b]] :
            pc[b] = "respond" => ~SameRequest(got[b][1], rx[AppNode[b]][i].frame)
      BY DEF IInv, OneCopy
    <3>. QED BY <1>1, <1>6, <1>9, <3>1, Constants
  <2>7. \A m \in Node : \A i \in DOMAIN rx'[m] :
          rx'[m][i].frame.type \in RequestTypes => ~ActedAt(m, rx'[m][i].frame.call)
    <3>1. \A m \in Node : \A i \in DOMAIN rx[m] :
            rx[m][i].frame.type \in RequestTypes => ~ActedAt(m, rx[m][i].frame.call)
      BY DEF IInv, OneCopy
    <3>. QED BY <1>9, <3>1
  <2>8. /\ \A b, c \in App :
             /\ pc'[b] = "respond" /\ pc'[c] = "respond" /\ AppNode[b] = AppNode[c]
             /\ SameRequest(got'[b][1], got'[c][1])
             => b = c
        /\ \A b \in App : pc'[b] = "respond" => ~ActedAt(AppNode[b], got'[b][1].call)
    BY <1>1, <1>6 DEF IInv, OneCopy
  <2>9. performed' = performed
    BY <1>1
  <2>. QED BY <2>1, <2>2, <2>3, <2>4, <2>5, <2>6, <2>7, <2>8, <2>9 DEF OneCopy, SameRequest, ActedAt
<1>14. PerformedOnce' /\ \A c \in 1..MaxCalls : performed'[c] # <<>> => c <= calls' /\ ~Asking(c)'
  BY <1>1, <1>7 DEF IInv, PerformedOnce, CallInv
<1>. QED BY <1>2, <1>12, <1>13, <1>14 DEF HistoryOK

\* Listen_Sync takes a request out of the queue into its hands.
LEMMA ListenSyncTakeKeeps ==
    ASSUME IInv, NEW a \in App, ListenSyncTake(a)
    PROVE  HistoryOK'
<1>. DEFINE n == AppNode[a]
            k == FirstRequest(n)
            f == rx[n][k].frame
            g == Shift(n, k)
<1>1. /\ pc[a] = "listen" /\ k # 0
      /\ rx' = [rx EXCEPT ![n] = RemoveAt(@, k)]
      /\ got' = [got EXCEPT ![a] = <<f>>]
      /\ pc' = [pc EXCEPT ![a] = "respond"]
      /\ UNCHANGED <<net, call, calls, performed>>
  BY DEF ListenSyncTake
<1>2. /\ n \in Node /\ calls \in Nat /\ DOMAIN pc = App /\ DOMAIN got = App
      /\ k \in DOMAIN rx[n] /\ f.type \in RequestTypes
  <2>1. n \in Node /\ calls \in Nat /\ DOMAIN pc = App /\ DOMAIN got = App
    BY Constants DEF IInv, TypeOK
  <2>2. k \in DOMAIN rx[n] /\ f.type \in RequestTypes
    BY <1>1, <2>1, FirstRequestFacts DEF IInv
  <2>. QED BY <2>1, <2>2
<1>3. /\ DOMAIN performed' = 1..MaxCalls
      /\ \A c \in 1..MaxCalls : performed'[c] \in Seq(Range(performed'[c]))
  BY <1>1 DEF IInv, TypeOK
<1>4. Thins(g) /\ \A i \in DOMAIN rx'[n] : g[n][i] # k
  BY <1>1, <1>2, LeftQueue
<1>5. FrameOK(f)
  BY <1>2 DEF IInv, FrameInv
<1>6. /\ \A i \in DOMAIN rx[n] : SameRequest(rx[n][i].frame, f) => i = k
      /\ \A x \in net : x.at = n => ~SameRequest(x.frame, f)
      /\ \A b \in App : pc[b] = "respond" /\ AppNode[b] = n => ~SameRequest(got[b][1], f)
      /\ ~ActedAt(n, f.call)
  <2>1. \A i \in DOMAIN rx[n] : SameRequest(rx[n][i].frame, f) => i = k
    BY <1>2 DEF IInv, OneCopy
  <2>2. \A x \in net : x.at = n => ~SameRequest(x.frame, f)
    BY <1>2 DEF IInv, OneCopy
  <2>3. \A b \in App : pc[b] = "respond" /\ AppNode[b] = n => ~SameRequest(got[b][1], f)
    <3>1. \A b \in App : \A i \in DOMAIN rx[AppNode[b]] :
            pc[b] = "respond" => ~SameRequest(got[b][1], rx[AppNode[b]][i].frame)
      BY DEF IInv, OneCopy
    <3>. QED BY <1>2, <3>1
  <2>4. ~ActedAt(n, f.call)
    BY <1>2 DEF IInv, OneCopy
  <2>. QED BY <2>1, <2>2, <2>3, <2>4
<1>7. AppNode[a] = n /\ \A b \in App : AppNode[b] \in Node
  BY Constants
<1>. HIDE DEF n, k, f, g
<1>8. /\ pc'[a] = "respond" /\ got'[a][1] = f
      /\ \A b \in App : b # a => pc'[b] = pc[b] /\ got'[b] = got[b]
  BY <1>1, <1>2
<1>9. \A m \in Node : \A i \in DOMAIN rx'[m] :
        g[m][i] \in DOMAIN rx[m] /\ rx'[m][i].frame = rx[m][g[m][i]].frame /\ IsEntry(rx'[m][i])
  BY <1>4 DEF Thins
<1>10. \A m \in Node : \A i, j \in DOMAIN rx'[m] : g[m][i] = g[m][j] => i = j
  BY <1>4 DEF Thins
<1>11. \A i \in DOMAIN rx'[n] : ~SameRequest(rx'[n][i].frame, f) /\ ~SameRequest(f, rx'[n][i].frame)
  <2>1. \A i \in DOMAIN rx'[n] : ~SameRequest(rx'[n][i].frame, f)
    BY <1>2, <1>4, <1>6, <1>9
  <2>. QED BY <2>1 DEF SameRequest
<1>12. \A c : Asking(c)' => Asking(c)
  BY <1>1, <1>8 DEF Asking
<1>13. \A h : FrameOK(h) => FrameOK(h)'
  BY <1>1, <1>12 DEF FrameOK
<1>14. FrameInv'
  <2>1. \A x \in net' : FrameOK(x.frame)
    BY <1>1 DEF IInv, FrameInv
  <2>2. \A m \in Node : \A i \in DOMAIN rx'[m] : FrameOK(rx'[m][i].frame) /\ IsEntry(rx'[m][i])
    <3>1. \A m \in Node : \A i \in DOMAIN rx[m] : FrameOK(rx[m][i].frame)
      BY DEF IInv, FrameInv
    <3>. QED BY <1>9, <3>1
  <2>3. \A b \in App : pc'[b] = "respond" =>
          FrameOK(got'[b][1]) /\ got'[b][1].type \in RequestTypes
    BY <1>2, <1>5, <1>8 DEF IInv, FrameInv
  <2>. QED BY <1>13, <2>1, <2>2, <2>3 DEF FrameInv, FrameOK
<1>15. OneCopy'
  <2>1. \A x, y \in net' : x.at = y.at /\ SameRequest(x.frame, y.frame) => x = y
    BY <1>1 DEF IInv, OneCopy
  <2>2. \A x \in net' : \A i \in DOMAIN rx'[x.at] : ~SameRequest(x.frame, rx'[x.at][i].frame)
    <3>1. \A x \in net : x.at \in Node /\ \A i \in DOMAIN rx[x.at] : ~SameRequest(x.frame, rx[x.at][i].frame)
      BY DEF IInv, OneCopy, TypeOK
    <3>. QED BY <1>1, <1>9, <3>1, ZenonT(60)
  <2>3. \A x \in net' : \A b \in App :
          pc'[b] = "respond" /\ AppNode[b] = x.at => ~SameRequest(x.frame, got'[b][1])
    <3>1. \A x \in net : \A b \in App :
            pc[b] = "respond" /\ AppNode[b] = x.at => ~SameRequest(x.frame, got[b][1])
      BY DEF IInv, OneCopy
    <3>. QED BY <1>1, <1>6, <1>7, <1>8, <3>1
  <2>4. \A x \in net' : x.frame.type \in RequestTypes => ~ActedAt(x.at, x.frame.call)
    BY <1>1 DEF IInv, OneCopy
  <2>5. \A m \in Node : \A i, j \in DOMAIN rx'[m] :
          SameRequest(rx'[m][i].frame, rx'[m][j].frame) => i = j
    <3>1. \A m \in Node : \A i, j \in DOMAIN rx[m] :
            SameRequest(rx[m][i].frame, rx[m][j].frame) => i = j
      BY DEF IInv, OneCopy
    <3>. QED BY <1>9, <1>10, <3>1
  <2>6. \A b \in App : \A i \in DOMAIN rx'[AppNode[b]] :
          pc'[b] = "respond" => ~SameRequest(got'[b][1], rx'[AppNode[b]][i].frame)
    <3>1. \A b \in App : \A i \in DOMAIN rx[AppNode[b]] :
            pc[b] = "respond" => ~SameRequest(got[b][1], rx[AppNode[b]][i].frame)
      BY DEF IInv, OneCopy
    <3>. QED BY <1>7, <1>8, <1>9, <1>11, <3>1
  <2>7. \A m \in Node : \A i \in DOMAIN rx'[m] :
          rx'[m][i].frame.type \in RequestTypes => ~ActedAt(m, rx'[m][i].frame.call)
    <3>1. \A m \in Node : \A i \in DOMAIN rx[m] :
            rx[m][i].frame.type \in RequestTypes => ~ActedAt(m, rx[m][i].frame.call)
      BY DEF IInv, OneCopy
    <3>. QED BY <1>9, <3>1
  <2>8. \A b, c \in App :
          /\ pc'[b] = "respond" /\ pc'[c] = "respond" /\ AppNode[b] = AppNode[c]
          /\ SameRequest(got'[b][1], got'[c][1])
          => b = c
    <3>1. \A b, c \in App :
            /\ pc[b] = "respond" /\ pc[c] = "respond" /\ AppNode[b] = AppNode[c]
            /\ SameRequest(got[b][1], got[c][1])
            => b = c
      BY DEF IInv, OneCopy
    <3>2. \A b \in App : b # a /\ pc'[b] = "respond" /\ AppNode[b] = n =>
            ~SameRequest(got'[b][1], f) /\ ~SameRequest(f, got'[b][1])
      BY <1>6, <1>8 DEF SameRequest
    <3>. QED BY <1>7, <1>8, <3>1, <3>2
  <2>9. \A b \in App : pc'[b] = "respond" => ~ActedAt(AppNode[b], got'[b][1].call)
    BY <1>6, <1>7, <1>8 DEF IInv, OneCopy
  <2>10. performed' = performed
    BY <1>1
  <2>. QED BY <2>1, <2>2, <2>3, <2>4, <2>5, <2>6, <2>7, <2>8, <2>9, <2>10
       DEF OneCopy, SameRequest, ActedAt
<1>16. PerformedOnce' /\ \A c \in 1..MaxCalls : performed'[c] # <<>> => c <= calls' /\ ~Asking(c)'
  BY <1>1, <1>12 DEF IInv, PerformedOnce, CallInv
<1>. QED BY <1>3, <1>14, <1>15, <1>16 DEF HistoryOK

\* The listener takes a request out of the queue, and its devices act on it.
LEMMA ListenServeKeeps ==
    ASSUME IInv, NEW n \in Node, ListenServe(n)
    PROVE  HistoryOK'
<1>. DEFINE k == FirstRequest(n)
            f == rx[n][k].frame
            g == Shift(n, k)
<1>1. /\ k # 0 /\ Respond(n, f) /\ rx' = [rx EXCEPT ![n] = RemoveAt(@, k)]
      /\ UNCHANGED <<pc, got, call, calls>>
  BY DEF ListenServe, app_vars
<1>2. k \in DOMAIN rx[n] /\ f.type \in RequestTypes
  BY <1>1, FirstRequestFacts DEF IInv
<1>3. FrameOK(f)
  BY <1>2 DEF IInv, FrameInv
<1>4. Thins(g) /\ \A i \in DOMAIN rx'[n] : g[n][i] # k
  BY <1>1, <1>2, LeftQueue
<1>5. \A i \in DOMAIN rx'[n] : ~SameRequest(rx'[n][i].frame, f)
  <2>1. \A i \in DOMAIN rx[n] : SameRequest(rx[n][i].frame, f) => i = k
    BY <1>2 DEF IInv, OneCopy
  <2>2. \A i \in DOMAIN rx'[n] : g[n][i] \in DOMAIN rx[n] /\ rx'[n][i].frame = rx[n][g[n][i]].frame
    BY <1>4 DEF Thins
  <2>. QED BY <1>4, <2>1, <2>2
<1>6. /\ \A x \in net : x.at = n => ~SameRequest(x.frame, f)
      /\ ~ActedAt(n, f.call)
  BY <1>2 DEF IInv, OneCopy
<1>7. \A b \in App : pc[b] = "respond" /\ AppNode[b] = n => ~SameRequest(got[b][1], f)
  <2>1. \A b \in App : \A i \in DOMAIN rx[AppNode[b]] :
          pc[b] = "respond" => ~SameRequest(got[b][1], rx[AppNode[b]][i].frame)
    BY DEF IInv, OneCopy
  <2>. QED BY <1>2, <2>1
<1>. HIDE DEF k, f, g
<1>. QED BY <1>1, <1>2, <1>3, <1>4, <1>5, <1>6, <1>7, Served DEF HistoryOK

\* Listen_Sync lets the devices act on the request in its hands.
LEMMA ListenSyncRespondKeeps ==
    ASSUME IInv, NEW a \in App, ListenSyncRespond(a)
    PROVE  HistoryOK'
<1>. DEFINE n == AppNode[a]
            f == got[a][1]
            g == [m \in Node |-> [i \in Nat |-> i]]
<1>1. /\ pc[a] = "respond" /\ Respond(n, f) /\ pc' = [pc EXCEPT ![a] = "return"]
      /\ UNCHANGED <<rx, got, call, calls>>
  BY DEF ListenSyncRespond
<1>2. n \in Node /\ DOMAIN pc = App
  BY Constants DEF IInv, TypeOK
<1>3. FrameOK(f) /\ f.type \in RequestTypes
  BY <1>1 DEF IInv, FrameInv
<1>4. Thins(g)
  BY <1>1, SameQueues
<1>5. \A i \in DOMAIN rx'[n] : ~SameRequest(rx'[n][i].frame, f)
  <2>1. \A b \in App : \A i \in DOMAIN rx[AppNode[b]] :
          pc[b] = "respond" => ~SameRequest(got[b][1], rx[AppNode[b]][i].frame)
    BY DEF IInv, OneCopy
  <2>2. \A i \in DOMAIN rx'[n] : ~SameRequest(f, rx'[n][i].frame)
    BY <1>1, <2>1
  <2>. QED BY <2>2 DEF SameRequest
<1>6. \A x \in net : x.at = n => ~SameRequest(x.frame, f)
  BY <1>1 DEF IInv, OneCopy
<1>7. ~ActedAt(n, f.call)
  BY <1>1 DEF IInv, OneCopy
<1>8. \A b \in App : b # a /\ pc[b] = "respond" /\ AppNode[b] = n => ~SameRequest(got[b][1], f)
  BY <1>1 DEF IInv, OneCopy
<1>. HIDE DEF n, f, g
<1>9. pc'[a] = "return" /\ \A b \in App : b # a => pc'[b] = pc[b]
  BY <1>1, <1>2
<1>10. /\ \A b \in App : pc'[b] = "respond" => pc[b] = "respond" /\ got'[b] = got[b]
       /\ \A b \in App : pc'[b] = "respond" /\ AppNode[b] = n => ~SameRequest(got[b][1], f)
       /\ \A b \in App : pc'[b] \in {"lock", "send"} => pc[b] \in {"lock", "send"}
  BY <1>1, <1>8, <1>9
<1>. QED BY <1>1, <1>2, <1>3, <1>4, <1>5, <1>6, <1>7, <1>10, Served DEF HistoryOK

\* Every other step keeps what it can reach.
LEMMA HistoryStep ==
    ASSUME IInv, [Next]_vars
    PROVE  HistoryOK'
<1>0. /\ calls \in Nat /\ DOMAIN pc = App /\ DOMAIN got = App /\ DOMAIN call = App
      /\ DOMAIN performed = 1..MaxCalls
      /\ \A c \in 1..MaxCalls : performed[c] \in Seq(Range(performed[c]))
  BY Constants DEF IInv, TypeOK
<1>1. ASSUME NEW g, Thins(g), net' \subseteq net, performed' = performed,
             calls' \in Int, calls <= calls',
             \A b \in App : pc'[b] = "respond" => pc[b] = "respond" /\ got'[b] = got[b],
             \A b \in App : pc'[b] \in {"lock", "send"} =>
                 \/ pc[b] \in {"lock", "send"} /\ call'[b] = call[b]
                 \/ call'[b] = calls + 1
      PROVE  HistoryOK'
  BY <1>0, <1>1, Kept DEF HistoryOK
<1>2. ASSUME rx' = rx, net' \subseteq net, performed' = performed, calls' = calls,
             UNCHANGED <<pc, got, call>>
      PROVE  HistoryOK'
  BY <1>0, <1>1, <1>2, SameQueues
<1>3. CASE UNCHANGED vars
  BY <1>2, <1>3 DEF vars, app_vars
<1>4. CASE Lose
  BY <1>2, <1>4 DEF Lose, app_vars
<1>5. ASSUME NEW n \in Node, ClearOldFrames(n) PROVE HistoryOK'
  <2>1. /\ rx[n] # <<>> /\ rx' = [rx EXCEPT ![n] = Tail(@)]
        /\ UNCHANGED <<pc, got, call, net, calls, performed>>
    BY <1>5 DEF ClearOldFrames, app_vars
  <2>2. 1 \in DOMAIN rx[n] /\ rx' = [rx EXCEPT ![n] = RemoveAt(@, 1)]
    BY <2>1, TailRemoves DEF IInv
  <2>3. Thins(Shift(n, 1))
    BY <2>2, LeftQueue
  <2>. QED BY <1>0, <1>1, <2>1, <2>3
<1>6. ASSUME NEW n \in Node, Listen_Async(n) \/ ListenLock(n) \/ ListenIdle(n) PROVE HistoryOK'
  BY <1>2, <1>6 DEF Listen_Async, ListenLock, ListenIdle, app_vars
<1>7. ASSUME NEW a \in App, Ask(a) PROVE HistoryOK'
  <2>1. PICK s \in {"listen", "lock"} : pc' = [pc EXCEPT ![a] = s]
    BY <1>7 DEF Ask
  <2>2. /\ calls' = calls + 1 /\ call' = [call EXCEPT ![a] = calls + 1]
        /\ UNCHANGED <<rx, net, got, performed>>
    BY <1>7 DEF Ask
  <2>3. \A b \in App : IF b = a THEN pc'[b] \in {"listen", "lock"} /\ call'[b] = calls + 1
                                ELSE pc'[b] = pc[b] /\ call'[b] = call[b]
    BY <1>0, <2>1, <2>2
  <2>4. Thins([m \in Node |-> [i \in Nat |-> i]])
    BY <2>2, SameQueues
  <2>. QED BY <1>0, <1>1, <2>2, <2>3, <2>4
<1>8. ASSUME NEW a \in App, pc'[a] # "respond", pc'[a] \in {"lock", "send"} => pc[a] \in {"lock", "send"},
             \A b \in App : b # a => pc'[b] = pc[b] /\ got'[b] = got[b],
             \A b \in App : pc'[b] \in {"lock", "send"} => call'[b] = call[b],
             NEW g, Thins(g), UNCHANGED <<net, calls, performed>>
      PROVE  HistoryOK'
  BY <1>0, <1>1, <1>8
<1>9. ASSUME NEW a \in App, Lock(a) PROVE HistoryOK'
  <2>1. /\ pc[a] = "lock" /\ pc'[a] = "send" /\ \A b \in App : b # a => pc'[b] = pc[b]
        /\ UNCHANGED <<rx, got, call, net, calls, performed>>
    BY <1>0, <1>9 DEF Lock
  <2>. QED BY <1>8, <2>1, SameQueues
<1>10. ASSUME NEW a \in App, Take(a) PROVE HistoryOK'
  <2>. DEFINE n == AppNode[a]
              k == FirstAnswer(a)
  <2>1. /\ pc[a] = "recv" /\ k # 0 /\ rx' = [rx EXCEPT ![n] = RemoveAt(@, k)]
        /\ pc' = pc \/ pc' = [pc EXCEPT ![a] = "return"]
        /\ got' = got \/ \E v : got' = [got EXCEPT ![a] = v]
        /\ UNCHANGED <<call, net, calls, performed>>
    BY <1>10 DEF Take
  <2>2. n \in Node /\ k \in DOMAIN rx[n]
    BY <2>1, FirstAnswerFacts, Constants DEF IInv
  <2>. HIDE DEF k, n
  <2>3. Thins(Shift(n, k))
    BY <2>1, <2>2, LeftQueue
  <2>4. /\ pc'[a] \in {"recv", "return"}
        /\ \A b \in App : b # a => pc'[b] = pc[b] /\ got'[b] = got[b]
    BY <1>0, <2>1
  <2>. QED BY <1>8, <2>1, <2>3, <2>4
<1>11. ASSUME NEW a \in App, Timeout(a) \/ ListenSyncTimeout(a) PROVE HistoryOK'
  <2>1. /\ pc'[a] = "return" /\ \A b \in App : b # a => pc'[b] = pc[b]
        /\ UNCHANGED <<rx, got, call, net, calls, performed>>
    BY <1>0, <1>11 DEF Timeout, ListenSyncTimeout
  <2>. QED BY <1>8, <2>1, SameQueues
<1>12. ASSUME NEW a \in App, Return(a) PROVE HistoryOK'
  <2>1. /\ pc'[a] = "idle"
        /\ \A b \in App : b # a => pc'[b] = pc[b] /\ got'[b] = got[b] /\ call'[b] = call[b]
        /\ UNCHANGED <<rx, net, calls, performed>>
    BY <1>0, <1>12 DEF Return
  <2>2. \A b \in App : pc'[b] \in {"lock", "send"} => call'[b] = call[b]
    BY <2>1
  <2>. QED BY <1>8, <2>1, <2>2, SameQueues
<1>. QED
  BY <1>3, <1>4, <1>5, <1>6, <1>7, <1>9, <1>10, <1>11, <1>12, DeliverKeeps, SendKeeps,
     ListenSyncTakeKeeps, ListenServeKeeps, ListenSyncRespondKeeps
  DEF Next, Channel, Listener, Thread

-----------------------------------------------------------------------------
(* Where frames and addresses come from.                                   *)

\* The frames that are somewhere: on their way, in a queue, in the hands of Listen_Sync.
Frames ==
    {x.frame : x \in net} \cup {e.frame : e \in UNION {Range(rx[n]) : n \in Node}}
    \cup {got[a][1] : a \in {b \in App : pc[b] = "respond"}}

LEMMA FramesAre ==
    /\ \A x \in net : x.frame \in Frames
    /\ \A n \in Node : \A i \in DOMAIN rx[n] : rx[n][i].frame \in Frames
    /\ \A a \in App : pc[a] = "respond" => got[a][1] \in Frames
BY DEF Frames, Range

\* The frames at process m, and those its calls can still be handed.
Held(m) ==
    {x.frame : x \in {y \in net : y.at = m}} \cup {rx[m][i].frame : i \in DOMAIN rx[m]}
    \cup {got[a][1] : a \in {b \in App : pc[b] = "respond" /\ AppNode[b] = m}}
Coming(m) ==
    {x.frame : x \in {y \in net : y.at = m}}
    \cup {rx[m][i].frame : i \in {j \in DOMAIN rx[m] : rx[m][j].fresh}}

LEMMA HeldAre ==
    /\ \A x \in net : x.frame \in Held(x.at) /\ x.frame \in Coming(x.at)
    /\ \A m : \A i \in DOMAIN rx[m] :
         /\ rx[m][i].frame \in Held(m)
         /\ rx[m][i].fresh => rx[m][i].frame \in Coming(m)
    /\ \A a \in App : pc[a] = "respond" => got[a][1] \in Held(AppNode[a])
BY DEF Held, Coming

\* A frame that is new at process m is what a call sends, or what a device answers.
SentTo(m, f) ==
    \/ \E a \in App : Send(a) /\ AppNode[a] \in Hears[m] /\ f = Question(a)
    \/ \E k \in Hears[m] : \E h \in Held(k) :
         h.type \in RequestTypes /\ Respond(k, h) /\ f \in Replies(k, h)

LEMMA HeldSources ==
    ASSUME IInv, [Next]_vars, NEW m \in Node
    PROVE  /\ \A f \in Held(m)' : f \in Held(m) \/ SentTo(m, f)
           /\ \A f \in Coming(m)' : f \in Coming(m) \/ SentTo(m, f)
<1>. DEFINE Goal == /\ \A f \in Held(m)' : f \in Held(m) \/ SentTo(m, f)
                    /\ \A f \in Coming(m)' : f \in Coming(m) \/ SentTo(m, f)
<1>0. /\ TypeOK /\ DOMAIN rx = Node /\ DOMAIN pc = App /\ DOMAIN got = App
      /\ AppNode \in [App -> Node] /\ Hears[m] \subseteq Node
  BY Constants, ExchangeAssumption DEF IInv, TypeOK
<1>1. ASSUME \A x \in net' : x.at = m => x \in net \/ SentTo(m, x.frame),
             \A i \in DOMAIN rx'[m] : /\ rx'[m][i].frame \in Held(m)
                                      /\ rx'[m][i].fresh => rx'[m][i].frame \in Coming(m),
             \A a \in App : pc'[a] = "respond" /\ AppNode[a] = m => got'[a][1] \in Held(m)
      PROVE  Goal
  <2>1. \A f \in Held(m)' : \/ \E x \in net' : x.at = m /\ f = x.frame
                            \/ \E i \in DOMAIN rx'[m] : f = rx'[m][i].frame
                            \/ \E a \in App : pc'[a] = "respond" /\ AppNode[a] = m /\ f = got'[a][1]
    BY DEF Held
  <2>2. \A f \in Coming(m)' : \/ \E x \in net' : x.at = m /\ f = x.frame
                              \/ \E i \in DOMAIN rx'[m] : rx'[m][i].fresh /\ f = rx'[m][i].frame
    BY DEF Coming
  <2>. QED BY <1>1, <2>1, <2>2, HeldAre
<1>2. ASSUME NEW g, Thins(g)
      PROVE  \A i \in DOMAIN rx'[m] : /\ rx'[m][i].frame \in Held(m)
                                      /\ rx'[m][i].fresh => rx'[m][i].frame \in Coming(m)
  BY <1>2, HeldAre DEF Thins
<1>3. ASSUME NEW n \in Node, NEW h \in Held(n), h.type \in RequestTypes, Respond(n, h)
      PROVE  \A x \in net' : x.at = m => x \in net \/ SentTo(m, x.frame)
  <2>1. \A x \in net' : x \in net \/ (n \in Hears[x.at] /\ x.frame \in Replies(n, h))
    BY <1>3 DEF Respond, Sent
  <2>. QED BY <1>3, <2>1 DEF SentTo
<1>4. CASE rx' = rx /\ net' \subseteq net /\ UNCHANGED <<pc, got>>
  BY <1>1, <1>2, <1>4, SameQueues, HeldAre
<1>5. CASE Lose \/ UNCHANGED vars
  BY <1>4, <1>5 DEF Lose, vars, app_vars
<1>6. ASSUME NEW n \in Node, Deliver(n) PROVE Goal
  <2>1. PICK copy \in net :
          /\ copy.at = n /\ net' = net \ {copy}
          /\ \/ rx' = rx
             \/ rx' = [rx EXCEPT ![n] = Append(@, [frame |-> copy.frame, fresh |-> TRUE])]
    BY <1>6 DEF Deliver
  <2>2. UNCHANGED <<pc, got>>
    BY <1>6 DEF Deliver, app_vars
  <2>3. CASE rx' = [rx EXCEPT ![n] = Append(@, [frame |-> copy.frame, fresh |-> TRUE])]
    <3>. DEFINE e == [frame |-> copy.frame, fresh |-> TRUE]
                q == Append(rx[n], e)
    <3>1. /\ DOMAIN q = 1..Len(rx[n]) + 1 /\ q[Len(rx[n]) + 1] = e
          /\ \A i \in 1..Len(rx[n]) : q[i] = rx[n][i]
          /\ DOMAIN rx[n] = 1..Len(rx[n]) /\ Len(rx[n]) \in Nat
      BY <1>0, QueueFacts, Pushed DEF TypeOK
    <3>2. rx'[n] = q /\ (m # n => rx'[m] = rx[m])
      BY <1>0, <2>3
    <3>3. e.frame = copy.frame /\ copy.frame \in Held(n) /\ copy.frame \in Coming(n)
      BY <2>1, HeldAre
    <3>. HIDE DEF q, e
    <3>4. \A i \in DOMAIN q : (i \in DOMAIN rx[n] /\ q[i] = rx[n][i]) \/ q[i] = e
      BY <3>1
    <3>5. \A i \in DOMAIN rx'[m] : (i \in DOMAIN rx[m] /\ rx'[m][i] = rx[m][i]) \/ (m = n /\ rx'[m][i] = e)
      BY <3>2, <3>4
    <3>6. \A i \in DOMAIN rx'[m] : /\ rx'[m][i].frame \in Held(m)
                                   /\ rx'[m][i].fresh => rx'[m][i].frame \in Coming(m)
      BY <3>3, <3>5, HeldAre
    <3>. QED BY <1>1, <2>1, <2>2, <3>6, HeldAre
  <2>. QED BY <1>4, <2>1, <2>2, <2>3
<1>7. ASSUME NEW n \in Node, ClearOldFrames(n) PROVE Goal
  <2>1. rx[n] # <<>> /\ rx' = [rx EXCEPT ![n] = Tail(@)] /\ UNCHANGED <<pc, got, net>>
    BY <1>7 DEF ClearOldFrames, app_vars
  <2>2. 1 \in DOMAIN rx[n] /\ rx' = [rx EXCEPT ![n] = RemoveAt(@, 1)]
    BY <1>0, <2>1, TailRemoves
  <2>3. Thins(Shift(n, 1))
    BY <2>2, LeftQueue
  <2>. QED BY <1>1, <1>2, <2>1, <2>3, HeldAre
<1>8. ASSUME NEW n \in Node, Listen_Async(n) \/ ListenLock(n) \/ ListenIdle(n) PROVE Goal
  BY <1>4, <1>8 DEF Listen_Async, ListenLock, ListenIdle, app_vars
<1>9. ASSUME NEW n \in Node, ListenServe(n) PROVE Goal
  <2>. DEFINE k == FirstRequest(n)
              h == rx[n][k].frame
  <2>1. /\ k # 0 /\ Respond(n, h) /\ rx' = [rx EXCEPT ![n] = RemoveAt(@, k)]
        /\ UNCHANGED <<pc, got>>
    BY <1>9 DEF ListenServe, app_vars
  <2>2. k \in DOMAIN rx[n] /\ h.type \in RequestTypes /\ h \in Held(n)
    BY <1>0, <2>1, FirstRequestFacts, HeldAre
  <2>. HIDE DEF k, h
  <2>3. Thins(Shift(n, k))
    BY <2>1, <2>2, LeftQueue
  <2>. QED BY <1>1, <1>2, <1>3, <2>1, <2>2, <2>3, HeldAre
<1>10. ASSUME NEW a \in App, pc'[a] # "respond",
              \A b \in App : b # a => pc'[b] = pc[b] /\ got'[b] = got[b],
              NEW g, Thins(g), net' \subseteq net
       PROVE  Goal
  BY <1>1, <1>2, <1>10, HeldAre
<1>11. ASSUME NEW a \in App, Ask(a) \/ Lock(a) \/ Timeout(a) \/ Return(a) \/ ListenSyncTimeout(a)
       PROVE  Goal
  <2>1. rx' = rx /\ net' = net
    BY <1>11 DEF Ask, Lock, Timeout, Return, ListenSyncTimeout
  <2>2. pc'[a] # "respond" /\ \A b \in App : b # a => pc'[b] = pc[b] /\ got'[b] = got[b]
    BY <1>0, <1>11 DEF Ask, Lock, Timeout, Return, ListenSyncTimeout
  <2>. QED BY <1>10, <2>1, <2>2, SameQueues
<1>12. ASSUME NEW a \in App, Send(a) PROVE Goal
  <2>. DEFINE n == AppNode[a]
  <2>1. /\ pc[a] = "send" /\ net' = net \cup Sent(n, {Question(a)})
        /\ \/ rx' = rx
           \/ rx' = [rx EXCEPT ![n] = [i \in DOMAIN @ |-> [frame |-> @[i].frame, fresh |-> FALSE]]]
        /\ got' = got /\ n \in Node
    BY <1>0, <1>12 DEF Send
  <2>2. \A b \in App : pc'[b] = "respond" => pc[b] = "respond"
    BY <1>0, <1>12 DEF Send
  <2>3. \A x \in net' : x \in net \/ (n \in Hears[x.at] /\ x.frame = Question(a))
    BY <2>1 DEF Sent
  <2>4. \A x \in net' : x.at = m => x \in net \/ SentTo(m, x.frame)
    BY <1>12, <2>3 DEF SentTo
  <2>. HIDE DEF n
  <2>5. \E g : Thins(g)
    BY <2>1, SameQueues, AgedQueue
  <2>. QED BY <1>1, <1>2, <2>1, <2>2, <2>4, <2>5, HeldAre
<1>13. ASSUME NEW a \in App, Take(a) PROVE Goal
  <2>. DEFINE n == AppNode[a]
              k == FirstAnswer(a)
  <2>1. /\ pc[a] = "recv" /\ k # 0 /\ rx' = [rx EXCEPT ![n] = RemoveAt(@, k)]
        /\ pc' = pc \/ pc' = [pc EXCEPT ![a] = "return"]
        /\ got' = got \/ \E v : got' = [got EXCEPT ![a] = v]
        /\ net' = net
    BY <1>13 DEF Take
  <2>2. n \in Node /\ k \in DOMAIN rx[n]
    BY <1>0, <2>1, FirstAnswerFacts
  <2>. HIDE DEF k, n
  <2>3. Thins(Shift(n, k))
    BY <2>1, <2>2, LeftQueue
  <2>4. /\ pc'[a] # "respond"
        /\ \A b \in App : b # a => pc'[b] = pc[b] /\ got'[b] = got[b]
    BY <1>0, <2>1
  <2>. QED BY <1>10, <2>1, <2>3, <2>4
<1>14. ASSUME NEW a \in App, ListenSyncTake(a) PROVE Goal
  <2>. DEFINE n == AppNode[a]
              k == FirstRequest(n)
              h == rx[n][k].frame
  <2>1. /\ k # 0 /\ rx' = [rx EXCEPT ![n] = RemoveAt(@, k)]
        /\ got' = [got EXCEPT ![a] = <<h>>]
        /\ pc' = [pc EXCEPT ![a] = "respond"] /\ net' = net
    BY <1>14 DEF ListenSyncTake
  <2>2. n \in Node /\ k \in DOMAIN rx[n]
    BY <1>0, <2>1, FirstRequestFacts
  <2>3. h \in Held(AppNode[a])
    BY <2>2, HeldAre
  <2>. HIDE DEF k, n, h
  <2>4. Thins(Shift(n, k))
    BY <2>1, <2>2, LeftQueue
  <2>5. got'[a][1] = h /\ \A b \in App : b # a => pc'[b] = pc[b] /\ got'[b] = got[b]
    BY <1>0, <2>1
  <2>6. \A b \in App : pc'[b] = "respond" /\ AppNode[b] = m => got'[b][1] \in Held(m)
    BY <2>3, <2>5, HeldAre
  <2>. QED BY <1>1, <1>2, <2>1, <2>4, <2>6
<1>15. ASSUME NEW a \in App, ListenSyncRespond(a) PROVE Goal
  <2>. DEFINE n == AppNode[a]
              h == got[a][1]
  <2>1. /\ pc[a] = "respond" /\ Respond(n, h) /\ pc' = [pc EXCEPT ![a] = "return"]
        /\ UNCHANGED <<rx, got>>
    BY <1>15 DEF ListenSyncRespond
  <2>2. n \in Node /\ h \in Held(n) /\ h.type \in RequestTypes
    BY <1>0, <2>1, HeldAre DEF IInv, FrameInv
  <2>. HIDE DEF n, h
  <2>3. \A b \in App : pc'[b] = "respond" => pc[b] = "respond" /\ got'[b] = got[b]
    BY <1>0, <2>1
  <2>. QED BY <1>1, <1>2, <1>3, <2>1, <2>2, <2>3, SameQueues, HeldAre
<1>. QED
  BY <1>5, <1>6, <1>7, <1>8, <1>9, <1>11, <1>12, <1>13, <1>14, <1>15
  DEF Next, Channel, Listener, Thread

\* A frame is one that was there, what a call sends, or what a device answers to a request
\* that was there.
Source(f) ==
    \/ f \in Frames
    \/ \E a \in App : pc[a] = "send" /\ f = Question(a)
    \/ \E n \in Node : \E h \in Frames : h.type \in RequestTypes /\ f \in Replies(n, h)

LEMMA HeldFrames ==
    ASSUME NEW m \in Node PROVE Held(m) \subseteq Frames
BY DEF Held, Frames, Range

LEMMA FrameSources ==
    ASSUME IInv, [Next]_vars
    PROVE  \A f \in Frames' : Source(f)
<1>1. TypeOK' /\ AppNode \in [App -> Node]
  BY HistoryStep, TypeStep, Constants DEF HistoryOK
<1>2. \A f \in Frames' : \E m \in Node : f \in Held(m)'
  <2>1. ASSUME NEW x \in net' PROVE \E m \in Node : x.frame \in Held(m)'
    <3>1. x.at \in Node
      BY <1>1 DEF TypeOK
    <3>2. x.frame \in Held(x.at)'
      BY DEF Held
    <3>. QED BY <3>1, <3>2
  <2>2. ASSUME NEW m \in Node, NEW e \in Range(rx'[m]) PROVE e.frame \in Held(m)'
    BY DEF Held, Range
  <2>3. ASSUME NEW a \in App, pc'[a] = "respond" PROVE got'[a][1] \in Held(AppNode[a])'
    BY <2>3 DEF Held
  <2>. QED BY <1>1, <2>1, <2>2, <2>3 DEF Frames
<1>3. ASSUME NEW f, NEW m \in Node, f \in Held(m) \/ SentTo(m, f) PROVE Source(f)
  <2>1. Hears[m] \subseteq Node
    BY ExchangeAssumption
  <2>2. \A a \in App : Send(a) => pc[a] = "send"
    BY DEF Send
  <2>. QED BY <1>3, <2>1, <2>2, HeldFrames DEF SentTo, Source
<1>. QED BY <1>2, <1>3, HeldSources

\* An address is the one a device had, the one a call lends the device ffffffff, or the
\* one a frame gives.
LEMMA AddressSources ==
    ASSUME IInv, [Next]_vars, NEW d \in Device
    PROVE  \/ addr'[d] = addr[d] \/ \E b \in App : addr'[d] = Host[b]
           \/ \E f \in Frames : f.type \in Renames /\ addr'[d] = f.val
<1>0. TypeOK /\ AppNode \in [App -> Node] /\ DOMAIN addr = Device
  BY Constants DEF IInv, TypeOK
<1>1. ASSUME NEW n \in Node, NEW f \in Frames, Respond(n, f)
      PROVE  addr'[d] = addr[d] \/ (f.type \in Renames /\ addr'[d] = f.val)
  <2>1. addr'[d] = IF d \in Renamed(n, f) THEN f.val ELSE addr[d]
    BY <1>1 DEF Respond
  <2>. QED BY <2>1, Targets
<1>2. CASE UNCHANGED addr
  BY <1>2
<1>3. ASSUME NEW a \in App, Lock(a) PROVE addr'[d] = addr[d] \/ addr'[d] = Host[a]
  BY <1>0, <1>3 DEF Lock
<1>4. ASSUME NEW n \in Node, ListenServe(n) PROVE \E f \in Frames : Respond(n, f)
  <2>1. FirstRequest(n) \in DOMAIN rx[n]
    BY <1>0, <1>4, FirstRequestFacts DEF ListenServe
  <2>. QED BY <1>4, <2>1, FramesAre DEF ListenServe
<1>5. ASSUME NEW a \in App, ListenSyncRespond(a)
      PROVE  AppNode[a] \in Node /\ \E f \in Frames : Respond(AppNode[a], f)
  BY <1>0, <1>5, FramesAre DEF ListenSyncRespond
<1>6. \/ UNCHANGED addr
      \/ \E n \in Node : ListenServe(n)
      \/ \E a \in App : Lock(a) \/ ListenSyncRespond(a)
  BY DEF Next, Channel, Listener, Thread, vars, app_vars, Lose, Deliver, ClearOldFrames,
     Listen_Async, ListenLock, ListenIdle, Ask, Send, Take, Timeout, Return, ListenSyncTake,
     ListenSyncTimeout
<1>. QED BY <1>1, <1>2, <1>3, <1>4, <1>5, <1>6

-----------------------------------------------------------------------------
(* Whose answer a read returns.                                            *)

LEMMA QueryFacts ==
    ASSUME NEW s \in Queries
    PROVE  /\ s.way = "query" /\ s.refused # 0 /\ s.otherwise # 0 /\ s.expects # {}
           /\ s.expects \cap RequestTypes = {}
BY DEF Queries, PropertyValue_Read, Property_Read, Authorize_Query, Link_Read,
   UserMemory_Read, Query, Service, Refusals, RequestTypes

\* What a query asks of: who has the address, what gives it, and who answers in its name.
PeerFrame(r, f) ==
    /\ f.type \in Renames => f.val # r.peer
    /\ f.type \notin RequestTypes /\ ~IsShort(f) /\ f.from = r.peer => f.by = r.device
PeerOK(r) ==
    /\ \A d \in Device : addr[d] = r.peer => d = r.device
    /\ \A f \in Frames : PeerFrame(r, f)
QueryRequests == {r \in UNION {Requests[a] : a \in App} : r.service \in Queries}

\* A call that waits for one answer has none yet.
NoneYet(a) ==
    \/ pc[a] \in {"idle", "lock", "send"}
    \/ pc[a] = "recv" /\ ~KeepsWaiting(req[a].service)

PeerInv ==
    /\ \A r \in QueryRequests : PeerOK(r)
    /\ \A a \in App : NoneYet(a) => got[a] = <<>>
    /\ AnswerIsOfThePeer

LEMMA PeerKept ==
    ASSUME IInv, [Next]_vars, NEW r, Owns(r.device, r.peer), PeerOK(r)
    PROVE  PeerOK(r)'
<1>1. Owns(r.device, r.peer)
  OBVIOUS
<1>2. \A d \in Device : addr'[d] = r.peer => d = r.device
  <2>. SUFFICES ASSUME NEW d \in Device, addr'[d] = r.peer PROVE d = r.device
    OBVIOUS
  <2>1. \A b \in App : addr'[d] # Host[b]
    BY <1>1 DEF Owns
  <2>2. \A f \in Frames : f.type \in Renames => addr'[d] # f.val
    BY DEF PeerOK, PeerFrame
  <2>3. addr'[d] = addr[d]
    BY <2>1, <2>2, AddressSources
  <2>. QED BY <2>3 DEF PeerOK
<1>3. ASSUME NEW a \in App, pc[a] = "send" PROVE PeerFrame(r, Question(a))
  <2>1. /\ Question(a).type = req[a].service.asks /\ Question(a).from = Host[a]
        /\ Question(a).val = req[a].val
    BY DEF Question, Frame
  <2>2. req[a] \in Requests[a]
    BY <1>3 DEF IInv, CallInv
  <2>. QED BY <1>1, <2>1, <2>2 DEF PeerFrame, Owns
<1>4. ASSUME NEW n \in Node, NEW h, NEW f \in Replies(n, h) PROVE PeerFrame(r, f)
  <2>1. f.type \notin RequestTypes /\ (~IsShort(f) => f.by \in Device /\ f.from = addr[f.by])
    BY ReplyFacts DEF ReplyOK, At
  <2>2. f.type \notin Renames
    BY <2>1 DEF RequestTypes, Renames
  <2>. QED BY <2>1, <2>2 DEF PeerFrame, PeerOK
<1>5. \A f \in Frames' : PeerFrame(r, f)
  BY <1>3, <1>4, FrameSources DEF Source, PeerOK
<1>6. \A f : PeerFrame(r, f)' <=> PeerFrame(r, f)
  BY DEF PeerFrame, IsShort
<1>. QED BY <1>2, <1>5, <1>6 DEF PeerOK

\* What a read that says 0 has been handed: a long answer of the type it waits for, with
\* the addresses it checks.
LEMMA TakenByQuery ==
    ASSUME IInv, PeerInv, OwnedPeers(Queries), NEW a \in App, Take(a), req[a].service \in Queries,
           ret'[a] = 0
    PROVE  got'[a][1].by = req[a].device /\ got'[a][1].to = Host[a]
<1>. DEFINE n == AppNode[a]
            k == FirstAnswer(a)
            f == rx[n][k].frame
            s == req[a].service
            handed == Append(got[a], f)
<1>1. /\ n \in Node /\ DOMAIN got = App /\ DOMAIN ret = App /\ pc[a] = "recv" /\ k # 0
      /\ req[a] \in Requests[a] /\ req[a] \in QueryRequests
  BY Constants DEF IInv, TypeOK, CallInv, Take, QueryRequests
<1>2. /\ s.way = "query" /\ s.refused # 0 /\ s.otherwise # 0 /\ s.expects # {}
      /\ s.expects \cap RequestTypes = {}
  BY QueryFacts
<1>3. /\ k \in DOMAIN rx[n] /\ RightAddresses(a, f) /\ Lets(s, f.type)
  BY <1>1, FirstAnswerFacts DEF IInv
<1>4. got[a] = <<>> /\ ~KeepsWaiting(s)
  BY <1>1, <1>2 DEF PeerInv, NoneYet, KeepsWaiting
<1>5. got' = [got EXCEPT ![a] = handed] /\ ret' = [ret EXCEPT ![a] = Result(s, Types(handed))]
  BY <1>4 DEF Take
<1>6. handed = <<f>>
  BY <1>4
<1>7. Types(handed) # <<>> /\ Types(handed)[1] = f.type
  <2>1. DOMAIN handed = {1} /\ handed[1] = f
    BY <1>6
  <2>2. DOMAIN Types(handed) = {1} /\ Types(handed)[1] = f.type
    BY <2>1 DEF Types
  <2>3. DOMAIN <<>> = {}
    OBVIOUS
  <2>. QED BY <2>2, <2>3
<1>8. f \in Frames
  BY <1>1, <1>3, FramesAre
<1>9. PeerFrame(req[a], f) /\ Owns(req[a].device, req[a].peer)
  BY <1>1, <1>8 DEF PeerInv, PeerOK, OwnedPeers
<1>10. got'[a][1] = f /\ Result(s, Types(handed)) = 0
  BY <1>1, <1>5, <1>6
<1>. HIDE DEF k, n, f, s, handed
<1>11. ~IsShort(f)
  BY <1>2, <1>7, <1>10 DEF Result, IsShort
<1>12. f.type \notin RequestTypes
  BY <1>2, <1>3 DEF Lets
<1>13. f.to = Host[a] /\ f.from = req[a].peer
  BY <1>3, <1>9, <1>11 DEF RightAddresses, Owns
<1>. QED BY <1>9, <1>10, <1>11, <1>12, <1>13 DEF PeerFrame

\* A call that has been handed nothing when it times out does not say 0, if it reads.
LEMMA NothingTaken ==
    ASSUME NEW s \in Queries
    PROVE  Result(s, Types(<<>>)) # 0
<1>1. Types(<<>>) = <<>>
  BY DEF Types
<1>. QED BY <1>1, QueryFacts DEF Result

LEMMA PeerStep ==
    ASSUME OwnedPeers(Queries), IInv, PeerInv, [Next]_vars
    PROVE  PeerInv'
<1>0. /\ DOMAIN pc = App /\ DOMAIN got = App /\ DOMAIN req = App /\ DOMAIN ret = App
      /\ \A a \in App : NoneYet(a) => got[a] = <<>>
      /\ AnswerIsOfThePeer
      /\ \A a \in App : pc[a] # "idle" /\ req[a].service.way = "query" => req[a].service \in Queries
      /\ \A a \in App : pc[a] \in {"listen", "respond"} => req[a].service.way # "query"
  BY RequestAssumption, ServiceFacts DEF IInv, TypeOK, PeerInv, CallInv, MutexInv
<1>. DEFINE Mine(a) == /\ NoneYet(a)' => got'[a] = <<>>
                       /\ Succeeded(a, {"query"})' =>
                            got'[a][1].by = req'[a].device /\ got'[a][1].to = Host[a]
<1>1. ASSUME NEW a \in App, pc'[a] = pc[a], req'[a] = req[a], got'[a] = got[a], ret'[a] = ret[a]
      PROVE  Mine(a)
  BY <1>0, <1>1 DEF NoneYet, Succeeded, AnswerIsOfThePeer
<1>2. ASSUME UNCHANGED <<pc, req, got, ret>>, NEW a \in App PROVE Mine(a)
  BY <1>1, <1>2
<1>3. ASSUME NEW a \in App, Thread(a), NEW b \in App, b # a PROVE Mine(b)
  <2>1. pc'[b] = pc[b] /\ req'[b] = req[b] /\ got'[b] = got[b] /\ ret'[b] = ret[b]
    BY <1>0, <1>3 DEF Thread, Ask, Lock, Send, Take, Timeout, Return, ListenSyncTake,
       ListenSyncTimeout, ListenSyncRespond
  <2>. QED BY <1>1, <2>1
<1>4. ASSUME NEW a \in App, Ask(a) PROVE Mine(a)
  <2>1. pc[a] = "idle" /\ pc'[a] \in {"listen", "lock"} /\ got' = got
    BY <1>0, <1>4 DEF Ask
  <2>. QED BY <1>0, <2>1 DEF NoneYet, Succeeded
<1>5. ASSUME NEW a \in App, Lock(a) PROVE Mine(a)
  <2>1. pc[a] = "lock" /\ pc'[a] = "send" /\ got' = got
    BY <1>0, <1>5 DEF Lock
  <2>. QED BY <1>0, <2>1 DEF NoneYet, Succeeded
<1>6. ASSUME NEW a \in App, Send(a) PROVE Mine(a)
  <2>1. /\ pc[a] = "send" /\ got' = got /\ req' = req
        /\ pc'[a] = IF Waits(req[a].service) THEN "recv" ELSE "return"
    BY <1>0, <1>6 DEF Send
  <2>. QED BY <1>0, <2>1 DEF NoneYet, Succeeded, Waits
<1>7. ASSUME NEW a \in App, Take(a) PROVE Mine(a)
  <2>1. pc[a] = "recv" /\ req' = req
    BY <1>7 DEF Take
  <2>2. CASE KeepsWaiting(req[a].service)
    <3>1. pc'[a] = "recv"
      BY <1>7, <2>1, <2>2 DEF Take
    <3>. QED BY <2>1, <2>2, <3>1 DEF NoneYet, Succeeded
  <2>3. CASE ~KeepsWaiting(req[a].service)
    <3>1. pc'[a] = "return"
      BY <1>0, <1>7, <2>3 DEF Take
    <3>2. Succeeded(a, {"query"})' => req[a].service \in Queries /\ ret'[a] = 0
      BY <1>0, <2>1 DEF Succeeded
    <3>. QED BY <1>7, <2>1, <3>1, <3>2, TakenByQuery DEF NoneYet
  <2>. QED BY <2>2, <2>3
<1>8. ASSUME NEW a \in App, Timeout(a) PROVE Mine(a)
  <2>1. /\ pc[a] = "recv" /\ pc'[a] = "return" /\ req' = req /\ got' = got
        /\ ret'[a] = Result(req[a].service, Types(got[a]))
    BY <1>0, <1>8 DEF Timeout
  <2>2. req[a].service \in Queries => got[a] = <<>>
    BY <1>0, <2>1, QueryFacts DEF NoneYet, KeepsWaiting
  <2>3. ~Succeeded(a, {"query"})'
    BY <1>0, <2>1, <2>2, NothingTaken DEF Succeeded
  <2>. QED BY <2>1, <2>3 DEF NoneYet
<1>9. ASSUME NEW a \in App, Return(a) PROVE Mine(a)
  <2>1. pc'[a] = "idle" /\ got'[a] = <<>>
    BY <1>0, <1>9 DEF Return
  <2>. QED BY <2>1 DEF NoneYet, Succeeded
<1>10. ASSUME NEW a \in App, ListenSyncTake(a) \/ ListenSyncTimeout(a) \/ ListenSyncRespond(a)
       PROVE  Mine(a)
  <2>1. pc[a] \in {"listen", "respond"} /\ pc'[a] \in {"respond", "return"} /\ req' = req
    BY <1>0, <1>10 DEF ListenSyncTake, ListenSyncTimeout, ListenSyncRespond
  <2>. QED BY <1>0, <2>1 DEF NoneYet, Succeeded
<1>11. \A a \in App : Mine(a)
  <2>1. \/ UNCHANGED <<pc, req, got, ret>>
        \/ \E a \in App : Thread(a)
    BY DEF Next, Channel, Listener, vars, app_vars, Lose, Deliver, ClearOldFrames,
       Listen_Async, ListenLock, ListenServe, ListenIdle
  <2>2. ASSUME NEW a \in App, Thread(a) PROVE Mine(a)
    BY <1>4, <1>5, <1>6, <1>7, <1>8, <1>9, <1>10, <2>2 DEF Thread
  <2>. HIDE DEF Mine
  <2>3. ASSUME NEW a \in App, Thread(a) PROVE \A b \in App : Mine(b)
    BY <1>3, <2>2, <2>3
  <2>. QED BY <1>2, <2>1, <2>3
<1>12. \A r \in QueryRequests : PeerOK(r)'
  BY PeerKept DEF PeerInv, OwnedPeers, QueryRequests
<1>13. (\A a \in App : NoneYet(a) => got[a] = <<>>)' /\ AnswerIsOfThePeer'
  BY <1>11 DEF AnswerIsOfThePeer
<1>. QED BY <1>12, <1>13 DEF PeerInv

LEMMA PeerInit ==
    ASSUME OwnedPeers(Queries), Init
    PROVE  PeerInv
<1>1. Frames = {}
  <2>1. \A n \in Node : Range(rx[n]) = {}
    BY DEF Init, Range
  <2>. QED BY <2>1 DEF Frames, Init
<1>2. \A r \in QueryRequests : PeerOK(r)
  BY <1>1 DEF Init, PeerOK, OwnedPeers, Owns, QueryRequests
<1>3. \A a \in App : got[a] = <<>> /\ pc[a] = "idle"
  BY DEF Init
<1>. QED BY <1>2, <1>3 DEF PeerInv, AnswerIsOfThePeer, Succeeded

-----------------------------------------------------------------------------
(* The theorems.                                                           *)

\* IInv is inductive: types, who has m_mutex_objs, the numbers of calls, where a
\* request is.
THEOREM Invariance == Spec => []IInv
<1>1. Init => IInv
  BY InitHolds
<1>2. ASSUME IInv, [Next]_vars PROVE IInv'
  <2>1. HistoryOK'
    BY <1>2, HistoryStep
  <2>2. TypeOK'
    BY <1>2, <2>1, TypeStep DEF HistoryOK
  <2>3. MutexInv' /\ HostHeld'
    BY <1>2, MutexStep
  <2>4. CallInv'
    BY <1>2, <2>1, CallStep DEF HistoryOK, CallInv
  <2>. QED BY <2>1, <2>2, <2>3, <2>4 DEF IInv, HistoryOK
<1>. QED BY <1>1, <1>2, PTL DEF Spec

\* The device ffffffff keeps the address a call has given it until the call returns: no
\* other call, no listener and no frame that renames devices takes it away
\* (HoldTheMutex and set_host_addr, EIBEmulatorImpl.cpp).
THEOREM HostTheorem == Spec => []HostHeld
<1>1. IInv => HostHeld
  BY DEF IInv
<1>. QED BY <1>1, Invariance, PTL

\* No device acts twice on a request, though the listener and Listen_Sync take requests
\* out of one queue, and whatever else is lost, late or cleared (rx_sync,
\* RemoveFrameFromRxQueue_nolock).
THEOREM OnceTheorem == Spec => []PerformedOnce
<1>1. IInv => PerformedOnce
  BY DEF IInv
<1>. QED BY <1>1, Invariance, PTL

\* Where every peer that is read has one device with its address, and no request gives
\* the address away, a read that says 0 returns the answer of that device, to itself,
\* whatever is lost, late or left of other calls (impose_response_restrictions).
THEOREM PeerTheorem ==
    ASSUME OwnedPeers(Queries)
    PROVE  Spec => []AnswerIsOfThePeer
<1>1. Init => PeerInv
  BY PeerInit
<1>2. IInv /\ PeerInv /\ [Next]_vars => PeerInv'
  BY PeerStep
<1>3. PeerInv => AnswerIsOfThePeer
  BY DEF PeerInv
<1>. QED BY <1>1, <1>2, <1>3, Invariance, PTL DEF Spec

-----------------------------------------------------------------------------
(***************************************************************************)
(* When one process calls and answers come before their timeout: what a    *)
(* call returns is the answer to that call.                                *)
(*                                                                         *)
(* The frames of the call that waits are its tokens: while its request is  *)
(* at the device it addresses there is no answer, once it has been acted   *)
(* on there is one answer, and when the call ends there is nothing of it   *)
(* left that anybody could take for something else.                        *)
(***************************************************************************)
-----------------------------------------------------------------------------
(* The services that address one device.                                   *)

\* What answers them.
AnswerTypes == {"PropertyValue_Response", "Property_Response", "Authorize_Response",
                "Link_Response", "UserMemory_Response", "ACK"} \cup Refusals
AnswerOf(type) ==
    CASE type = "PropertyValue_Read" -> "PropertyValue_Response"
      [] type = "Property_Read" -> "Property_Response"
      [] type = "Authorize_Request" -> "Authorize_Response"
      [] type = "Link_Read" -> "Link_Response"
      [] type = "UserMemory_Read" -> "UserMemory_Response"
      [] OTHER -> "ACK"

Direct(f) == f.type \in DirectTypes
IsAnswer(f) == f.type \in AnswerTypes

LEMMA DirectTypesAre ==
    DirectTypes = {"PropertyValue_Read", "Property_Read", "Authorize_Request", "Link_Read",
                   "UserMemory_Read", "PropertyValue_Write", "Property_Write", "Link_Write",
                   "UserMemory_Write"}
BY DEF DirectTypes, Queries, Orders, PropertyValue_Read, Property_Read, Authorize_Query, Link_Read,
   UserMemory_Read, PropertyValue_Write, Property_Write, Link_Write, UserMemory_Write, Query,
   Order, Service

LEMMA TypesApart ==
    /\ DirectTypes \subseteq RequestTypes /\ AnswerTypes \cap RequestTypes = {}
    /\ DirectTypes \cap Renames = {}
BY DirectTypesAre DEF RequestTypes, AnswerTypes, Refusals, Renames

\* The functions that ask one device wait for its answer or a refusal, and for no more.
DirectService(s) ==
    /\ s.way \in {"query", "order", "raw"} /\ s.asks \in DirectTypes
    /\ s.expects = {AnswerOf(s.asks)} \cup Refusals

LEMMA QueryIsDirect ==
    ASSUME NEW s \in Queries PROVE DirectService(s)
<1>1. ASSUME NEW asks, NEW answer, NEW otherwise, asks \in DirectTypes, AnswerOf(asks) = answer
      PROVE  DirectService(Query(asks, answer, otherwise))
  BY <1>1 DEF Query, Service, DirectService
<1>2. /\ AnswerOf("PropertyValue_Read") = "PropertyValue_Response"
      /\ AnswerOf("Property_Read") = "Property_Response"
      /\ AnswerOf("Authorize_Request") = "Authorize_Response"
      /\ AnswerOf("Link_Read") = "Link_Response"
      /\ AnswerOf("UserMemory_Read") = "UserMemory_Response"
  BY DEF AnswerOf
<1>. QED BY <1>1, <1>2, DirectTypesAre
     DEF Queries, PropertyValue_Read, Property_Read, Authorize_Query, Link_Read, UserMemory_Read

LEMMA OrderIsDirect ==
    ASSUME NEW s \in Orders
    PROVE  DirectService(s) /\ s.refused # 0 /\ s.otherwise # 0 /\ s.way = "order"
<1>1. ASSUME NEW asks, NEW otherwise, asks \in DirectTypes, AnswerOf(asks) = "ACK", otherwise # 0
      PROVE  LET o == Order(asks, otherwise) IN
             DirectService(o) /\ o.refused # 0 /\ o.otherwise # 0 /\ o.way = "order"
  BY <1>1 DEF Order, Service, DirectService
<1>2. /\ AnswerOf("PropertyValue_Write") = "ACK" /\ AnswerOf("Property_Write") = "ACK"
      /\ AnswerOf("Link_Write") = "ACK" /\ AnswerOf("UserMemory_Write") = "ACK"
  BY DEF AnswerOf
<1>. QED BY <1>1, <1>2, DirectTypesAre
     DEF Orders, PropertyValue_Write, Property_Write, Link_Write, UserMemory_Write

\* The others ask nobody in particular, or nothing.
LEMMA OthersAreNot ==
    ASSUME NEW s \in Collects \cup Tells \cup {Listen_Sync}
    PROVE  s.asks \notin DirectTypes \cup AnswerTypes
<1>1. s.asks \in {"GroupValue_Read", "IndividualAddress_Read", "SerialNumber_Read",
                  "GroupValue_Write", "IndividualAddress_Write", "SerialNumber_Write", "none"}
  BY DEF Collects, Tells, GroupValue_Read, IndividualAddress_Read, SerialNumber_Read,
     GroupValue_Write, IndividualAddress_Write, SerialNumber_Write, Collect, Tell, Service,
     Listen_Sync
<1>. QED BY <1>1, DirectTypesAre DEF AnswerTypes, Refusals

LEMMA DirectFacts ==
    ASSUME NEW s \in API
    PROVE  /\ s.asks \in DirectTypes => DirectService(s)
           /\ s.asks \notin AnswerTypes
<1>1. CASE s \in Queries \cup Orders
  BY <1>1, QueryIsDirect, OrderIsDirect, TypesApart DEF DirectService
<1>2. CASE s \in Collects \cup Tells \cup {Listen_Sync}
  BY <1>2, OthersAreNot
<1>3. CASE s = PropertyValue_Write2
  <2>1. /\ s.way = "order" /\ s.asks = "PropertyValue_Write"
        /\ s.expects = {"ACK"} \cup Refusals
    BY <1>3 DEF PropertyValue_Write2, PropertyValue_Write, Order, Service
  <2>2. AnswerOf("PropertyValue_Write") = "ACK"
    BY DEF AnswerOf
  <2>. QED BY <2>1, <2>2, DirectTypesAre, TypesApart DEF DirectService
<1>4. ASSUME NEW t \in Queries \cup Orders \cup Collects \cup Tells, s = Send_Rawdate(t)
      PROVE  /\ s.asks \in DirectTypes => DirectService(s)
             /\ s.asks \notin AnswerTypes
  <2>1. \E w, q, e, x, y : t = Service(w, q, e, x, y)
    BY DEF Queries, Orders, Collects, Tells, Query, Order, Collect, Tell, PropertyValue_Read,
       Property_Read, Authorize_Query, Link_Read, UserMemory_Read, PropertyValue_Write,
       Property_Write, Link_Write, UserMemory_Write, GroupValue_Read, IndividualAddress_Read,
       SerialNumber_Read, GroupValue_Write, IndividualAddress_Write, SerialNumber_Write
  <2>2. s.way = "raw" /\ s.asks = t.asks /\ s.expects = t.expects
    BY <1>4, <2>1 DEF Send_Rawdate, Service
  <2>. QED BY <2>2, QueryIsDirect, OrderIsDirect, OthersAreNot, TypesApart DEF DirectService
<1>. QED BY <1>1, <1>2, <1>3, <1>4 DEF API

-----------------------------------------------------------------------------
(* What the device addressed does.                                         *)

\* At most one device of a process has the address of a peer: the peer.
LEMMA OneAddressed ==
    ASSUME NEW r, PeerOK(r), NEW n \in Node
    PROVE  WithAddress(n, r.peer) \subseteq {r.device} /\ Addressed(n, r.peer) \subseteq {r.device}
BY DEF PeerOK, Addressed, WithAddress, At

\* The four outcomes of a request: nothing, a refusal, an acknowledgement of what has been
\* done, and the value read.
Outcome(n, f, d) ==
    \/ Replies(n, f) = {} /\ Marks(n, f) = {} /\ Written(n, f) = {}
    \/ Replies(n, f) = {Short(f, "NACK", n)} /\ Marks(n, f) = {} /\ Written(n, f) = {}
    \/ /\ Replies(n, f) = {Short(f, "ACK", n)} /\ AnswerOf(f.type) = "ACK"
       /\ Marks(n, f) = {[by |-> d, val |-> f.val]} /\ Written(n, f) = {d}
    \/ /\ Replies(n, f) = {Frame(f.call, AnswerOf(f.type), f.to, f.from, f.item, mem[d][f.item], d)}
       /\ AnswerOf(f.type) \notin {"ACK"} \cup Refusals
       /\ Marks(n, f) = {[by |-> d, val |-> mem[d][f.item]]} /\ Written(n, f) = {}

LEMMA OutcomeOfDirect ==
    ASSUME NEW r, PeerOK(r), NEW n \in Node, NEW f, Direct(f), f.to = r.peer
    PROVE  Outcome(n, f, r.device)
<1>. DEFINE d == r.device
            answer == AnswerOf(f.type)
            read == Frame(f.call, answer, f.to, f.from, f.item, mem[d][f.item], d)
<1>1. Addressed(n, f.to) \subseteq {d}
  BY OneAddressed
<1>2. Renamed(n, f) = {}
  BY DirectTypesAre DEF Direct, Renamed
<1>3. ASSUME NEW type \in {"ACK", "NACK"}, Replies(n, f) = {Short(f, type, n)}
      PROVE  Marks(n, f) = {[by |-> e, val |-> f.val] : e \in Written(n, f)}
  <2>1. IsShort(Short(f, type, n))
    BY DEF IsShort, Short, Frame, Refusals
  <2>. QED BY <1>2, <1>3, <2>1 DEF Marks
<1>4. ASSUME f.type \in {"PropertyValue_Read", "Property_Read", "Authorize_Request", "Link_Read",
                         "UserMemory_Read"}
      PROVE  Written(n, f) = {} /\ answer \notin {"ACK"} \cup Refusals
  BY <1>4 DEF Written, AnswerOf, Refusals
<1>5. ASSUME Replies(n, f) = {read}, Written(n, f) = {}, answer \notin {"ACK"} \cup Refusals
      PROVE  Marks(n, f) = {[by |-> d, val |-> mem[d][f.item]]}
  <2>1. ~IsShort(read) /\ read.by = d /\ read.val = mem[d][f.item]
    BY <1>5 DEF IsShort, Frame
  <2>. HIDE DEF read
  <2>. QED BY <1>2, <1>5, <2>1 DEF Marks
<1>6. CASE f.type \in {"PropertyValue_Read", "Property_Read", "Authorize_Request", "Link_Read"}
  <2>1. Replies(n, f) = ReadReplies(n, f, answer)
    BY <1>6 DEF Replies, AnswerOf
  <2>. DEFINE has == {e \in Addressed(n, f.to) : <<e, f.item>> \in Present}
  <2>2. CASE has = {}
    <3>1. Replies(n, f) = {Short(f, "NACK", n)}
      BY <2>1, <2>2 DEF ReadReplies
    <3>. QED BY <1>3, <1>4, <1>6, <3>1 DEF Outcome
  <2>3. CASE has # {}
    <3>1. has = {d}
      BY <1>1, <2>3
    <3>2. Replies(n, f) = {Frame(f.call, answer, f.to, f.from, f.item, mem[e][f.item], e) : e \in has}
      BY <2>1, <2>3 DEF ReadReplies
    <3>3. Replies(n, f) = {read}
      BY <3>1, <3>2
    <3>. QED BY <1>4, <1>5, <1>6, <3>3 DEF Outcome
  <2>. QED BY <2>2, <2>3
<1>7. CASE f.type = "UserMemory_Read"
  <2>1. Replies(n, f) = {Frame(f.call, answer, f.to, f.from, f.item, mem[e][f.item], e) :
                           e \in Addressed(n, f.to)}
    BY <1>7 DEF Replies, MemoryReplies, AnswerOf
  <2>2. CASE Addressed(n, f.to) = {}
    <3>1. Replies(n, f) = {}
      BY <2>1, <2>2
    <3>2. Marks(n, f) = {}
      BY <1>2, <1>4, <1>7, <3>1 DEF Marks
    <3>. QED BY <1>4, <1>7, <3>1, <3>2 DEF Outcome
  <2>3. CASE Addressed(n, f.to) # {}
    <3>1. Addressed(n, f.to) = {d}
      BY <1>1, <2>3
    <3>2. Replies(n, f) = {read}
      BY <2>1, <3>1
    <3>. QED BY <1>4, <1>5, <1>7, <3>2 DEF Outcome
  <2>. QED BY <2>2, <2>3
<1>8. CASE f.type \in {"PropertyValue_Write", "Property_Write", "Link_Write", "UserMemory_Write"}
  <2>1. /\ Replies(n, f) = {Short(f, IF Written(n, f) = {} THEN "NACK" ELSE "ACK", n)}
        /\ Written(n, f) \subseteq Addressed(n, f.to) /\ answer = "ACK"
    BY <1>8 DEF Replies, Written, Acknowledged, WriteTargets, ForcedTargets, AnswerOf
  <2>2. CASE Written(n, f) = {}
    BY <1>3, <2>1, <2>2 DEF Outcome
  <2>3. CASE Written(n, f) # {}
    <3>1. Written(n, f) = {d}
      BY <1>1, <2>1, <2>3
    <3>. QED BY <1>3, <2>1, <3>1 DEF Outcome
  <2>. QED BY <2>2, <2>3
<1>. QED BY <1>6, <1>7, <1>8, DirectTypesAre DEF Direct

\* What is answered to other requests is no answer to one of these.
LEMMA OtherReplies ==
    ASSUME NEW n \in Node, NEW f, ~Direct(f), NEW x \in Replies(n, f)
    PROVE  ~IsAnswer(x) /\ ~Direct(x)
<1>1. f.type \in {"GroupValue_Read", "IndividualAddress_Read", "SerialNumber_Read"}
  BY DirectTypesAre DEF Direct, Replies
<1>2. Replies(n, f) = IF f.type = "GroupValue_Read" THEN GroupReplies(n, f)
                      ELSE IF f.type = "IndividualAddress_Read" THEN AddressReplies(n, f)
                      ELSE SerialReplies(n, f)
  BY <1>1 DEF Replies
<1>3. \A c, type, from, to, item, val, by : Frame(c, type, from, to, item, val, by).type = type
  BY DEF Frame
<1>4. \E c, from, to, item, val, by :
        \E type \in {"GroupValue_Response", "IndividualAddress_Response", "SerialNumber_Response"} :
          x = Frame(c, type, from, to, item, val, by)
  <2>1. CASE x \in GroupReplies(n, f)
    BY <2>1 DEF GroupReplies
  <2>2. CASE x \in AddressReplies(n, f)
    BY <2>2 DEF AddressReplies
  <2>3. CASE x \in SerialReplies(n, f)
    BY <2>3 DEF SerialReplies
  <2>. QED BY <1>2, <2>1, <2>2, <2>3
<1>5. x.type \in {"GroupValue_Response", "IndividualAddress_Response", "SerialNumber_Response"}
  BY <1>3, <1>4
<1>. QED BY <1>5, DirectTypesAre DEF IsAnswer, Direct, AnswerTypes, Refusals

-----------------------------------------------------------------------------
(* The tokens.                                                             *)

\* Thread a waits for what one device says.
Receiving(a) == pc[a] = "recv" /\ req[a].service.asks \in DirectTypes

\* A request at the process of the device it addresses, which has not acted on it; and a
\* copy at another process, where nobody has the address.
Current(n, f) ==
    \E a \in App : /\ Receiving(a) /\ f = Question(a)
                   /\ Home[req[a].device] = n /\ performed[call[a]] = <<>>
Stray(n, f) == \E r \in DirectRequests : f.to = r.peer /\ Home[r.device] # n

\* f says what has been done on the request of a.
Says(a, f) ==
    /\ Receiving(a) /\ f.call = call[a]
    /\ f.type \in req[a].service.expects /\ RightAddresses(a, f)
    /\ f.type = "ACK" => performed[call[a]] # <<>>
    /\ f.type \in Refusals => performed[call[a]] = <<>>
    /\ ~IsShort(f) => /\ f.item = req[a].item
                      /\ \E m \in Range(performed[call[a]]) : m.by = f.by /\ m.val = f.val

\* The answers that a call of process n can still be handed.
NetAnswers(n) == {x \in net : x.at = n /\ IsAnswer(x.frame)}
FreshAnswers(n) == {i \in DOMAIN rx[n] : rx[n][i].fresh /\ IsAnswer(rx[n][i].frame)}

\* No request is where its device is.
Quiet ==
    /\ \A x \in net : Direct(x.frame) => Stray(x.at, x.frame)
    /\ \A n \in Node : \A i \in DOMAIN rx[n] : ~Direct(rx[n][i].frame)

\* m_mutex_objs is a thread's of the process, and who listens goes on listening.
HolderInv ==
    /\ \A n \in Node : objs[n] \in App => AppNode[objs[n]] = n
    /\ \A n \in Listening : lst[n] # "off"

\* A request with the number of a call is the one the call has sent.
QuestionInv ==
    \A a \in App : \A f \in Frames :
        pc[a] # "idle" /\ f.call = call[a] /\ f.type \in RequestTypes => f = Question(a)

RequestInv ==
    /\ \A x \in net : Direct(x.frame) => Stray(x.at, x.frame) \/ Current(x.at, x.frame)
    /\ \A n \in Node : \A i \in DOMAIN rx[n] :
         Direct(rx[n][i].frame) => Current(n, rx[n][i].frame)
    /\ \A a \in App : pc[a] = "respond" => ~Direct(got[a][1])

AnswerInv(n) ==
    /\ \A x \in NetAnswers(n) : \E a \in App : Says(a, x.frame)
    /\ \A i \in FreshAnswers(n) : \E a \in App : Says(a, rx[n][i].frame)
    /\ \A x, y \in NetAnswers(n) : x = y
    /\ \A i, j \in FreshAnswers(n) : i = j
    /\ NetAnswers(n) = {} \/ FreshAnswers(n) = {}
    /\ NetAnswers(n) # {} \/ FreshAnswers(n) # {} => Quiet

TokenInv(n) ==
    /\ \A r \in DirectRequests : PeerOK(r)
    /\ HolderInv /\ QuestionInv /\ RequestInv /\ AnswerInv(n)

-----------------------------------------------------------------------------
(* Who holds, who listens, and what was asked.                             *)

LEMMA HolderStep ==
    ASSUME IInv, HolderInv, [Next]_vars
    PROVE  HolderInv'
<1>0. /\ objs \in [Node -> Node \cup App \cup {Nobody}] /\ lst \in [Node -> {"off", "free", "holds"}]
      /\ Nobody \notin App /\ App \cap Node = {} /\ AppNode \in [App -> Node]
  BY Constants DEF IInv, TypeOK
<1>. USE <1>0 DEF HolderInv
<1>1. CASE UNCHANGED <<objs, lst>>
  BY <1>1
<1>2. ASSUME NEW n \in Node, Listener(n) PROVE HolderInv'
  <2>1. /\ objs' = objs \/ objs' = [objs EXCEPT ![n] = n] \/ objs' = [objs EXCEPT ![n] = Nobody]
        /\ \E s \in {"free", "holds"} : lst' = [lst EXCEPT ![n] = s]
    BY <1>2 DEF Listener, Listen_Async, ListenLock, ListenServe, ListenIdle
  <2>. QED BY <2>1, ExchangeAssumption
<1>3. ASSUME NEW a \in App, Lock(a) \/ Return(a) PROVE HolderInv'
  <2>1. /\ objs' = [objs EXCEPT ![AppNode[a]] = a] \/ objs' = [objs EXCEPT ![AppNode[a]] = Nobody]
           \/ objs' = objs
        /\ lst' = lst
    BY <1>3 DEF Lock, Return
  <2>. QED BY <2>1
<1>4. \/ UNCHANGED <<objs, lst>>
      \/ \E n \in Node : Listener(n)
      \/ \E a \in App : Lock(a) \/ Return(a)
  BY DEF Next, Channel, Thread, vars, app_vars, Lose, Deliver, ClearOldFrames, Ask, Send, Take,
     Timeout, ListenSyncTake, ListenSyncTimeout, ListenSyncRespond
<1>. QED BY <1>1, <1>2, <1>3, <1>4

LEMMA FramesOK ==
    ASSUME IInv, NEW f \in Frames
    PROVE  FrameOK(f)
BY DEF IInv, FrameInv, Frames, Range, TypeOK

LEMMA QuestionStep ==
    ASSUME IInv, QuestionInv, [Next]_vars
    PROVE  QuestionInv'
<1>0. /\ DOMAIN pc = App /\ DOMAIN call = App /\ DOMAIN req = App /\ calls \in Nat
      /\ \A a, b \in App : pc[a] # "idle" /\ pc[b] # "idle" /\ call[a] = call[b] => a = b
      /\ \A a \in App : pc[a] # "idle" => call[a] \in 1..calls
  BY DEF IInv, TypeOK, CallInv
<1>. SUFFICES ASSUME NEW a \in App, NEW f \in Frames', pc'[a] # "idle", f.call = call'[a],
                     f.type \in RequestTypes
              PROVE  f = Question(a)'
  BY DEF QuestionInv
<1>1. f \in Frames \/ \E b \in App : pc[b] = "send" /\ f = Question(b)
  <2>1. \A n \in Node : \A h : f \notin Replies(n, h)
    BY ReplyFacts DEF ReplyOK
  <2>. QED BY <2>1, FrameSources DEF Source
<1>2. f.call \in 1..calls
  <2>1. CASE f \in Frames
    BY <2>1, FramesOK DEF FrameOK
  <2>2. ASSUME NEW b \in App, pc[b] = "send", f = Question(b) PROVE f.call \in 1..calls
    BY <1>0, <2>2 DEF Question, Frame
  <2>. QED BY <1>1, <2>1, <2>2
<1>3. /\ pc[a] # "idle" /\ call'[a] = call[a] /\ req'[a] = req[a]
  <2>1. CASE Ask(a)
    <3>1. call'[a] = calls + 1
      BY <1>0, <2>1 DEF Ask
    <3>. QED BY <1>0, <1>2, <3>1
  <2>2. CASE Return(a)
    BY <1>0, <2>2 DEF Return
  <2>3. ASSUME NEW b \in App, b # a, Ask(b) \/ Return(b)
        PROVE  pc'[a] = pc[a] /\ call'[a] = call[a] /\ req'[a] = req[a]
    BY <1>0, <2>3 DEF Ask, Return
  <2>4. \/ \E b \in App : Ask(b) \/ Return(b)
        \/ UNCHANGED <<call, req>> /\ (pc[a] = "idle" => pc'[a] = "idle")
    <3>1. CASE UNCHANGED <<pc, call, req>>
      BY <3>1
    <3>2. ASSUME NEW b \in App, Thread(b), ~Ask(b), ~Return(b)
          PROVE  UNCHANGED <<call, req>> /\ pc[b] # "idle" /\ \A d \in App : d # b => pc'[d] = pc[d]
      BY <1>0, <3>2 DEF Thread, Lock, Send, Take, Timeout, ListenSyncTake, ListenSyncTimeout,
         ListenSyncRespond
    <3>3. \/ UNCHANGED <<pc, call, req>>
          \/ \E b \in App : Thread(b)
      BY DEF Next, Channel, Listener, vars, app_vars, Lose, Deliver, ClearOldFrames,
         Listen_Async, ListenLock, ListenServe, ListenIdle
    <3>. QED BY <3>1, <3>2, <3>3
  <2>. QED BY <2>1, <2>2, <2>3, <2>4
<1>4. f = Question(a)
  <2>1. CASE f \in Frames
    BY <1>3, <2>1 DEF QuestionInv
  <2>2. ASSUME NEW b \in App, pc[b] = "send", f = Question(b) PROVE f = Question(a)
    <3>1. call[b] = call[a]
      BY <1>3, <2>2 DEF Question, Frame
    <3>. QED BY <1>0, <1>3, <2>2, <3>1
  <2>. QED BY <1>1, <2>1, <2>2
<1>. QED BY <1>3, <1>4 DEF Question

-----------------------------------------------------------------------------
(* Steps that bring no token.                                              *)

\* What is said of a frame f after a step.
CurrentAfter(n, f) ==
    \E a \in App : /\ Receiving(a)' /\ f = Question(a)'
                   /\ Home[req'[a].device] = n /\ performed'[call'[a]] = <<>>
SaysAfter(a, f) ==
    /\ Receiving(a)' /\ f.call = call'[a] /\ f.type \in req'[a].service.expects
    /\ \/ IsShort(f) \/ req'[a].peer = Group
       \/ f.to = Host[a] /\ req'[a].peer \in {Broadcast, f.from}
    /\ f.type = "ACK" => performed'[call'[a]] # <<>>
    /\ f.type \in Refusals => performed'[call'[a]] = <<>>
    /\ ~IsShort(f) => /\ f.item = req'[a].item
                      /\ \E m \in Range(performed'[call'[a]]) : m.by = f.by /\ m.val = f.val

LEMMA RequestsAfter ==
    ASSUME \A x \in net' : Direct(x.frame) => Stray(x.at, x.frame) \/ CurrentAfter(x.at, x.frame),
           \A m \in Node : \A i \in DOMAIN rx'[m] :
               Direct(rx'[m][i].frame) => CurrentAfter(m, rx'[m][i].frame),
           \A a \in App : pc'[a] = "respond" => ~Direct(got'[a][1])
    PROVE  RequestInv'
BY DEF RequestInv, CurrentAfter, Current, Stray, Direct

LEMMA AnswersAfter ==
    ASSUME NEW n \in Node,
           \A x \in NetAnswers(n)' : \E a \in App : SaysAfter(a, x.frame),
           \A i \in FreshAnswers(n)' : \E a \in App : SaysAfter(a, rx'[n][i].frame),
           \A x, y \in NetAnswers(n)' : x = y,
           \A i, j \in FreshAnswers(n)' : i = j,
           NetAnswers(n)' = {} \/ FreshAnswers(n)' = {},
           NetAnswers(n)' # {} \/ FreshAnswers(n)' # {} => Quiet'
    PROVE  AnswerInv(n)'
<1>1. (\A x \in NetAnswers(n) : \E a \in App : Says(a, x.frame))'
  BY DEF SaysAfter, Says, RightAddresses, IsShort
<1>2. (\A i \in FreshAnswers(n) : \E a \in App : Says(a, rx[n][i].frame))'
  BY DEF SaysAfter, Says, RightAddresses, IsShort
<1>. QED BY <1>1, <1>2 DEF AnswerInv

\* What is new in the net is neither a request to a device nor an answer, the queues lose
\* and age, Listen_Sync is handed nothing it asks of a device.
NoNewToken(g) ==
    /\ Thins(g)
    /\ \A x \in net' : x \in net \/ ~(Direct(x.frame) \/ IsAnswer(x.frame))
    /\ \A a \in App : pc'[a] = "respond" => ~Direct(got'[a][1])

\* Who waits goes on waiting, and nothing happens to its call.
LEMMA TokensKept ==
    ASSUME IInv, NEW n \in Node, RequestInv, AnswerInv(n), NEW g, NoNewToken(g),
           \A a \in App : Receiving(a) =>
               /\ pc'[a] = "recv" /\ req'[a] = req[a] /\ call'[a] = call[a]
               /\ performed'[call[a]] = performed[call[a]]
    PROVE  RequestInv' /\ AnswerInv(n)'
<1>1. \A m \in Node : \A i \in DOMAIN rx'[m] :
        /\ g[m][i] \in DOMAIN rx[m] /\ rx'[m][i].frame = rx[m][g[m][i]].frame
        /\ rx'[m][i].fresh => rx[m][g[m][i]].fresh
  BY DEF NoNewToken, Thins
<1>2. \A i, j \in DOMAIN rx'[n] : g[n][i] = g[n][j] => i = j
  BY DEF NoNewToken, Thins
<1>3. /\ \A x \in net' : Direct(x.frame) \/ IsAnswer(x.frame) => x \in net
      /\ \A a \in App : pc'[a] = "respond" => ~Direct(got'[a][1])
  BY DEF NoNewToken
<1>4. ASSUME NEW m, NEW f, Current(m, f) PROVE CurrentAfter(m, f)
  BY <1>4 DEF Current, CurrentAfter, Receiving, Question
<1>5. ASSUME NEW a \in App, NEW f, Says(a, f) PROVE SaysAfter(a, f)
  BY <1>5 DEF Says, SaysAfter, Receiving, RightAddresses
<1>6. \A m, f : Stray(m, f)' <=> Stray(m, f)
  BY DEF Stray
<1>7. \A f : (Direct(f)' <=> Direct(f)) /\ (IsAnswer(f)' <=> IsAnswer(f))
  BY DEF Direct, IsAnswer
<1>8. RequestInv'
  <2>1. \A x \in net' : Direct(x.frame) => Stray(x.at, x.frame) \/ CurrentAfter(x.at, x.frame)
    BY <1>3, <1>4 DEF RequestInv
  <2>2. \A m \in Node : \A i \in DOMAIN rx'[m] :
          Direct(rx'[m][i].frame) => CurrentAfter(m, rx'[m][i].frame)
    <3>1. \A m \in Node : \A i \in DOMAIN rx[m] : Direct(rx[m][i].frame) => Current(m, rx[m][i].frame)
      BY DEF RequestInv
    <3>. QED BY <1>1, <1>4, <3>1
  <2>. QED BY <1>3, <2>1, <2>2, RequestsAfter
<1>9. NetAnswers(n)' \subseteq NetAnswers(n)
  BY <1>3, <1>7 DEF NetAnswers
<1>10. \A i \in FreshAnswers(n)' : g[n][i] \in FreshAnswers(n) /\ rx'[n][i].frame = rx[n][g[n][i]].frame
  BY <1>1, <1>7 DEF FreshAnswers
<1>11. \A x \in NetAnswers(n)' : \E a \in App : SaysAfter(a, x.frame)
  BY <1>5, <1>9 DEF AnswerInv
<1>12. \A i \in FreshAnswers(n)' : \E a \in App : SaysAfter(a, rx'[n][i].frame)
  <2>1. \A i \in FreshAnswers(n) : \E a \in App : Says(a, rx[n][i].frame)
    BY DEF AnswerInv
  <2>. QED BY <1>5, <1>10, <2>1
<1>13. \A x, y \in NetAnswers(n)' : x = y
  BY <1>9 DEF AnswerInv
<1>14. \A i, j \in FreshAnswers(n)' : i = j
  <2>1. \A i, j \in FreshAnswers(n) : i = j
    BY DEF AnswerInv
  <2>2. \A i \in FreshAnswers(n)' : i \in DOMAIN rx'[n]
    BY DEF FreshAnswers
  <2>. QED BY <1>2, <1>10, <2>1, <2>2
<1>15. NetAnswers(n)' = {} \/ FreshAnswers(n)' = {}
  BY <1>9, <1>10 DEF AnswerInv
<1>16. NetAnswers(n)' # {} \/ FreshAnswers(n)' # {} => Quiet'
  <2>. SUFFICES ASSUME NetAnswers(n)' # {} \/ FreshAnswers(n)' # {} PROVE Quiet'
    OBVIOUS
  <2>1. Quiet
    BY <1>9, <1>10 DEF AnswerInv
  <2>2. \A x \in net' : Direct(x.frame) => Stray(x.at, x.frame)
    BY <1>3, <2>1 DEF Quiet
  <2>3. \A m \in Node : \A i \in DOMAIN rx'[m] : ~Direct(rx'[m][i].frame)
    <3>1. \A m \in Node : \A i \in DOMAIN rx[m] : ~Direct(rx[m][i].frame)
      BY <2>1 DEF Quiet
    <3>. QED BY <1>1, <3>1
  <2>. QED BY <1>6, <1>7, <2>2, <2>3 DEF Quiet
<1>. QED BY <1>8, <1>11, <1>12, <1>13, <1>14, <1>15, <1>16, AnswersAfter

\* There is no token left.
LEMMA TokensGone ==
    ASSUME IInv, NEW n \in Node, RequestInv, Quiet, NetAnswers(n) = {}, NEW g, NoNewToken(g),
           \A i \in DOMAIN rx'[n] : g[n][i] \notin FreshAnswers(n)
    PROVE  RequestInv' /\ AnswerInv(n)'
<1>1. \A m \in Node : \A i \in DOMAIN rx'[m] :
        /\ g[m][i] \in DOMAIN rx[m] /\ rx'[m][i].frame = rx[m][g[m][i]].frame
        /\ rx'[m][i].fresh => rx[m][g[m][i]].fresh
  BY DEF NoNewToken, Thins
<1>2. /\ \A x \in net' : Direct(x.frame) \/ IsAnswer(x.frame) => x \in net
      /\ \A a \in App : pc'[a] = "respond" => ~Direct(got'[a][1])
  BY DEF NoNewToken
<1>3. \A f : (Direct(f)' <=> Direct(f)) /\ (IsAnswer(f)' <=> IsAnswer(f))
  BY DEF Direct, IsAnswer
<1>4. \A m, f : Stray(m, f)' <=> Stray(m, f)
  BY DEF Stray
<1>5. \A x \in net' : Direct(x.frame) => Stray(x.at, x.frame)
  BY <1>2 DEF Quiet
<1>6. \A m \in Node : \A i \in DOMAIN rx'[m] : ~Direct(rx'[m][i].frame)
  <2>1. \A m \in Node : \A i \in DOMAIN rx[m] : ~Direct(rx[m][i].frame)
    BY DEF Quiet
  <2>. QED BY <1>1, <2>1
<1>7. RequestInv'
  BY <1>2, <1>3, <1>4, <1>5, <1>6 DEF RequestInv
<1>8. NetAnswers(n)' = {}
  BY <1>2, <1>3 DEF NetAnswers
<1>9. FreshAnswers(n)' = {}
  BY <1>1, <1>3 DEF FreshAnswers
<1>. QED BY <1>7, <1>8, <1>9 DEF AnswerInv

-----------------------------------------------------------------------------
(* One step: the call that waits.                                          *)

\* What is known of the call of a thread that asks one device.
LEMMA CallFacts ==
    ASSUME IInv, NEW n \in Node, OneCaller(n), NEW a \in App, pc[a] # "idle",
           req[a].service.asks \in DirectTypes
    PROVE  /\ DirectService(req[a].service) /\ Waits(req[a].service) /\ ~KeepsWaiting(req[a].service)
           /\ req[a] \in DirectRequests /\ Owns(req[a].device, req[a].peer)
           /\ Home[req[a].device] \in Listening /\ Home[req[a].device] # n /\ AppNode[a] = n
           /\ Home[req[a].device] \in Node
<1>1. req[a] \in Requests[a]
  BY DEF IInv, CallInv
<1>2. req[a].service \in API
  BY <1>1, RequestAssumption
<1>3. DirectService(req[a].service)
  BY <1>2, DirectFacts
<1>4. Waits(req[a].service) /\ ~KeepsWaiting(req[a].service)
  BY <1>3 DEF DirectService, Waits, KeepsWaiting
<1>5. req[a] \in DirectRequests
  BY <1>1 DEF DirectRequests
<1>. QED BY <1>3, <1>4, <1>5, ExchangeAssumption DEF OneCaller

\* One call at most has the mutex of the process.
LEMMA Alone ==
    ASSUME IInv, NEW n \in Node, OneCaller(n), NEW a \in App, NEW b \in App,
           pc[a] \in {"send", "recv"}, req[a].service.asks \in DirectTypes, Receiving(b)
    PROVE  b = a
<1>1. /\ DirectService(req[a].service) /\ AppNode[a] = n
      /\ DirectService(req[b].service) /\ AppNode[b] = n
  BY CallFacts DEF Receiving
<1>2. Calling(a) /\ Calling(b)
  BY <1>1 DEF Calling, Receiving, DirectService
<1>. QED BY <1>1, <1>2 DEF IInv, MutexInv

\* A request is sent: nothing was left of other calls.
LEMMA SendTokens ==
    ASSUME IInv, NEW n \in Node, OneCaller(n), TokenInv(n), NEW a \in App, Send(a)
    PROVE  RequestInv' /\ AnswerInv(n)'
<1>. DEFINE x(m) == [at |-> m, frame |-> Question(a)]
<1>1. /\ pc[a] = "send" /\ AppNode[a] = n /\ DOMAIN pc = App
      /\ UNCHANGED <<req, got, call, performed>>
      /\ \A b \in App : b # a => pc'[b] = pc[b]
      /\ pc'[a] = IF Waits(req[a].service) THEN "recv" ELSE "return"
      /\ \A y \in net' : y \in net \/ (y.at \in Node /\ y.frame = Question(a))
  BY DEF Send, Sent, IInv, TypeOK, OneCaller
<1>2. \E g : Thins(g)
  BY <1>1, SameQueues, AgedQueue DEF Send
<1>3. Question(a).type = req[a].service.asks /\ Question(a).to = req[a].peer
  BY DEF Question, Frame
<1>4. req[a] \in Requests[a] /\ req[a].service \in API
  BY <1>1, RequestAssumption DEF IInv, CallInv
<1>5. ~IsAnswer(Question(a))
  BY <1>3, <1>4, DirectFacts DEF IsAnswer
<1>6. \A b \in App : pc'[b] = "respond" => ~Direct(got'[b][1])
  BY <1>1 DEF TokenInv, RequestInv
<1>7. CASE req[a].service.asks \notin DirectTypes
  <2>1. PICK g : Thins(g)
    BY <1>2
  <2>2. NoNewToken(g)
    BY <1>1, <1>3, <1>5, <1>6, <1>7, <2>1 DEF NoNewToken, Direct
  <2>. QED BY <1>1, <2>2, TokensKept DEF Receiving, TokenInv
<1>8. CASE req[a].service.asks \in DirectTypes
  <2>1. \A b \in App : ~Receiving(b)
    BY <1>1, <1>8, Alone DEF Receiving
  <2>2. /\ Waits(req[a].service) /\ req[a] \in DirectRequests
    BY <1>1, <1>8, CallFacts
  <2>3. Receiving(a)' /\ Question(a)' = Question(a)
    BY <1>1, <1>8, <2>2 DEF Receiving, Question
  <2>4. performed'[call'[a]] = <<>>
    <3>1. call[a] \in 1..MaxCalls /\ Asking(call[a])
      BY <1>1, Constants DEF IInv, CallInv, TypeOK, Asking
    <3>. QED BY <1>1, <3>1 DEF IInv, CallInv
  <2>5. Quiet /\ NetAnswers(n) = {} /\ FreshAnswers(n) = {}
    BY <2>1 DEF TokenInv, RequestInv, AnswerInv, Quiet, Current, Says
  <2>6. PICK g : Thins(g)
    BY <1>2
  <2>7. \A m \in Node : \A i \in DOMAIN rx'[m] : ~Direct(rx'[m][i].frame)
    <3>1. \A m \in Node : \A i \in DOMAIN rx[m] : ~Direct(rx[m][i].frame)
      BY <2>5 DEF Quiet
    <3>2. \A m \in Node : \A i \in DOMAIN rx'[m] :
            g[m][i] \in DOMAIN rx[m] /\ rx'[m][i].frame = rx[m][g[m][i]].frame
      BY <2>6 DEF Thins
    <3>. QED BY <3>1, <3>2
  <2>8. \A y \in net' : Direct(y.frame) => Stray(y.at, y.frame) \/ CurrentAfter(y.at, y.frame)
    <3>1. \A y \in net : Direct(y.frame) => Stray(y.at, y.frame)
      BY <2>5 DEF Quiet
    <3>2. ASSUME NEW m \in Node PROVE Stray(m, Question(a)) \/ CurrentAfter(m, Question(a))
      <4>1. CASE Home[req[a].device] = m
        BY <1>1, <2>3, <2>4, <4>1 DEF CurrentAfter
      <4>2. CASE Home[req[a].device] # m
        BY <1>3, <2>2, <4>2 DEF Stray
      <4>. QED BY <4>1, <4>2
    <3>. QED BY <1>1, <3>1, <3>2
  <2>9. RequestInv'
    BY <1>6, <2>7, <2>8, RequestsAfter
  <2>10. NetAnswers(n)' = {}
    BY <1>1, <1>5, <2>5 DEF NetAnswers, IsAnswer
  <2>11. FreshAnswers(n)' = {}
    <3>1. \A i \in DOMAIN rx'[n] : ~rx'[n][i].fresh
      BY <1>1, <2>2, AgedQueue DEF Send
    <3>. QED BY <3>1 DEF FreshAnswers
  <2>. QED BY <2>9, <2>10, <2>11 DEF AnswerInv
<1>. QED BY <1>7, <1>8

\* What ends the call of a thread that asks one device leaves nothing.
LEMMA TakeTokens ==
    ASSUME IInv, NEW n \in Node, OneCaller(n), TokenInv(n), NEW a \in App, Take(a)
    PROVE  RequestInv' /\ AnswerInv(n)'
<1>. DEFINE k == FirstAnswer(a)
            g == Shift(n, k)
<1>1. /\ pc[a] = "recv" /\ AppNode[a] = n /\ DOMAIN pc = App /\ DOMAIN got = App
      /\ k # 0 /\ rx' = [rx EXCEPT ![n] = RemoveAt(@, k)]
      /\ UNCHANGED <<net, req, call, performed>>
      /\ \A b \in App : b # a => pc'[b] = pc[b] /\ got'[b] = got[b]
      /\ pc'[a] \in {"recv", "return"}
  BY DEF Take, IInv, TypeOK, OneCaller
<1>2. /\ k \in DOMAIN rx[n] /\ rx[n][k].fresh
      /\ Lets(req[a].service, rx[n][k].frame.type)
  BY <1>1, FirstAnswerFacts DEF IInv
<1>. HIDE DEF k
<1>3. Thins(g) /\ \A i \in DOMAIN rx'[n] : g[n][i] # k
  BY <1>1, <1>2, LeftQueue
<1>. HIDE DEF g
<1>4. NoNewToken(g)
  BY <1>1, <1>3 DEF NoNewToken, TokenInv, RequestInv
<1>5. CASE ~Receiving(a)
  BY <1>1, <1>4, <1>5, TokensKept DEF Receiving, TokenInv
<1>6. CASE Receiving(a)
  <2>1. IsAnswer(rx[n][k].frame)
    <3>1. DirectService(req[a].service)
      BY <1>6, CallFacts DEF Receiving
    <3>2. AnswerOf(req[a].service.asks) \in AnswerTypes
      BY DEF AnswerOf, AnswerTypes
    <3>. QED BY <1>2, <3>1, <3>2 DEF IsAnswer, DirectService, Lets, AnswerTypes, Refusals
  <2>2. k \in FreshAnswers(n)
    BY <1>2, <2>1 DEF FreshAnswers
  <2>3. Quiet /\ NetAnswers(n) = {} /\ \A i \in FreshAnswers(n) : i = k
    BY <2>2 DEF TokenInv, AnswerInv
  <2>4. \A i \in DOMAIN rx'[n] : g[n][i] \notin FreshAnswers(n)
    BY <1>3, <2>3
  <2>. QED BY <1>4, <2>3, <2>4, TokensGone DEF TokenInv
<1>. QED BY <1>5, <1>6

\* A call that asks one device and times out in time has nothing on its way.
LEMMA NothingComes ==
    ASSUME IInv, NEW n \in Node, OneCaller(n), TokenInv(n), ~Late, NEW a \in App, Timeout(a),
           Receiving(a)
    PROVE  Quiet /\ NetAnswers(n) = {} /\ FreshAnswers(n) = {}
<1>1. /\ FirstAnswer(a) = 0 /\ ~Pending(call[a]) /\ AppNode[a] = n
  BY DEF Timeout, OneCaller
<1>2. /\ \A b \in App : Receiving(b) => b = a
  BY Alone DEF Receiving
<1>3. \A copy \in net : copy.frame.call # call[a]
  BY <1>1 DEF Pending
<1>4. NetAnswers(n) = {}
  <2>1. \A x \in NetAnswers(n) : x \in net /\ \E b \in App : Says(b, x.frame)
    BY DEF TokenInv, AnswerInv, NetAnswers
  <2>. QED BY <1>2, <1>3, <2>1 DEF Says
<1>5. FreshAnswers(n) = {}
  <2>1. SUFFICES ASSUME NEW i \in FreshAnswers(n) PROVE FALSE
    OBVIOUS
  <2>2. Says(a, rx[n][i].frame)
    BY <1>2 DEF TokenInv, AnswerInv, Says
  <2>3. i \in DOMAIN rx[n] /\ rx[n][i].fresh
    BY DEF FreshAnswers
  <2>4. RightAddresses(a, rx[n][i].frame) /\ Lets(req[a].service, rx[n][i].frame.type)
    BY <2>2 DEF Says, Lets
  <2>. QED BY <1>1, <2>3, <2>4, NoAnswerFacts DEF IInv
<1>6. \A m, f : Current(m, f) => f.call = call[a] /\ f.type \in RequestTypes /\ m = Home[req[a].device]
  <2>1. Question(a).call = call[a] /\ Question(a).type \in RequestTypes
    BY TypesApart DEF Question, Frame, Receiving
  <2>. QED BY <1>2, <2>1 DEF Current
<1>7. \A x \in net : Direct(x.frame) => Stray(x.at, x.frame)
  BY <1>3, <1>6 DEF TokenInv, RequestInv
<1>8. \A m \in Node : \A i \in DOMAIN rx[m] : ~Direct(rx[m][i].frame)
  <2>. SUFFICES ASSUME NEW m \in Node, NEW i \in DOMAIN rx[m], Direct(rx[m][i].frame) PROVE FALSE
    OBVIOUS
  <2>1. Current(m, rx[m][i].frame)
    BY DEF TokenInv, RequestInv
  <2>2. /\ rx[m][i].frame.call = call[a] /\ rx[m][i].frame.type \in RequestTypes
        /\ m = Home[req[a].device]
    BY <1>6, <2>1
  <2>3. m \in Listening /\ m # n
    BY <2>2, CallFacts DEF Receiving
  <2>4. lst[m] # "off" /\ objs[m] \notin App
    BY <2>3 DEF TokenInv, HolderInv, OneCaller
  <2>5. rx[m][i] \in Range(rx[m])
    BY DEF Range
  <2>. QED BY <1>1, <2>2, <2>4, <2>5 DEF Pending
<1>. QED BY <1>4, <1>5, <1>7, <1>8 DEF Quiet

LEMMA TimeoutTokens ==
    ASSUME IInv, NEW n \in Node, OneCaller(n), TokenInv(n), ~Late, NEW a \in App, Timeout(a)
    PROVE  RequestInv' /\ AnswerInv(n)'
<1>. DEFINE g == [m \in Node |-> [i \in Nat |-> i]]
<1>1. /\ pc[a] = "recv" /\ DOMAIN pc = App /\ UNCHANGED <<rx, net, req, call, got, performed>>
      /\ \A b \in App : b # a => pc'[b] = pc[b]
      /\ pc'[a] = "return"
  BY DEF Timeout, IInv, TypeOK
<1>2. Thins(g)
  BY <1>1, SameQueues
<1>. HIDE DEF g
<1>3. NoNewToken(g)
  BY <1>1, <1>2 DEF NoNewToken, TokenInv, RequestInv
<1>4. CASE ~Receiving(a)
  BY <1>1, <1>3, <1>4, TokensKept DEF Receiving, TokenInv
<1>5. CASE Receiving(a)
  <2>1. Quiet /\ NetAnswers(n) = {} /\ FreshAnswers(n) = {}
    BY <1>5, NothingComes
  <2>. QED BY <1>3, <2>1, TokensGone DEF TokenInv
<1>. QED BY <1>4, <1>5

-----------------------------------------------------------------------------
(* One step: the channel.                                                  *)

\* A request is let in at its device only.
LEMMA LetIn ==
    ASSUME IInv, NEW n \in Node, OneCaller(n), TokenInv(n), NEW copy \in net, Direct(copy.frame),
           Accepts(copy.at, copy.frame)
    PROVE  Current(copy.at, copy.frame) /\ ~Quiet
<1>. DEFINE f == copy.frame
            m == copy.at
<1>1. m \in Node /\ (Stray(m, f) \/ Current(m, f))
  BY DEF TokenInv, RequestInv, IInv, TypeOK
<1>2. ~IsShort(f)
  BY DirectTypesAre DEF Direct, IsShort, Refusals
<1>3. \A r \in DirectRequests : f.to = r.peer => Home[r.device] = m
  <2>. SUFFICES ASSUME NEW r \in DirectRequests, f.to = r.peer PROVE Home[r.device] = m
    OBVIOUS
  <2>1. Owns(r.device, r.peer) /\ PeerOK(r)
    BY DEF OneCaller, TokenInv
  <2>2. WithAddress(m, f.to) # {}
    BY <1>2, <2>1 DEF Accepts, Owns
  <2>3. PICK d \in At(m) : addr[d] = r.peer
    BY <2>2 DEF WithAddress
  <2>. QED BY <2>1, <2>3 DEF PeerOK, At
<1>4. ~Stray(m, f)
  BY <1>3 DEF Stray
<1>. QED BY <1>1, <1>4 DEF Quiet

LEMMA DeliverTokens ==
    ASSUME IInv, NEW n \in Node, OneCaller(n), TokenInv(n), NEW m \in Node, Deliver(m)
    PROVE  RequestInv' /\ AnswerInv(n)'
<1>1. PICK copy \in net :
        /\ copy.at = m /\ net' = net \ {copy}
        /\ rx' = IF Accepts(m, copy.frame)
                 THEN [rx EXCEPT ![m] = Append(@, [frame |-> copy.frame, fresh |-> TRUE])]
                 ELSE rx
  BY DEF Deliver
<1>2. UNCHANGED <<pc, req, got, call, performed>>
  BY DEF Deliver, app_vars
<1>3. \A a \in App : pc'[a] = "respond" => ~Direct(got'[a][1])
  BY <1>2 DEF TokenInv, RequestInv
<1>4. CASE ~Accepts(m, copy.frame)
  <2>. DEFINE g == [k \in Node |-> [i \in Nat |-> i]]
  <2>1. Thins(g)
    BY <1>1, <1>4, SameQueues
  <2>. HIDE DEF g
  <2>2. NoNewToken(g)
    BY <1>1, <1>3, <2>1 DEF NoNewToken
  <2>. QED BY <1>2, <2>2, TokensKept DEF Receiving, TokenInv
<1>5. CASE Accepts(m, copy.frame)
  <2>. DEFINE e == [frame |-> copy.frame, fresh |-> TRUE]
              q == Append(rx[m], e)
              last == Len(rx[m]) + 1
  <2>1. /\ DOMAIN q = 1..last /\ q[last] = e
        /\ \A i \in 1..Len(rx[m]) : q[i] = rx[m][i]
        /\ DOMAIN rx[m] = 1..Len(rx[m]) /\ Len(rx[m]) \in Nat /\ DOMAIN rx = Node
    BY QueueFacts, Pushed DEF IInv, TypeOK
  <2>2. rx'[m] = q /\ \A k \in Node : k # m => rx'[k] = rx[k]
    BY <1>1, <1>5, <2>1
  <2>3. e.frame = copy.frame
    OBVIOUS
  <2>4. last \notin DOMAIN rx[m]
    BY <2>1
  <2>. HIDE DEF q, e
  <2>5. \A i \in DOMAIN q : (i \in DOMAIN rx[m] /\ q[i] = rx[m][i]) \/ (i = last /\ q[i] = e)
    BY <2>1
  <2>. HIDE DEF last
  <2>6. \A k \in Node : \A i \in DOMAIN rx'[k] :
          \/ i \in DOMAIN rx[k] /\ rx'[k][i] = rx[k][i]
          \/ k = m /\ i = last /\ rx'[k][i] = e
    BY <2>2, <2>5
  <2>7. \A k, f : Current(k, f) => CurrentAfter(k, f)
    BY <1>2 DEF Current, CurrentAfter, Receiving, Question
  <2>8. \A a \in App : \A f : Says(a, f) => SaysAfter(a, f)
    BY <1>2 DEF Says, SaysAfter, Receiving, RightAddresses
  <2>9. RequestInv'
    <3>1. \A x \in net' : Direct(x.frame) => Stray(x.at, x.frame) \/ CurrentAfter(x.at, x.frame)
      BY <1>1, <2>7 DEF TokenInv, RequestInv
    <3>2. Direct(copy.frame) => Current(m, copy.frame)
      BY <1>1, <1>5, LetIn
    <3>3. \A k \in Node : \A i \in DOMAIN rx'[k] :
            Direct(rx'[k][i].frame) => CurrentAfter(k, rx'[k][i].frame)
      <4>1. \A k \in Node : \A i \in DOMAIN rx[k] :
              Direct(rx[k][i].frame) => Current(k, rx[k][i].frame)
        BY DEF TokenInv, RequestInv
      <4>. QED BY <2>3, <2>6, <2>7, <3>2, <4>1
    <3>. QED BY <1>3, <3>1, <3>3, RequestsAfter
  <2>10. NetAnswers(n)' \subseteq NetAnswers(n) \ {copy}
    BY <1>1 DEF NetAnswers, IsAnswer
  <2>11. \A i \in FreshAnswers(n)' :
           \/ i \in FreshAnswers(n) /\ rx'[n][i] = rx[n][i]
           \/ n = m /\ i = last /\ rx'[n][i].frame = copy.frame /\ IsAnswer(copy.frame)
    BY <2>3, <2>6 DEF FreshAnswers, IsAnswer
  <2>12. n = m /\ IsAnswer(copy.frame) => copy \in NetAnswers(n)
    BY <1>1 DEF NetAnswers
  <2>13. /\ \A x \in NetAnswers(n) : \E a \in App : Says(a, x.frame)
         /\ \A i \in FreshAnswers(n) : \E a \in App : Says(a, rx[n][i].frame)
         /\ \A x, y \in NetAnswers(n) : x = y
         /\ \A i, j \in FreshAnswers(n) : i = j
         /\ NetAnswers(n) = {} \/ FreshAnswers(n) = {}
         /\ NetAnswers(n) # {} \/ FreshAnswers(n) # {} => Quiet
    BY DEF TokenInv, AnswerInv
  <2>14. \A x \in NetAnswers(n)' : \E a \in App : SaysAfter(a, x.frame)
    BY <2>8, <2>10, <2>13
  <2>15. \A i \in FreshAnswers(n)' : \E a \in App : SaysAfter(a, rx'[n][i].frame)
    BY <2>8, <2>11, <2>12, <2>13
  <2>16. \A x, y \in NetAnswers(n)' : x = y
    BY <2>10, <2>13
  <2>17. \A i, j \in FreshAnswers(n)' : i = j
    BY <2>11, <2>12, <2>13
  <2>18. NetAnswers(n)' = {} \/ FreshAnswers(n)' = {}
    BY <2>10, <2>11, <2>12, <2>13
  <2>19. NetAnswers(n)' # {} \/ FreshAnswers(n)' # {} => Quiet'
    <3>. SUFFICES ASSUME NetAnswers(n)' # {} \/ FreshAnswers(n)' # {} PROVE Quiet'
      OBVIOUS
    <3>1. Quiet
      BY <2>10, <2>11, <2>12, <2>13
    <3>2. ~Direct(copy.frame)
      BY <1>1, <1>5, <3>1, LetIn
    <3>3. \A k \in Node : \A i \in DOMAIN rx'[k] : ~Direct(rx'[k][i].frame)
      <4>1. \A k \in Node : \A i \in DOMAIN rx[k] : ~Direct(rx[k][i].frame)
        BY <3>1 DEF Quiet
      <4>. QED BY <2>3, <2>6, <3>2, <4>1
    <3>4. \A x \in net' : Direct(x.frame) => Stray(x.at, x.frame)
      BY <1>1, <3>1 DEF Quiet
    <3>. QED BY <3>3, <3>4 DEF Quiet, Direct, Stray
  <2>. QED BY <2>9, <2>14, <2>15, <2>16, <2>17, <2>18, <2>19, AnswersAfter
<1>. QED BY <1>4, <1>5

-----------------------------------------------------------------------------
(* One step: a device acts.                                                *)

\* A request to no one device leaves the calls that wait for one alone.
LEMMA OtherRequest ==
    ASSUME IInv, NEW n \in Node, TokenInv(n), NEW m \in Node, NEW f \in Frames, Respond(m, f),
           f.type \in RequestTypes, ~Direct(f), ~ActedAt(m, f.call),
           NEW g, Thins(g), UNCHANGED <<req, call>>,
           \A a \in App : pc[a] = "recv" => pc'[a] = "recv",
           \A a \in App : pc'[a] = "respond" => pc[a] = "respond" /\ got'[a] = got[a]
    PROVE  RequestInv' /\ AnswerInv(n)'
<1>1. \A x \in net' : x \in net \/ ~(Direct(x.frame) \/ IsAnswer(x.frame))
  BY OtherReplies DEF Respond, Sent
<1>2. NoNewToken(g)
  BY <1>1 DEF NoNewToken, TokenInv, RequestInv
<1>3. f.call \in 1..MaxCalls
  BY FramesOK, Constants DEF FrameOK, IInv, TypeOK
<1>4. \A a \in App : Receiving(a) => call[a] \in 1..MaxCalls /\ call[a] # f.call
  <2>1. \A a \in App : Receiving(a) => call[a] \in 1..MaxCalls
    BY Constants DEF Receiving, IInv, CallInv, TypeOK
  <2>2. ASSUME NEW a \in App, Receiving(a), call[a] = f.call PROVE FALSE
    <3>1. f = Question(a)
      BY <2>2 DEF TokenInv, QuestionInv, Receiving
    <3>. QED BY <2>2, <3>1 DEF Receiving, Direct, Question, Frame
  <2>. QED BY <2>1, <2>2
<1>5. \A c \in 1..MaxCalls : c # f.call => performed'[c] = performed[c]
  BY <1>3, Recorded DEF IInv
<1>. QED BY <1>2, <1>4, <1>5, TokensKept DEF Receiving, TokenInv

\* The history of a call after one device has acted for the first time.
LEMMA FirstMark ==
    ASSUME TypeOK, NEW n \in Node, NEW f, Respond(n, f), f.call \in 1..MaxCalls,
           performed[f.call] = <<>>
    PROVE  /\ Marks(n, f) = {} => performed'[f.call] = <<>>
           /\ \A m : Marks(n, f) = {m} => performed'[f.call] = <<m>>
<1>. DEFINE L == SetToSeq(Marks(n, f))
<1>1. L \in Seq(Marks(n, f)) /\ Len(L) = Cardinality(Marks(n, f))
  BY MarksApart, Listed
<1>2. performed'[f.call] = <<>> \o L
  BY DEF Respond, TypeOK
<1>3. performed'[f.call] = L
  BY <1>1, <1>2
<1>4. Marks(n, f) = {} => L = <<>>
  BY <1>1, EmptySeq
<1>5. ASSUME NEW m, Marks(n, f) = {m} PROVE L = <<m>>
  <2>1. Len(L) = 1
    BY <1>1, <1>5, FS_Singleton
  <2>2. L[1] = m
    BY <1>1, <1>5, <2>1, ElementOfSeq
  <2>. HIDE DEF L
  <2>. QED BY <1>1, <2>1, <2>2
<1>. QED BY <1>3, <1>4, <1>5

\* What the device answers says what it has done.
LEMMA Answers ==
    ASSUME IInv, NEW n \in Node, OneCaller(n), TokenInv(n), NEW a \in App, Receiving(a),
           performed[call[a]] = <<>>, NEW m \in Node, Respond(m, Question(a)),
           UNCHANGED <<pc, req, call>>
    PROVE  \E r : /\ Replies(m, Question(a)) \subseteq {r}
                  /\ Replies(m, Question(a)) # {} => SaysAfter(a, r)
<1>. DEFINE f == Question(a)
            d == req[a].device
<1>1. /\ f.call = call[a] /\ f.type = req[a].service.asks /\ f.to = req[a].peer
      /\ f.from = Host[a] /\ f.item = req[a].item
  BY DEF Question, Frame
<1>2. /\ DirectService(req[a].service) /\ req[a] \in DirectRequests
  BY CallFacts DEF Receiving
<1>3. PeerOK(req[a]) /\ f.call \in 1..MaxCalls /\ Direct(f)
  BY <1>1, <1>2, Constants DEF TokenInv, Receiving, IInv, CallInv, TypeOK, Direct
<1>. HIDE DEF f
<1>4. Outcome(m, f, d)
  BY <1>1, <1>3, OutcomeOfDirect
<1>5. /\ Marks(m, f) = {} => performed'[call[a]] = <<>>
      /\ \A mark : Marks(m, f) = {mark} => performed'[call[a]] = <<mark>>
  BY <1>1, <1>3, FirstMark DEF IInv, f
<1>6. ASSUME NEW r, r.call = call[a], r.type \in {AnswerOf(f.type)} \cup Refusals,
             IsShort(r) \/ (r.to = Host[a] /\ req[a].peer = r.from),
             r.type = "ACK" => performed'[call[a]] # <<>>,
             r.type \in Refusals => performed'[call[a]] = <<>>,
             ~IsShort(r) => /\ r.item = req[a].item
                            /\ \E k \in Range(performed'[call[a]]) : k.by = r.by /\ k.val = r.val
      PROVE  SaysAfter(a, r)
  <2>1. Receiving(a)'
    BY DEF Receiving
  <2>2. r.type \in req[a].service.expects
    BY <1>1, <1>2, <1>6 DEF DirectService
  <2>. QED BY <1>6, <2>1, <2>2 DEF SaysAfter
<1>7. \A c, type, from, to, item, val, by :
        LET r == Frame(c, type, from, to, item, val, by) IN
        /\ r.call = c /\ r.type = type /\ r.from = from /\ r.to = to /\ r.item = item
        /\ r.val = val /\ r.by = by
  BY DEF Frame
<1>8. CASE Replies(m, f) = {}
  BY <1>8 DEF f
<1>9. CASE Replies(m, f) = {Short(f, "NACK", m)} /\ Marks(m, f) = {}
  <2>. DEFINE r == Short(f, "NACK", m)
  <2>1. r.call = call[a] /\ r.type = "NACK"
    BY <1>1, <1>7 DEF Short
  <2>. HIDE DEF r
  <2>2. IsShort(r) /\ r.type \in Refusals /\ r.type # "ACK"
    BY <2>1 DEF IsShort, Refusals
  <2>3. SaysAfter(a, r)
    BY <1>5, <1>6, <1>9, <2>1, <2>2
  <2>. QED BY <1>9, <2>3 DEF r, f
<1>10. CASE /\ Replies(m, f) = {Short(f, "ACK", m)} /\ AnswerOf(f.type) = "ACK"
            /\ Marks(m, f) = {[by |-> d, val |-> f.val]}
  <2>. DEFINE r == Short(f, "ACK", m)
  <2>1. r.call = call[a] /\ r.type = "ACK"
    BY <1>1, <1>7 DEF Short
  <2>. HIDE DEF r
  <2>2. IsShort(r) /\ r.type \notin Refusals
    BY <2>1 DEF IsShort, Refusals
  <2>3. performed'[call[a]] # <<>>
    <3>1. performed'[call[a]] = <<[by |-> d, val |-> f.val]>>
      BY <1>5, <1>10
    <3>. QED BY <3>1
  <2>4. SaysAfter(a, r)
    BY <1>6, <1>10, <2>1, <2>2, <2>3
  <2>. QED BY <1>10, <2>4 DEF r, f
<1>11. CASE /\ Replies(m, f) = {Frame(f.call, AnswerOf(f.type), f.to, f.from, f.item, mem[d][f.item], d)}
            /\ AnswerOf(f.type) \notin {"ACK"} \cup Refusals
            /\ Marks(m, f) = {[by |-> d, val |-> mem[d][f.item]]}
  <2>. DEFINE r == Frame(f.call, AnswerOf(f.type), f.to, f.from, f.item, mem[d][f.item], d)
              mark == [by |-> d, val |-> mem[d][f.item]]
  <2>1. /\ r.call = call[a] /\ r.type = AnswerOf(f.type) /\ r.from = req[a].peer /\ r.to = Host[a]
        /\ r.item = req[a].item /\ r.val = mem[d][f.item] /\ r.by = d
    BY <1>1, <1>7
  <2>2. mark.by = r.by /\ mark.val = r.val
    BY <2>1
  <2>3. performed'[call[a]] = <<mark>>
    BY <1>5, <1>11
  <2>. HIDE DEF r, mark
  <2>4. mark \in Range(performed'[call[a]])
    BY <2>3 DEF Range
  <2>5. r.type # "ACK" /\ r.type \notin Refusals
    BY <1>11, <2>1
  <2>6. SaysAfter(a, r)
    BY <1>6, <2>1, <2>2, <2>4, <2>5
  <2>. QED BY <1>11, <2>6 DEF r, f
<1>. QED BY <1>4, <1>8, <1>9, <1>10, <1>11 DEF Outcome

\* The device addressed has taken the request of a call that waits: what it answers is the
\* only token left.
LEMMA ServeTokens ==
    ASSUME IInv, NEW n \in Node, OneCaller(n), TokenInv(n), NEW m \in Node, ListenServe(m)
    PROVE  RequestInv' /\ AnswerInv(n)'
<1>. DEFINE k == FirstRequest(m)
            f == rx[m][k].frame
            g == Shift(m, k)
<1>1. /\ k # 0 /\ Respond(m, f) /\ rx' = [rx EXCEPT ![m] = RemoveAt(@, k)]
      /\ UNCHANGED <<pc, req, got, call>>
  BY DEF ListenServe, app_vars
<1>2. k \in DOMAIN rx[m] /\ f.type \in RequestTypes /\ f \in Frames /\ ~ActedAt(m, f.call)
  BY <1>1, FirstRequestFacts, FramesAre DEF IInv, OneCopy
<1>3. Thins(g) /\ \A i \in DOMAIN rx'[m] : g[m][i] # k
  BY <1>1, <1>2, LeftQueue
<1>4. Direct(f) => Current(m, f) /\ ~Quiet
  BY <1>2 DEF TokenInv, RequestInv, Quiet
<1>5. \A i \in DOMAIN rx[m] : SameRequest(rx[m][i].frame, f) => i = k
  BY <1>2 DEF IInv, OneCopy
<1>6. \A x \in net : x.at = m => ~SameRequest(x.frame, f)
  BY <1>2 DEF IInv, OneCopy
<1>. HIDE DEF k, f, g
<1>7. CASE ~Direct(f)
  BY <1>1, <1>2, <1>3, <1>7, OtherRequest
<1>8. CASE Direct(f)
  <2>1. PICK a \in App : /\ Receiving(a) /\ f = Question(a)
                         /\ Home[req[a].device] = m /\ performed[call[a]] = <<>>
    BY <1>4, <1>8 DEF Current
  <2>2. \A p, h : Current(p, h) => p = m /\ h = f
    <3>1. \A b \in App : Receiving(b) => b = a
      BY <2>1, Alone DEF Receiving
    <3>. QED BY <2>1, <3>1 DEF Current
  <2>3. NetAnswers(n) = {} /\ FreshAnswers(n) = {}
    BY <1>4, <1>8 DEF TokenInv, AnswerInv
  <2>4. PICK r : Replies(m, f) \subseteq {r} /\ (Replies(m, f) # {} => SaysAfter(a, r))
    BY <1>1, <2>1, Answers
  <2>5. \A y \in net' : y \in net \/ (y = [at |-> y.at, frame |-> r] /\ r \in Replies(m, f))
    BY <1>1, <2>4 DEF Respond, Sent
  <2>6. r \in Replies(m, f) => ~Direct(r)
    BY ReplyFacts, TypesApart DEF ReplyOK, Direct
  <2>7. SameRequest(f, f)
    BY <1>2 DEF SameRequest
  <2>8. \A x \in net : Direct(x.frame) => Stray(x.at, x.frame)
    BY <1>6, <2>2, <2>7 DEF TokenInv, RequestInv
  <2>9. \A y \in net' : Direct(y.frame) => Stray(y.at, y.frame)
    <3>. SUFFICES ASSUME NEW y \in net', Direct(y.frame) PROVE y \in net
      BY <2>8
    <3>1. y = [at |-> y.at, frame |-> r] => y.frame = r
      OBVIOUS
    <3>. QED BY <2>5, <2>6, <3>1
  <2>10. \A p \in Node : \A i \in DOMAIN rx'[p] : ~Direct(rx'[p][i].frame)
    <3>. SUFFICES ASSUME NEW p \in Node, NEW i \in DOMAIN rx'[p], Direct(rx'[p][i].frame)
                  PROVE  FALSE
      OBVIOUS
    <3>1. g[p][i] \in DOMAIN rx[p] /\ rx'[p][i].frame = rx[p][g[p][i]].frame
      BY <1>3 DEF Thins
    <3>2. p = m /\ rx[p][g[p][i]].frame = f
      BY <2>2, <3>1 DEF TokenInv, RequestInv
    <3>. QED BY <1>3, <1>5, <2>7, <3>1, <3>2
  <2>11. RequestInv'
    <3>1. \A b \in App : pc'[b] = "respond" => ~Direct(got'[b][1])
      BY <1>1 DEF TokenInv, RequestInv
    <3>. QED BY <2>9, <2>10, <3>1, RequestsAfter
  <2>12. Quiet'
    BY <2>9, <2>10 DEF Quiet, Direct, Stray
  <2>13. \A x \in NetAnswers(n)' : x = [at |-> n, frame |-> r] /\ r \in Replies(m, f)
    BY <2>3, <2>5 DEF NetAnswers, IsAnswer
  <2>14. FreshAnswers(n)' = {}
    <3>1. \A i \in DOMAIN rx'[n] : /\ g[n][i] \in DOMAIN rx[n]
                                   /\ rx'[n][i].frame = rx[n][g[n][i]].frame
                                   /\ rx'[n][i].fresh => rx[n][g[n][i]].fresh
      BY <1>3 DEF Thins
    <3>. QED BY <2>3, <3>1 DEF FreshAnswers, IsAnswer
  <2>15. \A x \in NetAnswers(n)' : \E b \in App : SaysAfter(b, x.frame)
    <3>. SUFFICES ASSUME NEW x \in NetAnswers(n)' PROVE SaysAfter(a, x.frame)
      OBVIOUS
    <3>1. x.frame = r /\ r \in Replies(m, f)
      BY <2>13
    <3>. QED BY <2>4, <3>1
  <2>16. \A x, y \in NetAnswers(n)' : x = y
    BY <2>13
  <2>. QED BY <2>11, <2>12, <2>14, <2>15, <2>16, AnswersAfter
<1>. QED BY <1>7, <1>8

-----------------------------------------------------------------------------
(* One step: the others.                                                   *)

\* Listen_Sync never has in its hands what a call of its process asks one device.
LEMMA ListenSyncTokens ==
    ASSUME IInv, NEW n \in Node, OneCaller(n), TokenInv(n), NEW a \in App,
           ListenSyncTake(a) \/ ListenSyncTimeout(a) \/ ListenSyncRespond(a)
    PROVE  RequestInv' /\ AnswerInv(n)'
<1>0. /\ AppNode[a] = n /\ DOMAIN pc = App /\ DOMAIN got = App
      /\ \A b \in App : pc[b] = "respond" => ~Direct(got[b][1])
      /\ \A b, c \in App : Receiving(b) => pc[b] = "recv"
  BY DEF OneCaller, TokenInv, RequestInv, IInv, TypeOK, Receiving
<1>1. CASE ListenSyncTake(a)
  <2>. DEFINE k == FirstRequest(n)
              f == rx[n][k].frame
              g == Shift(n, k)
  <2>1. /\ pc[a] = "listen" /\ k # 0 /\ got' = [got EXCEPT ![a] = <<f>>]
        /\ rx' = [rx EXCEPT ![n] = RemoveAt(@, k)] /\ pc' = [pc EXCEPT ![a] = "respond"]
        /\ UNCHANGED <<net, req, call, performed>>
    BY <1>0, <1>1 DEF ListenSyncTake
  <2>2. k \in DOMAIN rx[n]
    BY <2>1, FirstRequestFacts DEF IInv
  <2>3. ~Direct(f)
    <3>. SUFFICES ASSUME Direct(f) PROVE FALSE
      OBVIOUS
    <3>1. PICK b \in App : Receiving(b) /\ Home[req[b].device] = n
      BY <2>2 DEF TokenInv, RequestInv, Current
    <3>. QED BY <3>1, CallFacts DEF Receiving
  <2>4. Thins(g)
    BY <2>1, <2>2, LeftQueue
  <2>. HIDE DEF k, f, g
  <2>5. got'[a][1] = f /\ \A b \in App : b # a => pc'[b] = pc[b] /\ got'[b] = got[b]
    BY <1>0, <2>1
  <2>6. \A b \in App : pc'[b] = "respond" => ~Direct(got'[b][1])
    BY <1>0, <2>3, <2>5
  <2>7. NoNewToken(g)
    BY <2>1, <2>4, <2>6 DEF NoNewToken
  <2>. QED BY <2>1, <2>5, <2>7, TokensKept DEF TokenInv, Receiving
<1>. DEFINE g == [m \in Node |-> [i \in Nat |-> i]]
<1>2. CASE ListenSyncTimeout(a)
  <2>1. /\ pc[a] = "listen" /\ pc'[a] = "return" /\ \A b \in App : b # a => pc'[b] = pc[b]
        /\ UNCHANGED <<rx, net, req, got, call, performed>>
    BY <1>0, <1>2 DEF ListenSyncTimeout
  <2>2. Thins(g)
    BY <2>1, SameQueues
  <2>. HIDE DEF g
  <2>3. NoNewToken(g)
    BY <1>0, <2>1, <2>2 DEF NoNewToken
  <2>. QED BY <2>1, <2>3, TokensKept DEF TokenInv, Receiving
<1>3. CASE ListenSyncRespond(a)
  <2>. DEFINE f == got[a][1]
  <2>1. /\ pc[a] = "respond" /\ pc'[a] = "return" /\ \A b \in App : b # a => pc'[b] = pc[b]
        /\ UNCHANGED <<rx, req, got, call>> /\ Respond(n, f)
    BY <1>0, <1>3 DEF ListenSyncRespond
  <2>2. f \in Frames /\ f.type \in RequestTypes /\ ~Direct(f) /\ ~ActedAt(n, f.call)
    BY <1>0, <2>1, FramesAre DEF IInv, FrameInv, OneCopy
  <2>3. Thins(g)
    BY <2>1, SameQueues
  <2>. HIDE DEF g, f
  <2>4. /\ \A b \in App : pc[b] = "recv" => pc'[b] = "recv"
        /\ \A b \in App : pc'[b] = "respond" => pc[b] = "respond" /\ got'[b] = got[b]
    BY <2>1
  <2>. QED BY <2>1, <2>2, <2>3, <2>4, OtherRequest
<1>. QED BY <1>1, <1>2, <1>3

\* What neither brings a frame nor concerns a call that waits.
LEMMA QuietTokens ==
    ASSUME IInv, NEW n \in Node, TokenInv(n), net' \subseteq net, UNCHANGED <<rx, performed>>,
           \A a \in App : pc'[a] = "respond" => pc[a] = "respond" /\ got'[a] = got[a],
           \A a \in App : pc[a] = "recv" =>
               pc'[a] = "recv" /\ req'[a] = req[a] /\ call'[a] = call[a]
    PROVE  RequestInv' /\ AnswerInv(n)'
<1>1. PICK g : Thins(g)
  BY SameQueues
<1>2. NoNewToken(g)
  BY <1>1 DEF NoNewToken, TokenInv, RequestInv
<1>. QED BY <1>2, TokensKept DEF TokenInv, Receiving

LEMMA TokenStep ==
    ASSUME NEW n \in Node, OneCaller(n), ~Late, IInv, TokenInv(n), [Next]_vars
    PROVE  TokenInv(n)'
<1>0. DOMAIN pc = App /\ DOMAIN got = App /\ DOMAIN req = App /\ DOMAIN call = App
  BY DEF IInv, TypeOK
<1>1. \A r \in DirectRequests : PeerOK(r)'
  BY PeerKept DEF OneCaller, TokenInv
<1>2. HolderInv' /\ QuestionInv'
  BY HolderStep, QuestionStep DEF TokenInv
<1>3. RequestInv' /\ AnswerInv(n)'
  <2>1. CASE UNCHANGED vars \/ Lose
    <3>1. net' \subseteq net /\ UNCHANGED <<rx, pc, req, got, call, performed>>
      BY <2>1 DEF vars, app_vars, Lose
    <3>. QED BY <3>1, QuietTokens
  <2>2. ASSUME NEW m \in Node, ClearOldFrames(m) PROVE RequestInv' /\ AnswerInv(n)'
    BY <2>2 DEF ClearOldFrames
  <2>3. ASSUME NEW m \in Node, Listen_Async(m) \/ ListenLock(m) \/ ListenIdle(m)
        PROVE  RequestInv' /\ AnswerInv(n)'
    <3>1. UNCHANGED <<net, rx, pc, req, got, call, performed>>
      BY <2>3 DEF Listen_Async, ListenLock, ListenIdle, app_vars
    <3>. QED BY <3>1, QuietTokens
  <2>4. ASSUME NEW a \in App, Ask(a) \/ Lock(a) \/ Return(a) PROVE RequestInv' /\ AnswerInv(n)'
    <3>1. /\ pc[a] \in {"idle", "lock", "return"} /\ pc'[a] \in {"listen", "lock", "send", "idle"}
          /\ UNCHANGED <<net, rx, performed>>
          /\ \A b \in App : b # a => /\ pc'[b] = pc[b] /\ req'[b] = req[b] /\ got'[b] = got[b]
                                     /\ call'[b] = call[b]
      BY <1>0, <2>4 DEF Ask, Lock, Return
    <3>. QED BY <3>1, QuietTokens
  <2>. QED
    BY <2>1, <2>2, <2>3, <2>4, DeliverTokens, ServeTokens, SendTokens, TakeTokens, TimeoutTokens,
       ListenSyncTokens
    DEF Next, Channel, Listener, Thread
<1>4. (\A r \in DirectRequests : PeerOK(r))'
  <2>1. DirectRequests' = DirectRequests
    BY DEF DirectRequests
  <2>. QED BY <1>1, <2>1
<1>. QED BY <1>2, <1>3, <1>4 DEF TokenInv

LEMMA TokenInit ==
    ASSUME NEW n \in Node, OneCaller(n), Init
    PROVE  TokenInv(n)
<1>1. Frames = {}
  <2>1. \A m \in Node : Range(rx[m]) = {}
    BY DEF Init, Range
  <2>. QED BY <2>1 DEF Frames, Init
<1>2. \A r \in DirectRequests : PeerOK(r)
  BY <1>1 DEF Init, PeerOK, OneCaller, Owns
<1>3. HolderInv
  BY ExchangeAssumption DEF Init, HolderInv
<1>4. QuestionInv
  BY <1>1 DEF QuestionInv
<1>5. RequestInv
  BY DEF Init, RequestInv
<1>6. NetAnswers(n) = {} /\ FreshAnswers(n) = {}
  BY DEF Init, NetAnswers, FreshAnswers
<1>. QED BY <1>2, <1>3, <1>4, <1>5, <1>6 DEF TokenInv, AnswerInv

-----------------------------------------------------------------------------
(* What a call returns.                                                    *)

\* What has been done on the request of a call stays done.
LEMMA Grown ==
    ASSUME IInv, [Next]_vars, NEW c \in 1..MaxCalls
    PROVE  /\ \A m \in Range(performed[c]) : m \in Range(performed'[c])
           /\ performed[c] # <<>> => performed'[c] # <<>>
<1>. DEFINE s == performed[c]
<1>0. /\ TypeOK /\ AppNode \in [App -> Node] /\ DOMAIN performed = 1..MaxCalls
      /\ s \in Seq(Range(s)) /\ DOMAIN s = 1..Len(s) /\ Len(s) \in Nat
  BY Constants, OwnElements DEF IInv, TypeOK
<1>1. ASSUME NEW m \in Node, NEW f, Respond(m, f)
      PROVE  /\ \A k \in Range(performed[c]) : k \in Range(performed'[c])
             /\ performed[c] # <<>> => performed'[c] # <<>>
  <2>. DEFINE t == SetToSeq(Marks(m, f))
  <2>1. t \in Seq(Marks(m, f))
    BY MarksApart, Listed
  <2>2. performed'[c] = s \/ performed'[c] = s \o t
    BY <1>0, <1>1 DEF Respond
  <2>. HIDE DEF t
  <2>3. Len(t) \in Nat
    BY <2>1, LenProperties
  <2>. DEFINE u == s \o t
  <2>4. /\ u \in Seq(Range(s) \cup Marks(m, f)) /\ Len(u) = Len(s) + Len(t)
        /\ \A i \in 1..Len(s) + Len(t) : u[i] = IF i <= Len(s) THEN s[i] ELSE t[i - Len(s)]
    BY <1>0, <2>1, Extended
  <2>. HIDE DEF s, u
  <2>5. DOMAIN u = 1..Len(s) + Len(t) /\ \A i \in 1..Len(s) : i \in DOMAIN u /\ u[i] = s[i]
    BY <1>0, <2>3, <2>4, LenProperties
  <2>6. \A k \in Range(s) : k \in Range(u)
    BY <1>0, <2>5 DEF Range
  <2>7. s # <<>> => u # <<>>
    <3>1. s # <<>> => Len(s) # 0
      BY <1>0, EmptySeq
    <3>2. u = <<>> => Len(u) = 0
      OBVIOUS
    <3>. QED BY <1>0, <2>3, <2>4, <3>1, <3>2
  <2>. QED BY <2>2, <2>6, <2>7 DEF s, u
<1>2. \/ UNCHANGED performed
      \/ \E m \in Node : ListenServe(m)
      \/ \E a \in App : ListenSyncRespond(a)
  BY DEF Next, Channel, Listener, Thread, vars, app_vars, Lose, Deliver, ClearOldFrames,
     Listen_Async, ListenLock, ListenIdle, Ask, Lock, Send, Take, Timeout, Return, ListenSyncTake,
     ListenSyncTimeout
<1>. QED BY <1>0, <1>1, <1>2 DEF ListenServe, ListenSyncRespond

\* A call that has ended had ended before, or a frame or the timeout ends it, or it is one
\* of those that wait for nobody.
LEMMA Endings ==
    ASSUME IInv, [Next]_vars, NEW a \in App, pc'[a] = "return"
    PROVE  \/ /\ pc[a] = "return" /\ req'[a] = req[a] /\ got'[a] = got[a] /\ ret'[a] = ret[a]
              /\ call'[a] = call[a]
           \/ Take(a) \/ Timeout(a)
           \/ req'[a].service.way \in {"tell", "listen"}
<1>0. /\ DOMAIN pc = App /\ DOMAIN req = App /\ DOMAIN got = App /\ DOMAIN ret = App
      /\ DOMAIN call = App
  BY DEF IInv, TypeOK
<1>1. CASE UNCHANGED app_vars
  BY <1>1 DEF app_vars
<1>2. ASSUME NEW b \in App, b # a, Thread(b) PROVE UNCHANGED <<pc[a], req[a], got[a], ret[a], call[a]>>
  BY <1>0, <1>2 DEF Thread, Ask, Lock, Send, Take, Timeout, Return, ListenSyncTake,
     ListenSyncTimeout, ListenSyncRespond
<1>3. CASE Thread(a)
  <2>1. ~Ask(a) /\ ~Lock(a) /\ ~Return(a) /\ ~ListenSyncTake(a)
    BY <1>0 DEF Ask, Lock, Return, ListenSyncTake
  <2>2. CASE Send(a)
    <3>1. req' = req /\ ~Waits(req[a].service) /\ pc[a] = "send"
      BY <1>0, <2>2 DEF Send
    <3>2. req[a].service \in API
      BY <3>1, RequestAssumption DEF IInv, CallInv
    <3>. QED BY <3>1, <3>2, ServiceFacts DEF Waits
  <2>3. CASE ListenSyncTimeout(a) \/ ListenSyncRespond(a)
    <3>1. pc[a] \in {"listen", "respond"} /\ req' = req
      BY <2>3 DEF ListenSyncTimeout, ListenSyncRespond
    <3>. QED BY <3>1 DEF IInv, MutexInv
  <2>. QED BY <1>3, <2>1, <2>2, <2>3 DEF Thread
<1>4. UNCHANGED app_vars \/ \E b \in App : Thread(b)
  BY DEF Next, Channel, Listener, vars, Lose, Deliver, ClearOldFrames, Listen_Async, ListenLock,
     ListenServe, ListenIdle
<1>. QED BY <1>1, <1>2, <1>3, <1>4

\* What a call that asks one device is handed says what has been done on its request.
LEMMA Handed ==
    ASSUME IInv, NEW n \in Node, OneCaller(n), TokenInv(n), NEW a \in App, Take(a), Receiving(a),
           got[a] = <<>>
    PROVE  \E f : /\ Says(a, f) /\ got'[a] = <<f>> /\ got'[a][1] = f
                  /\ \E types : /\ types # <<>> /\ types[1] = f.type
                                /\ ret'[a] = Result(req[a].service, types)
<1>. DEFINE k == FirstAnswer(a)
            f == rx[n][k].frame
            handed == Append(got[a], f)
<1>1. /\ AppNode[a] = n /\ k # 0 /\ DOMAIN got = App /\ DOMAIN ret = App
      /\ DirectService(req[a].service) /\ ~KeepsWaiting(req[a].service)
  BY CallFacts DEF Take, IInv, TypeOK, Receiving
<1>2. /\ k \in DOMAIN rx[n] /\ rx[n][k].fresh /\ Lets(req[a].service, f.type)
  BY <1>1, FirstAnswerFacts DEF IInv
<1>3. got'[a] = handed /\ ret'[a] = Result(req[a].service, Types(handed))
  BY <1>1 DEF Take
<1>4. handed = <<f>>
  OBVIOUS
<1>5. Types(handed) # <<>> /\ Types(handed)[1] = f.type
  <2>1. DOMAIN handed = {1} /\ handed[1] = f
    BY <1>4
  <2>2. DOMAIN Types(handed) = {1} /\ Types(handed)[1] = f.type
    BY <2>1 DEF Types
  <2>3. DOMAIN <<>> = {}
    OBVIOUS
  <2>. QED BY <2>2, <2>3
<1>6. Says(a, f)
  <2>1. AnswerOf(req[a].service.asks) \in AnswerTypes
    BY DEF AnswerOf, AnswerTypes
  <2>2. IsAnswer(f)
    BY <1>1, <1>2, <2>1 DEF IsAnswer, DirectService, Lets, AnswerTypes
  <2>3. \E b \in App : Says(b, f)
    BY <1>2, <2>2 DEF FreshAnswers, TokenInv, AnswerInv
  <2>4. \A b \in App : Receiving(b) => b = a
    BY Alone DEF Receiving
  <2>. QED BY <2>3, <2>4 DEF Says
<1>7. handed[1] = f
  BY <1>4
<1>. HIDE DEF k, f, handed
<1>. QED BY <1>3, <1>4, <1>5, <1>6, <1>7

LEMMA ReadStep ==
    ASSUME NEW n \in Node, OneCaller(n), IInv, TokenInv(n), PeerInv, ReadIsAnswered, [Next]_vars
    PROVE  ReadIsAnswered'
<1>. SUFFICES ASSUME NEW a \in App, Succeeded(a, {"query"})'
              PROVE  /\ got'[a][1].item = req'[a].item
                     /\ \E m \in Range(performed'[call'[a]]) :
                          m.by = got'[a][1].by /\ m.val = got'[a][1].val
  BY DEF ReadIsAnswered
<1>0. pc'[a] = "return" /\ ret'[a] = 0 /\ req'[a].service.way = "query"
  BY DEF Succeeded
<1>1. ASSUME pc[a] = "return" \/ pc[a] = "recv"
      PROVE  /\ call[a] \in 1..MaxCalls /\ req[a].service \in API
             /\ req[a].service.way = "query" => req[a].service \in Queries
  BY <1>1, Constants, RequestAssumption, ServiceFacts DEF IInv, CallInv, TypeOK
<1>2. CASE /\ pc[a] = "return" /\ req'[a] = req[a] /\ got'[a] = got[a] /\ ret'[a] = ret[a]
           /\ call'[a] = call[a]
  <2>1. /\ got[a][1].item = req[a].item
        /\ \E m \in Range(performed[call[a]]) : m.by = got[a][1].by /\ m.val = got[a][1].val
    BY <1>0, <1>2 DEF ReadIsAnswered, Succeeded
  <2>2. \A m \in Range(performed[call[a]]) : m \in Range(performed'[call[a]])
    BY <1>1, <1>2, Grown
  <2>. QED BY <1>2, <2>1, <2>2
<1>3. ASSUME pc[a] = "recv", req' = req
      PROVE  Receiving(a) /\ got[a] = <<>> /\ req[a].service \in Queries
  <2>1. req[a].service \in Queries
    BY <1>0, <1>1, <1>3
  <2>2. req[a].service.asks \in DirectTypes /\ ~KeepsWaiting(req[a].service)
    BY <2>1, QueryIsDirect, QueryFacts DEF DirectService, KeepsWaiting
  <2>. QED BY <1>3, <2>1, <2>2 DEF Receiving, PeerInv, NoneYet
<1>4. CASE Take(a)
  <2>1. pc[a] = "recv" /\ UNCHANGED <<req, call, performed>>
    BY <1>4 DEF Take
  <2>2. PICK f : /\ Says(a, f) /\ got'[a][1] = f
                 /\ \E types : /\ types # <<>> /\ types[1] = f.type
                               /\ ret'[a] = Result(req[a].service, types)
    BY <1>3, <1>4, <2>1, Handed
  <2>3. ~IsShort(f)
    BY <1>0, <1>3, <2>1, <2>2, QueryFacts DEF Result, IsShort
  <2>. QED BY <2>1, <2>2, <2>3 DEF Says
<1>5. CASE Timeout(a)
  <2>1. pc[a] = "recv" /\ req' = req /\ ret'[a] = Result(req[a].service, Types(got[a]))
    BY <1>5 DEF Timeout, IInv, TypeOK
  <2>. QED BY <1>0, <1>3, <2>1, NothingTaken
<1>. QED BY <1>0, <1>2, <1>4, <1>5, Endings

LEMMA WriteStep ==
    ASSUME NEW n \in Node, OneCaller(n), NoneIgnored, IInv, TokenInv(n), PeerInv,
           WriteIsPerformed, [Next]_vars
    PROVE  WriteIsPerformed'
<1>. SUFFICES ASSUME NEW a \in App, Succeeded(a, {"order"})'
              PROVE  performed'[call'[a]] # <<>>
  BY DEF WriteIsPerformed
<1>0. pc'[a] = "return" /\ ret'[a] = 0 /\ req'[a].service.way = "order"
  BY DEF Succeeded
<1>1. ASSUME pc[a] = "return" \/ pc[a] = "recv"
      PROVE  /\ call[a] \in 1..MaxCalls
             /\ req[a].service.way = "order" => req[a].service \in Orders
  <2>1. req[a] \in Requests[a]
    BY <1>1 DEF IInv, CallInv
  <2>2. req[a].service \in API /\ req[a].service # PropertyValue_Write2
    BY <2>1, RequestAssumption DEF NoneIgnored
  <2>. QED BY <1>1, <2>2, Constants, ServiceFacts DEF IInv, CallInv, TypeOK
<1>2. CASE /\ pc[a] = "return" /\ req'[a] = req[a] /\ got'[a] = got[a] /\ ret'[a] = ret[a]
           /\ call'[a] = call[a]
  <2>1. performed[call[a]] # <<>>
    BY <1>0, <1>2 DEF WriteIsPerformed, Succeeded
  <2>. QED BY <1>1, <1>2, <2>1, Grown
<1>3. ASSUME pc[a] = "recv", req' = req
      PROVE  /\ Receiving(a) /\ got[a] = <<>> /\ req[a].service.way = "order"
             /\ req[a].service.refused # 0 /\ req[a].service.otherwise # 0
  <2>1. req[a].service \in Orders
    BY <1>0, <1>1, <1>3
  <2>2. /\ DirectService(req[a].service) /\ req[a].service.way = "order"
        /\ req[a].service.refused # 0 /\ req[a].service.otherwise # 0
    BY <2>1, OrderIsDirect
  <2>3. req[a].service.asks \in DirectTypes /\ ~KeepsWaiting(req[a].service)
    BY <2>2 DEF DirectService, KeepsWaiting
  <2>. QED BY <1>3, <2>2, <2>3 DEF Receiving, PeerInv, NoneYet
<1>4. CASE Take(a)
  <2>1. pc[a] = "recv" /\ UNCHANGED <<req, call, performed>>
    BY <1>4 DEF Take
  <2>2. PICK f : /\ Says(a, f)
                 /\ \E types : /\ types # <<>> /\ types[1] = f.type
                               /\ ret'[a] = Result(req[a].service, types)
    BY <1>3, <1>4, <2>1, Handed
  <2>3. f.type = "ACK"
    BY <1>0, <1>3, <2>1, <2>2 DEF Result
  <2>. QED BY <2>1, <2>2, <2>3 DEF Says
<1>5. CASE Timeout(a)
  <2>1. pc[a] = "recv" /\ req' = req /\ ret'[a] = Result(req[a].service, Types(got[a]))
    BY <1>5 DEF Timeout, IInv, TypeOK
  <2>2. Types(got[a]) = <<>>
    BY <1>3, <2>1 DEF Types
  <2>3. Result(req[a].service, Types(got[a])) = req[a].service.otherwise
    BY <1>3, <2>1, <2>2 DEF Result
  <2>. QED BY <1>0, <1>3, <2>1, <2>3
<1>. QED BY <1>0, <1>2, <1>4, <1>5, Endings

-----------------------------------------------------------------------------
(* The calls implement RemoteCall.                                         *)

\* The frames that ask for something ask one device, and who is idle has no number.
RemoteInv ==
    /\ \A f \in Frames : f.type \in RequestTypes => Direct(f)
    /\ \A a \in App : pc[a] = "idle" => call[a] = 0

\* What is seen of a thread that neither begins, ends nor is served.
LEMMA PhaseKept ==
    ASSUME NEW b \in App, req'[b] = req[b], got'[b] = got[b], ret'[b] = ret[b], call'[b] = call[b],
           call[b] = 0 \/ performed'[call[b]] = performed[call[b]],
           pc'[b] = pc[b] \/ {pc[b], pc'[b]} \cap {"idle", "return"} = {}
    PROVE  Phase(b)' = Phase(b) /\ ValueRead(b)' = ValueRead(b)
BY DEF Phase, ValueRead, Performed

LEMMA Unseen ==
    ASSUME \A b \in App : Phase(b)' = Phase(b) /\ ValueRead(b)' = ValueRead(b), UNCHANGED <<req, mem>>
    PROVE  UNCHANGED Remote!vars
BY DEF Remote!vars

LEMMA OneSeen ==
    ASSUME NEW a \in App,
           \A b \in App : b # a => Phase(b)' = Phase(b) /\ ValueRead(b)' = ValueRead(b)
    PROVE  /\ [b \in App |-> Phase(b)]' = [[b \in App |-> Phase(b)] EXCEPT ![a] = Phase(a)']
           /\ [b \in App |-> ValueRead(b)]' = [[b \in App |-> ValueRead(b)] EXCEPT ![a] = ValueRead(a)']
           /\ ValueRead(a)' = ValueRead(a) =>
                [b \in App |-> ValueRead(b)]' = [b \in App |-> ValueRead(b)]
OBVIOUS

\* The call of another thread is left alone.
LEMMA OthersUnseen ==
    ASSUME IInv, NEW a \in App, Thread(a), UNCHANGED performed
    PROVE  \A b \in App : b # a => Phase(b)' = Phase(b) /\ ValueRead(b)' = ValueRead(b)
<1>1. /\ DOMAIN pc = App /\ DOMAIN req = App /\ DOMAIN got = App /\ DOMAIN ret = App
      /\ DOMAIN call = App
  BY DEF IInv, TypeOK
<1>2. \A b \in App : b # a => UNCHANGED <<pc[b], req[b], got[b], ret[b], call[b]>>
  BY <1>1 DEF Thread, Ask, Lock, Send, Take, Timeout, Return, ListenSyncTake, ListenSyncTimeout,
     ListenSyncRespond
<1>. QED BY <1>2, PhaseKept

\* A call begins.
LEMMA AskSeen ==
    ASSUME IInv, RemoteInv, OneDeviceEach, NEW a \in App, Ask(a)
    PROVE  \E r \in UNION {Requests[b] : b \in App} : Remote!Ask(a, r)
<1>1. PICK r \in Requests[a] :
        /\ req' = [req EXCEPT ![a] = r]
        /\ pc' = [pc EXCEPT ![a] = IF r.service.way = "listen" THEN "listen" ELSE "lock"]
  BY DEF Ask
<1>2. /\ pc[a] = "idle" /\ call[a] = 0 /\ calls < MaxCalls /\ DOMAIN pc = App /\ DOMAIN call = App
      /\ call' = [call EXCEPT ![a] = calls + 1] /\ UNCHANGED <<got, ret, performed, mem>>
      /\ MaxCalls \in Nat /\ calls \in Nat
  BY Constants DEF Ask, RemoteInv, IInv, TypeOK
<1>3. call'[a] = calls + 1 /\ pc'[a] \in {"listen", "lock"}
  BY <1>1, <1>2
<1>4. performed'[call'[a]] = <<>>
  <2>1. calls + 1 \in 1..MaxCalls /\ ~(calls + 1 <= calls)
    BY <1>2
  <2>. QED BY <1>2, <1>3, <2>1 DEF IInv, CallInv
<1>5. Phase(a) = "idle" /\ ValueRead(a) = NoValue
  BY <1>2 DEF Phase, ValueRead, Performed
<1>6. Phase(a)' = "asked" /\ ValueRead(a)' = NoValue
  BY <1>3, <1>4 DEF Phase, ValueRead, Performed
<1>7. \A b \in App : b # a => Phase(b)' = Phase(b) /\ ValueRead(b)' = ValueRead(b)
  BY <1>2, OthersUnseen DEF Thread
<1>8. /\ [b \in App |-> Phase(b)]' = [[b \in App |-> Phase(b)] EXCEPT ![a] = "asked"]
      /\ [b \in App |-> ValueRead(b)]' = [b \in App |-> ValueRead(b)]
  BY <1>5, <1>6, <1>7, OneSeen
<1>9. r \in UNION {Requests[b] : b \in App}
  OBVIOUS
<1>10. Remote!Ask(a, r)
  BY <1>1, <1>2, <1>5, <1>8 DEF Remote!Ask
<1>. QED BY <1>9, <1>10

\* A call ends.
LEMMA EndSeen ==
    ASSUME IInv, NEW a \in App, Thread(a), pc[a] = "recv", pc'[a] = "return",
           UNCHANGED <<req, call, performed, mem>>,
           ret'[a] = 0 => performed[call[a]] # <<>>,
           ret'[a] # 0 /\ got'[a] # <<>> => performed[call[a]] = <<>>
    PROVE  Remote!Answer(a)
<1>1. Phase(a) = IF Performed(a) THEN "served" ELSE "asked"
  BY DEF Phase
<1>2. Performed(a)' <=> Performed(a)
  BY DEF Performed
<1>3. Phase(a)' = IF ret'[a] = 0 THEN "done" ELSE IF got'[a] # <<>> THEN "refused" ELSE "unknown"
  BY DEF Phase
<1>4. ValueRead(a)' = ValueRead(a)
  BY <1>2 DEF ValueRead
<1>5. call[a] # 0
  BY Constants DEF IInv, CallInv, TypeOK
<1>6. \/ Phase(a) = "served" /\ Phase(a)' = "done"
      \/ Phase(a) = "asked" /\ Phase(a)' = "refused"
      \/ Phase(a) \in {"asked", "served"} /\ Phase(a)' = "unknown"
  BY <1>1, <1>3, <1>5 DEF Performed
<1>7. \A b \in App : b # a => Phase(b)' = Phase(b) /\ ValueRead(b)' = ValueRead(b)
  BY OthersUnseen
<1>8. /\ [b \in App |-> Phase(b)]' = [[b \in App |-> Phase(b)] EXCEPT ![a] = Phase(a)']
      /\ [b \in App |-> ValueRead(b)]' = [b \in App |-> ValueRead(b)]
  BY <1>4, <1>7, OneSeen
<1>. QED BY <1>6, <1>8 DEF Remote!Answer

LEMMA TakeSeen ==
    ASSUME IInv, NEW n \in Node, OneCaller(n), OneDeviceEach, TokenInv(n), PeerInv, NEW a \in App,
           Take(a)
    PROVE  Remote!Answer(a)
<1>1. /\ pc[a] = "recv" /\ UNCHANGED <<req, call, performed, mem>> /\ DOMAIN pc = App
      /\ req[a].service \in Queries \cup Orders
  BY DEF Take, IInv, TypeOK, CallInv, OneDeviceEach
<1>2. DirectService(req[a].service)
  BY <1>1, QueryIsDirect, OrderIsDirect
<1>3. Receiving(a) /\ ~KeepsWaiting(req[a].service)
  BY <1>1, <1>2, CallFacts DEF Receiving, DirectService
<1>4. got[a] = <<>> /\ pc'[a] = "return"
  BY <1>1, <1>3 DEF Take, PeerInv, NoneYet
<1>5. PICK f : /\ Says(a, f)
               /\ \E types : /\ types # <<>> /\ types[1] = f.type
                             /\ ret'[a] = Result(req[a].service, types)
  BY <1>3, <1>4, Handed
<1>6. PICK types : /\ types # <<>> /\ types[1] = f.type
                   /\ ret'[a] = Result(req[a].service, types)
  BY <1>5
<1>7. /\ f.type \in {AnswerOf(req[a].service.asks)} \cup Refusals
      /\ f.type = "ACK" => performed[call[a]] # <<>>
      /\ f.type \in Refusals => performed[call[a]] = <<>>
      /\ ~IsShort(f) => performed[call[a]] # <<>>
  <2>1. ~IsShort(f) => Range(performed[call[a]]) # {}
    BY <1>5 DEF Says
  <2>. QED BY <1>2, <1>5, <2>1 DEF Says, DirectService, Range
<1>8. CASE req[a].service \in Queries
  <2>1. /\ req[a].service.way = "query" /\ req[a].service.refused # 0
        /\ req[a].service.otherwise # 0
    BY <1>8, QueryFacts
  <2>2. ret'[a] = 0 <=> f.type \notin {"ACK"} \cup Refusals
    BY <1>6, <2>1 DEF Result, Refusals
  <2>3. AnswerOf(req[a].service.asks) # "ACK"
    BY <1>8 DEF AnswerOf, Queries, PropertyValue_Read, Property_Read, Authorize_Query, Link_Read,
       UserMemory_Read, Query, Service
  <2>. QED BY <1>1, <1>4, <1>7, <2>2, <2>3, EndSeen DEF Thread, IsShort, Refusals
<1>9. CASE req[a].service \in Orders
  <2>1. /\ req[a].service.way = "order" /\ req[a].service.refused # 0
        /\ req[a].service.otherwise # 0
    BY <1>9, OrderIsDirect
  <2>2. ret'[a] = 0 <=> f.type = "ACK"
    BY <1>6, <2>1 DEF Result, Refusals
  <2>3. AnswerOf(req[a].service.asks) = "ACK"
    BY <1>9 DEF AnswerOf, Orders, PropertyValue_Write, Property_Write, Link_Write,
       UserMemory_Write, Order, Service
  <2>. QED BY <1>1, <1>4, <1>7, <2>2, <2>3, EndSeen DEF Thread
<1>. QED BY <1>1, <1>8, <1>9

LEMMA TimeoutSeen ==
    ASSUME IInv, OneDeviceEach, PeerInv, NEW a \in App, Timeout(a)
    PROVE  Remote!Answer(a)
<1>1. /\ pc[a] = "recv" /\ UNCHANGED <<req, got, call, performed, mem>> /\ pc'[a] = "return"
      /\ req[a].service \in Queries \cup Orders
      /\ ret'[a] = Result(req[a].service, Types(got[a]))
  BY DEF Timeout, IInv, TypeOK, CallInv, OneDeviceEach
<1>2. /\ req[a].service.way \in {"query", "order"} /\ req[a].service.otherwise # 0
  BY <1>1, QueryFacts, OrderIsDirect
<1>3. got[a] = <<>>
  BY <1>1, <1>2 DEF PeerInv, NoneYet, KeepsWaiting
<1>4. Types(got[a]) = <<>>
  BY <1>3 DEF Types
<1>5. ret'[a] # 0
  BY <1>1, <1>2, <1>4 DEF Result
<1>. QED BY <1>1, <1>3, <1>5, EndSeen DEF Thread

LEMMA ReturnSeen ==
    ASSUME IInv, NEW a \in App, Return(a)
    PROVE  Remote!Return(a)
<1>1. /\ pc[a] = "return" /\ pc'[a] = "idle" /\ req' = [req EXCEPT ![a] = NoRequest] /\ call'[a] = 0
      /\ UNCHANGED <<performed, mem>>
  BY DEF Return, IInv, TypeOK
<1>2. Phase(a) \in {"done", "refused", "unknown"}
  BY <1>1 DEF Phase
<1>3. Phase(a)' = "idle" /\ ValueRead(a)' = NoValue
  BY <1>1 DEF Phase, ValueRead, Performed
<1>4. \A b \in App : b # a => Phase(b)' = Phase(b) /\ ValueRead(b)' = ValueRead(b)
  BY <1>1, OthersUnseen DEF Thread
<1>5. /\ [b \in App |-> Phase(b)]' = [[b \in App |-> Phase(b)] EXCEPT ![a] = "idle"]
      /\ [b \in App |-> ValueRead(b)]' = [[b \in App |-> ValueRead(b)] EXCEPT ![a] = NoValue]
  BY <1>3, <1>4, OneSeen
<1>. QED BY <1>1, <1>2, <1>5 DEF Remote!Return

\* The device does what it is asked for, or nothing.
LEMMA ServeSeen ==
    ASSUME IInv, NEW n \in Node, OneCaller(n), OneDeviceEach, TokenInv(n), RemoteInv,
           NEW m \in Node, ListenServe(m)
    PROVE  UNCHANGED Remote!vars \/ \E a \in App : Remote!Serve(a)
<1>. DEFINE k == FirstRequest(m)
            f == rx[m][k].frame
<1>1. /\ k # 0 /\ Respond(m, f) /\ UNCHANGED <<pc, req, got, ret, call>>
      /\ mem \in [Device -> [Item -> Value]]
  BY DEF ListenServe, app_vars, IInv, TypeOK
<1>2. k \in DOMAIN rx[m] /\ f.type \in RequestTypes /\ f \in Frames /\ ~ActedAt(m, f.call)
  BY <1>1, FirstRequestFacts, FramesAre DEF IInv, OneCopy
<1>3. Direct(f) /\ Current(m, f)
  BY <1>2 DEF RemoteInv, TokenInv, RequestInv
<1>. HIDE DEF k, f
<1>4. PICK a \in App : Receiving(a) /\ f = Question(a) /\ performed[call[a]] = <<>>
  BY <1>3 DEF Current
<1>. DEFINE r == req[a]
            d == req[a].device
<1>5. /\ f.call = call[a] /\ f.type = r.service.asks /\ f.to = r.peer /\ f.item = r.item /\ f.val = r.val
  BY <1>4 DEF Question, Frame
<1>6. /\ r \in DirectRequests /\ d \in Device /\ call[a] \in 1..MaxCalls /\ PeerOK(r)
      /\ r.service \in Queries \cup Orders /\ r.writes = (r.service \in Orders)
  BY <1>4, CallFacts, Constants
  DEF Receiving, Owns, TokenInv, IInv, CallInv, TypeOK, OneDeviceEach
<1>. HIDE DEF r, d
<1>7. Outcome(m, f, d)
  BY <1>3, <1>5, <1>6, OutcomeOfDirect DEF r, d
<1>8. \A b \in App : b # a => Phase(b)' = Phase(b) /\ ValueRead(b)' = ValueRead(b)
  <2>1. \A c \in 1..MaxCalls : c # call[a] => performed'[c] = performed[c]
    BY <1>1, <1>2, <1>5, <1>6, Recorded DEF IInv
  <2>2. \A b \in App : b # a => call[b] = 0 \/ (call[b] \in 1..MaxCalls /\ call[b] # call[a])
    BY <1>4, Constants DEF Receiving, RemoteInv, IInv, CallInv, TypeOK
  <2>. QED BY <1>1, <2>1, <2>2, PhaseKept
<1>9. /\ Marks(m, f) = {} => performed'[call[a]] = <<>>
      /\ \A mark : Marks(m, f) = {mark} => performed'[call[a]] = <<mark>>
  BY <1>1, <1>4, <1>5, <1>6, FirstMark, ZenonT(60) DEF IInv
<1>10. mem' = [e \in Device |-> IF e \in Written(m, f) THEN [mem[e] EXCEPT ![f.item] = f.val] ELSE mem[e]]
  BY <1>1 DEF Respond
<1>11. CASE Marks(m, f) = {} /\ Written(m, f) = {}
  <2>1. mem' = mem
    BY <1>1, <1>10, <1>11
  <2>2. Phase(a)' = Phase(a) /\ ValueRead(a)' = ValueRead(a)
    BY <1>1, <1>4, <1>9, <1>11, PhaseKept
  <2>. QED BY <1>1, <1>8, <2>1, <2>2, Unseen
<1>12. Phase(a) = "asked" /\ ValueRead(a) = NoValue
  BY <1>4 DEF Phase, ValueRead, Performed, Receiving
<1>13. ASSUME NEW mark, Marks(m, f) = {mark}
       PROVE  Phase(a)' = "served" /\ ValueRead(a)' = IF r.writes THEN NoValue ELSE mark.val
  <2>1. performed'[call[a]] = <<mark>>
    BY <1>9, <1>13
  <2>2. <<mark>> # <<>> /\ <<mark>>[1] = mark
    OBVIOUS
  <2>3. performed'[call'[a]] # <<>> /\ performed'[call'[a]][1] = mark /\ call'[a] # 0
    BY <1>1, <1>6, <2>1, <2>2
  <2>4. Performed(a)'
    BY <2>3 DEF Performed
  <2>5. pc'[a] = "recv" /\ req'[a] = r
    BY <1>1, <1>4 DEF Receiving, r
  <2>6. r.writes \in BOOLEAN
    BY <1>6
  <2>7. Phase(a)' = "served"
    BY <2>4, <2>5 DEF Phase
  <2>8. ValueRead(a)' = IF ~r.writes THEN mark.val ELSE NoValue
    BY <2>3, <2>4, <2>5 DEF ValueRead
  <2>. QED BY <2>6, <2>7, <2>8
<1>14. CASE /\ Marks(m, f) = {[by |-> d, val |-> f.val]} /\ Written(m, f) = {d}
            /\ AnswerOf(f.type) = "ACK"
  <2>1. r.writes
    <3>1. r.service \notin Queries
      BY <1>5, <1>14 DEF AnswerOf, Queries, PropertyValue_Read, Property_Read, Authorize_Query,
         Link_Read, UserMemory_Read, Query, Service
    <3>. QED BY <1>6, <3>1
  <2>2. mem' = [mem EXCEPT ![d][r.item] = r.val]
    <3>1. \A e \in Device : mem'[e] = IF e = d THEN [mem[e] EXCEPT ![r.item] = r.val] ELSE mem[e]
      BY <1>5, <1>10, <1>14
    <3>2. DOMAIN mem' = Device
      BY <1>10
    <3>. QED BY <1>1, <1>10, <1>5, <1>6, <1>14, <3>1, <3>2
  <2>3. Phase(a)' = "served" /\ ValueRead(a)' = ValueRead(a)
    BY <1>12, <1>13, <1>14, <2>1
  <2>4. /\ [b \in App |-> Phase(b)]' = [[b \in App |-> Phase(b)] EXCEPT ![a] = "served"]
        /\ [b \in App |-> ValueRead(b)]' = [b \in App |-> ValueRead(b)]
    BY <1>8, <2>3, OneSeen
  <2>5. Remote!Serve(a)
    BY <1>1, <1>12, <2>1, <2>2, <2>4 DEF Remote!Serve, r, d
  <2>. QED BY <2>5
<1>15. CASE /\ Marks(m, f) = {[by |-> d, val |-> mem[d][f.item]]} /\ Written(m, f) = {}
            /\ AnswerOf(f.type) \notin {"ACK"} \cup Refusals
  <2>1. ~r.writes
    <3>1. r.service \notin Orders
      BY <1>5, <1>15 DEF AnswerOf, Orders, PropertyValue_Write, Property_Write, Link_Write,
         UserMemory_Write, Order, Service
    <3>. QED BY <1>6, <3>1
  <2>2. mem' = mem
    BY <1>1, <1>10, <1>15
  <2>3. Phase(a)' = "served" /\ ValueRead(a)' = mem[d][r.item]
    <3>. DEFINE mark == [by |-> d, val |-> mem[d][f.item]]
    <3>1. mark.val = mem[d][r.item]
      BY <1>5
    <3>. HIDE DEF mark
    <3>2. Phase(a)' = "served" /\ ValueRead(a)' = IF r.writes THEN NoValue ELSE mark.val
      BY <1>13, <1>15 DEF mark
    <3>. QED BY <2>1, <3>1, <3>2
  <2>4. /\ [b \in App |-> Phase(b)]' = [[b \in App |-> Phase(b)] EXCEPT ![a] = "served"]
        /\ [b \in App |-> ValueRead(b)]' = [[b \in App |-> ValueRead(b)] EXCEPT ![a] = mem[d][r.item]]
    BY <1>8, <2>3, OneSeen
  <2>5. Remote!Serve(a)
    BY <1>1, <1>12, <2>1, <2>2, <2>4 DEF Remote!Serve, r, d
  <2>. QED BY <2>5
<1>. QED BY <1>7, <1>11, <1>14, <1>15 DEF Outcome

LEMMA RemoteInvStep ==
    ASSUME IInv, OneDeviceEach, RemoteInv, [Next]_vars
    PROVE  RemoteInv'
<1>1. \A f \in Frames' : f.type \in RequestTypes => Direct(f)
  <2>1. \A m \in Node : \A h : \A f \in Replies(m, h) : f.type \notin RequestTypes
    BY ReplyFacts DEF ReplyOK
  <2>2. ASSUME NEW a \in App, pc[a] = "send" PROVE Direct(Question(a))
    <3>1. req[a].service \in Queries \cup Orders
      BY <2>2 DEF IInv, CallInv, OneDeviceEach
    <3>. QED BY <3>1, QueryIsDirect, OrderIsDirect DEF DirectService, Direct, Question, Frame
  <2>. QED BY <2>1, <2>2, FrameSources DEF Source, RemoteInv
<1>2. \A a \in App : pc'[a] = "idle" => call'[a] = 0
  <2>0. DOMAIN pc = App /\ DOMAIN call = App
    BY DEF IInv, TypeOK
  <2>1. CASE UNCHANGED <<pc, call>>
    BY <2>1 DEF RemoteInv
  <2>2. ASSUME NEW a \in App, Thread(a)
        PROVE  /\ pc'[a] = "idle" => call'[a] = 0
               /\ \A b \in App : b # a => pc'[b] = pc[b] /\ call'[b] = call[b]
    BY <2>0, <2>2 DEF Thread, Ask, Lock, Send, Take, Timeout, Return, ListenSyncTake,
       ListenSyncTimeout, ListenSyncRespond
  <2>3. UNCHANGED <<pc, call>> \/ \E a \in App : Thread(a)
    BY DEF Next, Channel, Listener, vars, app_vars, Lose, Deliver, ClearOldFrames, Listen_Async,
       ListenLock, ListenServe, ListenIdle
  <2>. QED BY <2>1, <2>2, <2>3 DEF RemoteInv
<1>3. \A f : Direct(f)' <=> Direct(f)
  BY DEF Direct
<1>. QED BY <1>1, <1>2, <1>3 DEF RemoteInv

LEMMA RemoteStep ==
    ASSUME NEW n \in Node, OneCaller(n), OneDeviceEach, IInv, TokenInv(n), PeerInv, RemoteInv,
           [Next]_vars
    PROVE  [Remote!Next]_(Remote!vars)
<1>0. DOMAIN pc = App
  BY DEF IInv, TypeOK
<1>1. CASE UNCHANGED <<pc, req, got, ret, call, performed, mem>>
  <2>1. \A b \in App : Phase(b)' = Phase(b) /\ ValueRead(b)' = ValueRead(b)
    BY <1>1, PhaseKept
  <2>. QED BY <1>1, <2>1, Unseen
<1>2. ASSUME NEW a \in App, Lock(a) \/ Send(a) PROVE UNCHANGED Remote!vars
  <2>1. /\ pc[a] \in {"lock", "send"} /\ pc'[a] \in {"send", "recv", "return"}
        /\ UNCHANGED <<req, got, ret, call, performed, mem>>
        /\ \A b \in App : b # a => pc'[b] = pc[b]
        /\ pc'[a] = "return" => ~Waits(req[a].service)
    BY <1>0, <1>2 DEF Lock, Send
  <2>2. req[a].service \in Queries \cup Orders
    BY <2>1 DEF IInv, CallInv, OneDeviceEach
  <2>3. Waits(req[a].service)
    BY <2>2, QueryFacts, OrderIsDirect DEF Waits
  <2>4. \A b \in App : pc'[b] = pc[b] \/ {pc[b], pc'[b]} \cap {"idle", "return"} = {}
    BY <2>1, <2>3
  <2>5. \A b \in App : Phase(b)' = Phase(b) /\ ValueRead(b)' = ValueRead(b)
    BY <2>1, <2>4, PhaseKept
  <2>. QED BY <2>1, <2>5, Unseen
<1>3. ASSUME NEW a \in App, ListenSyncTake(a) \/ ListenSyncTimeout(a) \/ ListenSyncRespond(a)
      PROVE  FALSE
  <2>1. pc[a] \in {"listen", "respond"}
    BY <1>3 DEF ListenSyncTake, ListenSyncTimeout, ListenSyncRespond
  <2>2. req[a].service.way = "listen" /\ req[a].service \in Queries \cup Orders
    BY <2>1 DEF IInv, MutexInv, CallInv, OneDeviceEach
  <2>. QED BY <2>2, QueryFacts, OrderIsDirect
<1>4. \/ UNCHANGED <<pc, req, got, ret, call, performed, mem>>
      \/ \E m \in Node : ListenServe(m)
      \/ \E a \in App : Thread(a)
  BY DEF Next, Channel, Listener, vars, app_vars, Lose, Deliver, ClearOldFrames, Listen_Async,
     ListenLock, ListenIdle
<1>5. ASSUME NEW a \in App, Thread(a) PROVE [Remote!Next]_(Remote!vars)
  BY <1>2, <1>3, <1>5, AskSeen, TakeSeen, TimeoutSeen, ReturnSeen DEF Thread, Remote!Next
<1>. QED BY <1>1, <1>4, <1>5, ServeSeen DEF Remote!Next

LEMMA RemoteInit ==
    ASSUME Init
    PROVE  RemoteInv /\ Remote!Init
<1>1. Frames = {}
  <2>1. \A m \in Node : Range(rx[m]) = {}
    BY DEF Init, Range
  <2>. QED BY <2>1 DEF Frames, Init
<1>2. RemoteInv
  BY <1>1 DEF Init, RemoteInv
<1>3. \A a \in App : Phase(a) = "idle" /\ ValueRead(a) = NoValue
  BY DEF Init, Phase, ValueRead, Performed
<1>. QED BY <1>2, <1>3, ExchangeAssumption DEF Remote!Init, Init

-----------------------------------------------------------------------------
(* Every call is answered.                                                 *)

\* Of the call of a there is a token, when none is lost: its request where its device is, or
\* an answer.
OnItsWay(n, a) ==
    LET m == Home[req[a].device] IN
    \/ \E x \in net : x.at = m /\ x.frame = Question(a)
    \/ \E i \in DOMAIN rx[m] : rx[m][i].frame = Question(a)
    \/ NetAnswers(n) # {} \/ FreshAnswers(n) # {}

ArrivalInv(n) ==
    /\ \A r \in DirectRequests : addr[r.device] = r.peer
    /\ \A a \in App : Receiving(a) /\ call[a] \notin lost => OnItsWay(n, a)
    /\ \A a \in App : pc[a] = "return" /\ call[a] \notin lost => got[a] # <<>>

\* What goes on: OnItsWay, after a step.
OnItsWayAfter(n, a) ==
    LET m == Home[req'[a].device] IN
    \/ \E x \in net' : x.at = m /\ x.frame = Question(a)'
    \/ \E i \in DOMAIN rx'[m] : rx'[m][i].frame = Question(a)'
    \/ \E x \in net' : x.at = n /\ IsAnswer(x.frame)
    \/ \E i \in DOMAIN rx'[n] : rx'[n][i].fresh /\ IsAnswer(rx'[n][i].frame)

LEMMA OnItsWayIs ==
    ASSUME NEW n, NEW a, OnItsWayAfter(n, a) PROVE OnItsWay(n, a)'
BY DEF OnItsWayAfter, OnItsWay, NetAnswers, FreshAnswers, IsAnswer

\* The frames of a queue that another frame joins or leaves stay in it.
LEMMA OthersStay ==
    ASSUME IInv, NEW m \in Node, NEW i \in DOMAIN rx[m]
    PROVE  /\ \A k \in DOMAIN rx[m] : rx' = [rx EXCEPT ![m] = RemoveAt(@, k)] /\ i # k =>
                \E j \in DOMAIN rx'[m] : rx'[m][j] = rx[m][i]
           /\ \A e : rx' = [rx EXCEPT ![m] = Append(@, e)] =>
                \E j \in DOMAIN rx'[m] : rx'[m][j] = rx[m][i]
<1>. DEFINE q == rx[m]
<1>1. /\ DOMAIN rx = Node /\ q \in Seq(Range(q)) /\ DOMAIN q = 1..Len(q) /\ Len(q) \in Nat
  BY QueueFacts DEF IInv, TypeOK
<1>2. ASSUME NEW k \in DOMAIN q, rx' = [rx EXCEPT ![m] = RemoveAt(@, k)], i # k
      PROVE  \E j \in DOMAIN rx'[m] : rx'[m][j] = q[i]
  <2>. DEFINE s == RemoveAt(q, k)
              j == IF i < k THEN i ELSE i - 1
  <2>1. /\ s \in Seq(Range(q)) /\ Len(s) = Len(q) - 1
        /\ \A h \in 1..Len(q) - 1 : s[h] = IF h < k THEN q[h] ELSE q[h + 1]
    BY <1>1, Removed
  <2>2. DOMAIN s = 1..Len(q) - 1
    BY <2>1, OwnElements
  <2>. HIDE DEF s
  <2>3. j \in 1..Len(q) - 1 /\ (i < k => j < k /\ j = i) /\ (~(i < k) => ~(j < k) /\ j + 1 = i)
    BY <1>1, <1>2
  <2>. HIDE DEF j
  <2>4. s[j] = q[i]
    BY <2>1, <2>3
  <2>5. rx'[m] = s
    BY <1>1, <1>2 DEF s
  <2>. QED BY <2>2, <2>3, <2>4, <2>5
<1>3. ASSUME NEW e, rx' = [rx EXCEPT ![m] = Append(@, e)]
      PROVE  \E j \in DOMAIN rx'[m] : rx'[m][j] = q[i]
  <2>1. /\ DOMAIN Append(q, e) = 1..Len(q) + 1 /\ \A h \in 1..Len(q) : Append(q, e)[h] = q[h]
    BY <1>1, Pushed
  <2>2. rx'[m] = Append(q, e)
    BY <1>1, <1>3
  <2>. QED BY <1>1, <2>1, <2>2
<1>. QED BY <1>2, <1>3

\* Where nothing leaves, what is on its way stays so.
LEMMA StaysOnItsWay ==
    ASSUME NEW n, NEW a \in App, req'[a] = req[a], call'[a] = call[a], OnItsWay(n, a),
           net \subseteq net', rx' = rx
    PROVE  OnItsWay(n, a)'
<1>1. Question(a)' = Question(a)
  BY DEF Question
<1>2. OnItsWayAfter(n, a)
  BY <1>1 DEF OnItsWay, OnItsWayAfter, NetAnswers, FreshAnswers
<1>. QED BY <1>2, OnItsWayIs

\* The device addressed answers, if its process has the request.
LEMMA DeviceAnswers ==
    ASSUME NEW m \in Node, NEW f, Direct(f), NEW d \in Device, Home[d] = m, addr[d] = f.to,
           f.to # NoAddress, \A e \in Device : addr[e] = f.to => e = d
    PROVE  Replies(m, f) # {} /\ WithAddress(m, f.to) # {}
<1>1. WithAddress(m, f.to) = {d}
  BY DEF WithAddress, At
<1>2. d <= d
  BY ExchangeAssumption
<1>3. Addressed(m, f.to) = {d}
  BY <1>1, <1>2 DEF Addressed
<1>4. \A answer : ReadReplies(m, f, answer) # {}
  BY DEF ReadReplies
<1>5. MemoryReplies(m, f) # {}
  BY <1>3 DEF MemoryReplies
<1>6. \A targets : Acknowledged(m, f, targets) # {}
  BY DEF Acknowledged
<1>. QED BY <1>1, <1>4, <1>5, <1>6, DirectTypesAre DEF Replies, Direct

\* Nobody takes the address of a device that is asked away from it.
LEMMA PeerStays ==
    ASSUME IInv, NEW n \in Node, OneCaller(n), RemoteInv, NEW r \in DirectRequests,
           addr[r.device] = r.peer, [Next]_vars
    PROVE  addr'[r.device] = r.peer
<1>. DEFINE d == r.device
<1>1. d \in Device /\ Home[d] # n /\ DOMAIN addr = Device
  BY DEF OneCaller, Owns, IInv, TypeOK
<1>2. ASSUME NEW b \in App, Lock(b) PROVE addr'[d] = addr[d]
  <2>1. addr' = [addr EXCEPT ![Special(n)] = Host[b]]
    BY <1>2 DEF Lock, OneCaller
  <2>2. Home[Special(n)] = n
    BY SpecialHome DEF At
  <2>. QED BY <1>1, <2>1, <2>2
<1>3. ASSUME NEW m \in Node, NEW f \in Frames, f.type \in RequestTypes, Respond(m, f)
      PROVE  addr'[d] = addr[d]
  <2>1. f.type \in DirectTypes
    BY <1>3 DEF RemoteInv, Direct
  <2>2. Renamed(m, f) = {}
    BY <2>1, DirectTypesAre DEF Renamed
  <2>. QED BY <1>1, <1>3, <2>2 DEF Respond
<1>4. ASSUME NEW m \in Node, ListenServe(m) PROVE addr'[d] = addr[d]
  <2>1. /\ FirstRequest(m) \in DOMAIN rx[m] /\ Respond(m, rx[m][FirstRequest(m)].frame)
        /\ rx[m][FirstRequest(m)].frame.type \in RequestTypes
    BY <1>4, FirstRequestFacts DEF ListenServe, IInv
  <2>. QED BY <1>3, <2>1, FramesAre
<1>5. ASSUME NEW b \in App, ListenSyncRespond(b) PROVE addr'[d] = addr[d]
  <2>1. pc[b] = "respond" /\ Respond(n, got[b][1])
    BY <1>5 DEF ListenSyncRespond, OneCaller
  <2>. QED BY <1>3, <2>1, FramesAre DEF IInv, FrameInv
<1>6. \/ UNCHANGED addr
      \/ \E m \in Node : ListenServe(m)
      \/ \E b \in App : Lock(b) \/ ListenSyncRespond(b)
  BY DEF Next, Channel, Listener, Thread, vars, app_vars, Lose, Deliver, ClearOldFrames,
     Listen_Async, ListenLock, ListenIdle, Ask, Send, Take, Timeout, Return, ListenSyncTake,
     ListenSyncTimeout
<1>. QED BY <1>2, <1>4, <1>5, <1>6

\* What is known of a call that waits.
LEMMA WaitingFacts ==
    ASSUME IInv, NEW n \in Node, OneCaller(n), InReach(n), TokenInv(n), ArrivalInv(n), NEW a \in App,
           Receiving(a)
    PROVE  LET d == req[a].device
               m == Home[d]
               f == Question(a) IN
           /\ d \in Device /\ m \in Node /\ m \in Hears[n] /\ n \in Hears[m] /\ AppNode[a] = n
           /\ Direct(f) /\ f.call = call[a] /\ f.to = req[a].peer /\ f.to \notin {Group, NoAddress}
           /\ addr[d] = f.to /\ \A e \in Device : addr[e] = f.to => e = d
           /\ ~Stray(m, f) /\ ~IsAnswer(f)
           /\ addr[Special(n)] = Host[a]
           /\ \A b \in App : Receiving(b) => b = a
<1>1. /\ req[a] \in DirectRequests /\ Owns(req[a].device, req[a].peer) /\ AppNode[a] = n
      /\ Home[req[a].device] \in Node /\ DirectService(req[a].service)
  BY CallFacts DEF Receiving
<1>2. /\ Question(a).type = req[a].service.asks /\ Question(a).call = call[a]
      /\ Question(a).to = req[a].peer
  BY DEF Question, Frame
<1>3. req[a].peer \notin {Group, NoAddress} /\ req[a].device \in Device
  BY <1>1 DEF Owns
<1>4. \A e \in Device : addr[e] = req[a].peer => e = req[a].device
  BY <1>1 DEF TokenInv, PeerOK
<1>5. ~Stray(Home[req[a].device], Question(a))
  <2>. SUFFICES ASSUME NEW r \in DirectRequests, r.peer = req[a].peer PROVE r.device = req[a].device
    BY <1>2 DEF Stray
  <2>1. Owns(r.device, r.peer) /\ FirstAddress[req[a].device] = req[a].peer
    BY <1>1 DEF OneCaller, InReach
  <2>. QED BY <1>3, <2>1 DEF Owns
<1>6. Direct(Question(a)) /\ ~IsAnswer(Question(a))
  BY <1>2, DirectTypesAre DEF Receiving, Direct, IsAnswer, AnswerTypes, Refusals
<1>7. Calling(a)
  BY <1>1 DEF Calling, Receiving, DirectService
<1>8. addr[Special(n)] = Host[a]
  BY <1>1, <1>7 DEF IInv, HostHeld
<1>9. \A b \in App : Receiving(b) => b = a
  BY Alone DEF Receiving
<1>10. addr[req[a].device] = req[a].peer
  BY <1>1 DEF ArrivalInv
<1>. QED BY <1>1, <1>2, <1>3, <1>4, <1>5, <1>6, <1>8, <1>9, <1>10 DEF InReach

LEMMA DeliverArrives ==
    ASSUME IInv, NEW n \in Node, OneCaller(n), InReach(n), TokenInv(n), ArrivalInv(n),
           NEW k \in Node, Deliver(k), NEW a \in App, Receiving(a), call[a] \notin lost
    PROVE  OnItsWay(n, a)'
<1>. DEFINE m == Home[req[a].device]
            f == Question(a)
<1>1. PICK copy \in net :
        /\ copy.at = k /\ net' = net \ {copy}
        /\ rx' = IF Accepts(k, copy.frame)
                 THEN [rx EXCEPT ![k] = Append(@, [frame |-> copy.frame, fresh |-> TRUE])]
                 ELSE rx
  BY DEF Deliver
<1>2. UNCHANGED <<req, call>> /\ Question(a)' = f
  BY DEF Deliver, app_vars, Question
<1>3. /\ m \in Node /\ AppNode[a] = n /\ Direct(f) /\ addr[req[a].device] = f.to
      /\ f.to \notin {Group, NoAddress} /\ req[a].device \in Device
      /\ \A e \in Device : addr[e] = f.to => e = req[a].device
      /\ addr[Special(n)] = Host[a]
      /\ \A b \in App : Receiving(b) => b = a
  BY WaitingFacts
<1>. HIDE DEF m, f
<1>4. \A p \in Node : \A i \in DOMAIN rx[p] : \E j \in DOMAIN rx'[p] : rx'[p][j] = rx[p][i]
  <2>1. ASSUME NEW p \in Node, NEW i \in DOMAIN rx[p] PROVE \E j \in DOMAIN rx'[p] : rx'[p][j] = rx[p][i]
    <3>1. CASE p = k
      BY <1>1, <3>1, OthersStay
    <3>2. CASE p # k
      BY <1>1, <3>2 DEF IInv, TypeOK
    <3>. QED BY <3>1, <3>2
  <2>. QED BY <2>1
<1>5. Accepts(k, copy.frame) =>
        \E j \in DOMAIN rx'[k] : rx'[k][j].frame = copy.frame /\ rx'[k][j].fresh
  <2>. SUFFICES ASSUME Accepts(k, copy.frame)
                PROVE  \E j \in DOMAIN rx'[k] : rx'[k][j].frame = copy.frame /\ rx'[k][j].fresh
    OBVIOUS
  <2>. DEFINE e == [frame |-> copy.frame, fresh |-> TRUE]
              q == Append(rx[k], e)
  <2>1. /\ DOMAIN q = 1..Len(rx[k]) + 1 /\ q[Len(rx[k]) + 1] = e
        /\ Len(rx[k]) \in Nat /\ DOMAIN rx = Node
    BY QueueFacts, Pushed DEF IInv, TypeOK
  <2>2. rx'[k] = q
    BY <1>1, <2>1
  <2>3. e.frame = copy.frame /\ e.fresh
    OBVIOUS
  <2>. HIDE DEF q, e
  <2>. QED BY <2>1, <2>2, <2>3
<1>6. CASE \E x \in net : x.at = m /\ x.frame = f
  <2>1. PICK x \in net : x.at = m /\ x.frame = f
    BY <1>6
  <2>2. CASE x = copy
    <3>1. WithAddress(m, f.to) # {}
      BY <1>3, DeviceAnswers DEF m
    <3>2. Accepts(k, copy.frame)
      BY <1>1, <1>3, <2>1, <2>2, <3>1 DEF Accepts
    <3>. QED BY <1>1, <1>2, <1>5, <2>1, <2>2, <3>2, OnItsWayIs DEF OnItsWayAfter, m
  <2>3. CASE x # copy
    BY <1>1, <1>2, <2>1, <2>3, OnItsWayIs DEF OnItsWayAfter, m
  <2>. QED BY <2>2, <2>3
<1>7. CASE \E i \in DOMAIN rx[m] : rx[m][i].frame = f
  <2>1. \E j \in DOMAIN rx'[m] : rx'[m][j].frame = f
    BY <1>3, <1>4, <1>7
  <2>. QED BY <1>2, <2>1, OnItsWayIs DEF OnItsWayAfter, m
<1>8. CASE NetAnswers(n) # {}
  <2>1. PICK x \in net : x.at = n /\ IsAnswer(x.frame)
    BY <1>8 DEF NetAnswers
  <2>2. CASE x = copy
    <3>1. Says(a, x.frame)
      BY <1>3, <2>1 DEF TokenInv, AnswerInv, NetAnswers, Says
    <3>2. IsShort(x.frame) \/ x.frame.to = Host[a]
      BY <1>3, <3>1 DEF Says, RightAddresses, m, f, Question, Frame
    <3>3. WithAddress(n, Host[a]) # {} /\ Host[a] # Group
      <4>1. Special(n) \in At(n)
        BY SpecialHome DEF At
      <4>2. Host[a] \notin {Group, NoAddress}
        BY DEF InReach
      <4>. QED BY <1>3, <4>1, <4>2 DEF WithAddress
    <3>4. Accepts(k, copy.frame)
      BY <1>1, <2>1, <2>2, <3>2, <3>3 DEF Accepts
    <3>. QED BY <1>1, <1>5, <2>1, <2>2, <3>4, OnItsWayIs DEF OnItsWayAfter
  <2>3. CASE x # copy
    BY <1>1, <2>1, <2>3, OnItsWayIs DEF OnItsWayAfter
  <2>. QED BY <2>2, <2>3
<1>9. CASE FreshAnswers(n) # {}
  <2>1. PICK i \in DOMAIN rx[n] : rx[n][i].fresh /\ IsAnswer(rx[n][i].frame)
    BY <1>9 DEF FreshAnswers
  <2>2. \E j \in DOMAIN rx'[n] : rx'[n][j] = rx[n][i]
    BY <1>4
  <2>. QED BY <2>1, <2>2, OnItsWayIs DEF OnItsWayAfter
<1>10. OnItsWay(n, a)
  BY DEF ArrivalInv
<1>. QED BY <1>6, <1>7, <1>8, <1>9, <1>10 DEF OnItsWay, m, f

LEMMA ServeArrives ==
    ASSUME IInv, NEW n \in Node, OneCaller(n), InReach(n), TokenInv(n), ArrivalInv(n), RemoteInv,
           NEW k \in Node, ListenServe(k), NEW a \in App, Receiving(a)
    PROVE  OnItsWay(n, a)'
<1>. DEFINE m == Home[req[a].device]
            f == Question(a)
            h == rx[k][FirstRequest(k)].frame
<1>1. Respond(k, h) /\ h.type \in RequestTypes /\ FirstRequest(k) \in DOMAIN rx[k]
  BY FirstRequestFacts DEF ListenServe, IInv
<1>2. UNCHANGED <<pc, req, call>>
  BY DEF ListenServe, app_vars
<1>3. Direct(h) /\ Current(k, h)
  BY <1>1, FramesAre DEF RemoteInv, TokenInv, RequestInv
<1>. HIDE DEF h
<1>4. /\ m \in Node /\ Direct(f) /\ addr[req[a].device] = f.to /\ m \in Hears[n]
      /\ f.to \notin {Group, NoAddress} /\ req[a].device \in Device
      /\ \A e \in Device : addr[e] = f.to => e = req[a].device
      /\ \A b \in App : Receiving(b) => b = a
  BY WaitingFacts
<1>5. h = f /\ k = m /\ performed[call[a]] = <<>>
  BY <1>3, <1>4 DEF Current
<1>6. Replies(m, f) # {}
  BY <1>4, DeviceAnswers
<1>7. PICK r : Replies(m, f) \subseteq {r} /\ SaysAfter(a, r)
  BY <1>1, <1>2, <1>4, <1>5, <1>6, Answers
<1>8. IsAnswer(r)
  <2>1. DirectService(req[a].service) /\ AnswerOf(req[a].service.asks) \in AnswerTypes
    BY CallFacts DEF Receiving, AnswerOf, AnswerTypes
  <2>. QED BY <1>2, <1>7, <2>1 DEF SaysAfter, DirectService, IsAnswer, AnswerTypes
<1>9. \E x \in net' : x.at = n /\ IsAnswer(x.frame)
  <2>. DEFINE x == [at |-> n, frame |-> r]
  <2>1. r \in Replies(m, f)
    BY <1>6, <1>7
  <2>2. x \in Sent(m, Replies(m, f))
    BY <1>4, <2>1 DEF Sent
  <2>3. x.at = n /\ x.frame = r
    OBVIOUS
  <2>. QED BY <1>1, <1>5, <1>8, <2>2, <2>3 DEF Respond
<1>. QED BY <1>9, OnItsWayIs DEF OnItsWayAfter

LEMMA SendArrives ==
    ASSUME IInv, NEW n \in Node, OneCaller(n), InReach(n), NEW a \in App, Send(a), Receiving(a)'
    PROVE  OnItsWay(n, a)'
<1>1. /\ pc[a] = "send" /\ net' = net \cup Sent(AppNode[a], {Question(a)})
      /\ UNCHANGED <<req, call>>
  BY DEF Send
<1>2. req[a].service.asks \in DirectTypes /\ Question(a)' = Question(a)
  BY <1>1 DEF Receiving, Question
<1>3. /\ req[a] \in DirectRequests /\ AppNode[a] = n /\ Home[req[a].device] \in Node
  BY <1>1, <1>2, CallFacts
<1>. DEFINE x == [at |-> Home[req[a].device], frame |-> Question(a)]
<1>4. n \in Hears[Home[req[a].device]]
  BY <1>3 DEF InReach
<1>5. x \in Sent(n, {Question(a)})
  BY <1>3, <1>4 DEF Sent
<1>6. x \in net' /\ x.at = Home[req'[a].device] /\ x.frame = Question(a)'
  BY <1>1, <1>2, <1>3, <1>5
<1>. HIDE DEF x
<1>. QED BY <1>6, OnItsWayIs DEF OnItsWayAfter

\* A call that times out has lost a frame.
LEMMA TimeoutArrives ==
    ASSUME IInv, NEW n \in Node, OneCaller(n), InReach(n), OneDeviceEach, ~Late, TokenInv(n),
           ArrivalInv(n), NEW a \in App, Timeout(a)
    PROVE  call[a] \in lost
<1>1. pc[a] = "recv" /\ req[a].service \in Queries \cup Orders
  BY DEF Timeout, IInv, CallInv, OneDeviceEach
<1>2. Receiving(a)
  BY <1>1, QueryIsDirect, OrderIsDirect DEF Receiving, DirectService
<1>3. Quiet /\ NetAnswers(n) = {} /\ FreshAnswers(n) = {}
  BY <1>2, NothingComes
<1>4. /\ Home[req[a].device] \in Node /\ Direct(Question(a))
      /\ ~Stray(Home[req[a].device], Question(a))
  BY <1>2, WaitingFacts
<1>5. ~OnItsWay(n, a)
  BY <1>3, <1>4 DEF OnItsWay, Quiet
<1>. QED BY <1>2, <1>5 DEF ArrivalInv

LEMMA ArrivalStep ==
    ASSUME NEW n \in Node, OneCaller(n), InReach(n), OneDeviceEach, ~Late, IInv, TokenInv(n),
           PeerInv, RemoteInv, ArrivalInv(n), [Next]_vars
    PROVE  ArrivalInv(n)'
<1>0. /\ DOMAIN pc = App /\ DOMAIN req = App /\ DOMAIN got = App /\ DOMAIN call = App
      /\ \A a \in App : pc[a] # "idle" => req[a].service \in Queries \cup Orders
      /\ \A s \in Queries \cup Orders :
           s.asks \in DirectTypes /\ Waits(s) /\ ~KeepsWaiting(s) /\ s.way \in {"query", "order"}
  BY QueryIsDirect, OrderIsDirect, QueryFacts
  DEF IInv, TypeOK, CallInv, OneDeviceEach, DirectService, Waits, KeepsWaiting
<1>1. (\A r \in DirectRequests : addr[r.device] = r.peer)'
  <2>1. \A r \in DirectRequests : addr'[r.device] = r.peer
    BY PeerStays DEF ArrivalInv
  <2>2. DirectRequests' = DirectRequests
    BY DEF DirectRequests
  <2>. QED BY <2>1, <2>2
<1>2. \A a \in App : pc[a] = "recv" => Receiving(a)
  BY <1>0 DEF Receiving
<1>3. lost \subseteq lost'
  BY DEF Next, Channel, Listener, Thread, vars, app_vars, Lose, Deliver, ClearOldFrames,
     Listen_Async, ListenLock, ListenServe, ListenIdle, Ask, Lock, Send, Take, Timeout, Return,
     ListenSyncTake, ListenSyncTimeout, ListenSyncRespond
<1>4. ASSUME NEW a \in App, pc'[a] = "recv", pc[a] # "recv" PROVE Send(a)
  <2>1. ASSUME NEW b \in App, Thread(b), ~Send(a) PROVE FALSE
    BY <1>0, <1>4, <2>1 DEF Thread, Ask, Lock, Send, Take, Timeout, Return, ListenSyncTake,
       ListenSyncTimeout, ListenSyncRespond
  <2>2. UNCHANGED pc \/ \E b \in App : Thread(b)
    BY DEF Next, Channel, Listener, vars, app_vars, Lose, Deliver, ClearOldFrames, Listen_Async,
       ListenLock, ListenServe, ListenIdle
  <2>. QED BY <1>4, <2>1, <2>2
<1>5. ASSUME NEW a \in App, pc[a] = "recv", pc'[a] = "recv", call'[a] \notin lost'
      PROVE  OnItsWay(n, a)'
  <2>1. Receiving(a) /\ \A b \in App : Receiving(b) => b = a
    BY <1>2, <1>5, WaitingFacts
  <2>2. ASSUME NEW b \in App, Thread(b)
        PROVE  net' = net /\ rx' = rx /\ req'[a] = req[a] /\ call'[a] = call[a]
    <3>1. ~Send(b)
      <4>. SUFFICES ASSUME Send(b) PROVE FALSE
        OBVIOUS
      <4>1. pc[b] = "send" /\ b # a
        BY <1>5 DEF Send
      <4>2. req[b].service.asks \in DirectTypes
        BY <1>0, <4>1
      <4>. QED BY <2>1, <4>1, <4>2, Alone
    <3>2. ~Take(b)
      <4>. SUFFICES ASSUME Take(b) PROVE FALSE
        OBVIOUS
      <4>1. pc[b] = "recv"
        BY DEF Take
      <4>2. b = a
        BY <1>2, <2>1, <4>1
      <4>. QED BY <1>0, <1>5, <4>2 DEF Take
    <3>3. ~ListenSyncTake(b) /\ ~ListenSyncTimeout(b) /\ ~ListenSyncRespond(b)
      <4>1. pc[b] \notin {"listen", "respond"}
        BY <1>0 DEF IInv, MutexInv
      <4>. QED BY <4>1 DEF ListenSyncTake, ListenSyncTimeout, ListenSyncRespond
    <3>4. Ask(b) \/ Lock(b) \/ Timeout(b) \/ Return(b)
      BY <2>2, <3>1, <3>2, <3>3 DEF Thread
    <3>. QED BY <1>0, <1>5, <3>4 DEF Ask, Lock, Timeout, Return
  <2>3. CASE UNCHANGED <<net, rx>> /\ req'[a] = req[a] /\ call'[a] = call[a]
    <3>1. OnItsWay(n, a)
      BY <1>3, <1>5, <2>1, <2>3 DEF ArrivalInv
    <3>. QED BY <2>3, <3>1, StaysOnItsWay
  <2>4. CASE Lose
    <3>1. PICK copy \in net : net' = net \ {copy} /\ lost' = lost \cup {copy.frame.call}
      BY <2>4 DEF Lose
    <3>2. UNCHANGED <<rx, req, call>> /\ Question(a)' = Question(a)
      BY <2>4 DEF Lose, app_vars, Question
    <3>3. OnItsWay(n, a) /\ copy.frame.call # call[a]
      BY <1>3, <1>5, <2>1, <3>1, <3>2 DEF ArrivalInv
    <3>4. Question(a).call = call[a]
      BY DEF Question, Frame
    <3>5. \A x \in NetAnswers(n) : x.frame.call = call[a]
      BY <2>1 DEF TokenInv, AnswerInv, Says
    <3>6. OnItsWayAfter(n, a)
      BY <3>1, <3>2, <3>3, <3>4, <3>5 DEF OnItsWay, OnItsWayAfter, NetAnswers, FreshAnswers
    <3>. QED BY <3>6, OnItsWayIs
  <2>5. ASSUME NEW k \in Node, Channel(k) \/ ListenServe(k) PROVE OnItsWay(n, a)'
    <3>1. ~ClearOldFrames(k)
      BY DEF ClearOldFrames
    <3>2. CASE Deliver(k)
      <4>1. call'[a] = call[a]
        BY <3>2 DEF Deliver, app_vars
      <4>. QED BY <1>3, <1>5, <2>1, <3>2, <4>1, DeliverArrives
    <3>. QED BY <2>1, <2>5, <3>1, <3>2, ServeArrives DEF Channel
  <2>6. \/ UNCHANGED <<net, rx>> /\ req'[a] = req[a] /\ call'[a] = call[a]
        \/ Lose
        \/ \E k \in Node : Channel(k) \/ ListenServe(k)
    <3>1. \/ UNCHANGED <<net, rx, req, call>>
          \/ Lose
          \/ \E k \in Node : Channel(k) \/ ListenServe(k)
          \/ \E b \in App : Thread(b)
      BY DEF Next, Listener, vars, app_vars, Listen_Async, ListenLock, ListenIdle
    <3>. QED BY <2>2, <3>1
  <2>. QED BY <2>3, <2>4, <2>5, <2>6
<1>6. (\A a \in App : Receiving(a) /\ call[a] \notin lost => OnItsWay(n, a))'
  <2>. SUFFICES ASSUME NEW a \in App, Receiving(a)', call'[a] \notin lost' PROVE OnItsWay(n, a)'
    OBVIOUS
  <2>1. pc'[a] = "recv"
    BY DEF Receiving
  <2>2. CASE pc[a] = "recv"
    BY <1>5, <2>1, <2>2
  <2>3. CASE pc[a] # "recv"
    BY <1>4, <2>1, <2>3, SendArrives
  <2>. QED BY <2>2, <2>3
<1>7. ASSUME NEW a \in App, pc'[a] = "return", call'[a] \notin lost' PROVE got'[a] # <<>>
  <2>1. CASE pc[a] = "return" /\ got'[a] = got[a] /\ call'[a] = call[a]
    BY <1>3, <1>7, <2>1 DEF ArrivalInv
  <2>2. CASE Take(a)
    <3>1. pc[a] = "recv"
      BY <2>2 DEF Take
    <3>2. got[a] = <<>> /\ Receiving(a)
      BY <1>0, <1>2, <3>1 DEF PeerInv, NoneYet
    <3>. QED BY <2>2, <3>2, Handed
  <2>3. CASE Timeout(a)
    <3>1. call[a] \in lost /\ call' = call
      BY <2>3, TimeoutArrives DEF Timeout
    <3>. QED BY <1>3, <1>7, <3>1
  <2>4. req'[a].service.way \notin {"tell", "listen"}
    <3>1. pc[a] # "idle" /\ req'[a] = req[a]
      <4>1. ASSUME NEW b \in App, Thread(b) PROVE pc[a] # "idle" /\ req'[a] = req[a]
        BY <1>0, <1>7, <4>1 DEF Thread, Ask, Lock, Send, Take, Timeout, Return, ListenSyncTake,
           ListenSyncTimeout, ListenSyncRespond
      <4>2. UNCHANGED <<pc, req>> \/ \E b \in App : Thread(b)
        BY DEF Next, Channel, Listener, vars, app_vars, Lose, Deliver, ClearOldFrames,
           Listen_Async, ListenLock, ListenServe, ListenIdle
      <4>. QED BY <1>7, <4>1, <4>2
    <3>2. req[a].service.way \in {"query", "order"}
      BY <1>0, <3>1
    <3>. QED BY <3>1, <3>2
  <2>. QED BY <1>7, <2>1, <2>2, <2>3, <2>4, Endings
<1>8. (\A a \in App : pc[a] = "return" /\ call[a] \notin lost => got[a] # <<>>)'
  BY <1>7
<1>. QED BY <1>1, <1>6, <1>8 DEF ArrivalInv

-----------------------------------------------------------------------------
(* The theorems.                                                           *)

\* The peers of one caller have one device each.
LEMMA PeersOfOne ==
    ASSUME NEW n \in Node, OneCaller(n)
    PROVE  OwnedPeers(Queries)
BY QueryIsDirect DEF OneCaller, OwnedPeers, DirectRequests, DirectService

LEMMA TokenInvariance ==
    ASSUME NEW n \in Node, OneCaller(n), ~Late
    PROVE  Spec => [](IInv /\ TokenInv(n) /\ PeerInv)
<1>1. Init => TokenInv(n) /\ PeerInv
  BY TokenInit, PeerInit, PeersOfOne
<1>2. IInv /\ TokenInv(n) /\ PeerInv /\ [Next]_vars => TokenInv(n)' /\ PeerInv'
  BY TokenStep, PeerStep, PeersOfOne
<1>. QED BY <1>1, <1>2, Invariance, PTL DEF Spec

\* Where one process calls, what it reads as one device is one, and no answer comes after
\* its timeout, a read that says 0 returns what the device held when it acted on this very
\* request, of the item asked for, though frames are lost and refusals of one byte carry no
\* address (impose_response_restrictions, rx_sync).
THEOREM ReadAnswered ==
    ASSUME NEW n \in Node, OneCaller(n), ~Late
    PROVE  Spec => []ReadIsAnswered
<1>1. Init => ReadIsAnswered
  BY DEF Init, ReadIsAnswered, Succeeded
<1>2. IInv /\ TokenInv(n) /\ PeerInv /\ ReadIsAnswered /\ [Next]_vars => ReadIsAnswered'
  BY ReadStep
<1>. QED BY <1>1, <1>2, TokenInvariance, PTL DEF Spec

\* There, a write that says 0 has been performed, except through PropertyValue_Write2, which
\* says 0 in any case (EIBEmulatorImpl.cpp:435).
THEOREM WritePerformed ==
    ASSUME NEW n \in Node, OneCaller(n), NoneIgnored, ~Late
    PROVE  Spec => []WriteIsPerformed
<1>1. Init => WriteIsPerformed
  BY DEF Init, WriteIsPerformed, Succeeded
<1>2. IInv /\ TokenInv(n) /\ PeerInv /\ WriteIsPerformed /\ [Next]_vars => WriteIsPerformed'
  BY WriteStep
<1>. QED BY <1>1, <1>2, TokenInvariance, PTL DEF Spec

\* There, where every call asks one device, a call is one step on that device: a call takes
\* effect once at most, while it is in progress, says so only if it did, and says that the
\* device refused only if it did not (PropertyValue_Read to UserMemory_Write,
\* EIBEmulatorImpl.cpp).
THEOREM RemoteCalls ==
    ASSUME NEW n \in Node, OneCaller(n), OneDeviceEach, ~Late
    PROVE  Spec => ImplementsRemoteCall
<1>1. Init => RemoteInv /\ Remote!Init
  BY RemoteInit
<1>2. IInv /\ RemoteInv /\ [Next]_vars => RemoteInv'
  BY RemoteInvStep
<1>3. IInv /\ TokenInv(n) /\ PeerInv /\ RemoteInv /\ [Next]_vars => [Remote!Next]_(Remote!vars)
  BY RemoteStep
<1>. QED
  BY <1>1, <1>2, <1>3, TokenInvariance, Invariance, PTL DEF Spec, ImplementsRemoteCall, Remote!Spec

\* There, where caller and devices hear each other, a call of which no frame is lost is
\* answered before its timeout, with the data or with a refusal (Listen_Async,
\* EIBEmulatorImpl.h:259).
THEOREM Arrival ==
    ASSUME NEW n \in Node, OneCaller(n), InReach(n), OneDeviceEach, ~Late
    PROVE  Spec => []AnswerArrives
<1>1. Init => RemoteInv /\ ArrivalInv(n)
  BY RemoteInit DEF Init, ArrivalInv, InReach, Receiving
<1>2. IInv /\ RemoteInv /\ [Next]_vars => RemoteInv'
  BY RemoteInvStep
<1>3. IInv /\ TokenInv(n) /\ PeerInv /\ RemoteInv /\ ArrivalInv(n) /\ [Next]_vars => ArrivalInv(n)'
  BY ArrivalStep
<1>4. ArrivalInv(n) => AnswerArrives
  BY DEF ArrivalInv, AnswerArrives
<1>. QED BY <1>1, <1>2, <1>3, <1>4, TokenInvariance, Invariance, PTL DEF Spec

-----------------------------------------------------------------------------
(***************************************************************************)
(* When a call collects: what its thread has been handed and what is still *)
(* to come are, at any time, what the devices have said, each once or more *)
(* and nobody else.  Only the timeout ends such a call, and it ends when   *)
(* nothing is to come.                                                     *)
(***************************************************************************)
-----------------------------------------------------------------------------
(* The services that collect.                                              *)

CollectTypes == {s.asks : s \in Collects}
CollectedTypes == {"GroupValue_Response", "IndividualAddress_Response", "SerialNumber_Response"}
CollectedOf(type) ==
    CASE type = "GroupValue_Read" -> "GroupValue_Response"
      [] type = "IndividualAddress_Read" -> "IndividualAddress_Response"
      [] OTHER -> "SerialNumber_Response"
Collecting(f) == f.type \in CollectTypes
Collected(f) == f.type \in CollectedTypes

LEMMA CollectTypesAre ==
    /\ CollectTypes = {"GroupValue_Read", "IndividualAddress_Read", "SerialNumber_Read"}
    /\ CollectTypes \subseteq RequestTypes /\ CollectedTypes \cap RequestTypes = {}
    /\ CollectedTypes \cap ({"ACK"} \cup Refusals) = {}
BY DEF CollectTypes, CollectedTypes, Collects, GroupValue_Read, IndividualAddress_Read,
   SerialNumber_Read, Collect, Service, RequestTypes, Refusals

LEMMA CollectFacts ==
    ASSUME NEW s \in Collects
    PROVE  /\ s.way = "collect" /\ Waits(s) /\ KeepsWaiting(s)
           /\ s.asks \in CollectTypes /\ s.expects = {CollectedOf(s.asks)} \cup Refusals
           /\ s.asks = "GroupValue_Read" <=> s = GroupValue_Read
<1>1. ASSUME NEW asks \in {"GroupValue_Read", "IndividualAddress_Read", "SerialNumber_Read"},
             s = Collect(asks, CollectedOf(asks))
      PROVE  /\ s.way = "collect" /\ Waits(s) /\ KeepsWaiting(s)
             /\ s.asks = asks /\ s.expects = {CollectedOf(s.asks)} \cup Refusals
  BY <1>1 DEF Collect, Service, Waits, KeepsWaiting
<1>2. /\ CollectedOf("GroupValue_Read") = "GroupValue_Response"
      /\ CollectedOf("IndividualAddress_Read") = "IndividualAddress_Response"
      /\ CollectedOf("SerialNumber_Read") = "SerialNumber_Response"
  BY DEF CollectedOf
<1>3. /\ GroupValue_Read = Collect("GroupValue_Read", CollectedOf("GroupValue_Read"))
      /\ IndividualAddress_Read = Collect("IndividualAddress_Read", CollectedOf("IndividualAddress_Read"))
      /\ SerialNumber_Read = Collect("SerialNumber_Read", CollectedOf("SerialNumber_Read"))
  BY <1>2 DEF GroupValue_Read, IndividualAddress_Read, SerialNumber_Read
<1>4. \/ s = GroupValue_Read /\ s.asks = "GroupValue_Read"
      \/ s = IndividualAddress_Read /\ s.asks = "IndividualAddress_Read"
      \/ s = SerialNumber_Read /\ s.asks = "SerialNumber_Read"
  BY DEF Collects, GroupValue_Read, IndividualAddress_Read, SerialNumber_Read, Collect, Service
<1>5. GroupValue_Read.asks = "GroupValue_Read"
  BY DEF GroupValue_Read, Collect, Service
<1>. QED BY <1>1, <1>3, <1>4, <1>5, CollectTypesAre

\* Nothing else waits in this way, and nothing asks what is an answer to them.
LEMMA OnlyCollects ==
    ASSUME NEW s \in API
    PROVE  /\ s.way = "collect" => s \in Collects
           /\ s.asks \notin CollectedTypes
<1>1. CASE s \in Collects
  BY <1>1, CollectFacts, CollectTypesAre
<1>2. CASE s \in Queries \cup Orders
  BY <1>2, QueryIsDirect, OrderIsDirect, DirectTypesAre DEF DirectService, CollectedTypes
<1>3. CASE s \in Tells \cup {Listen_Sync}
  BY <1>3 DEF Tells, GroupValue_Write, IndividualAddress_Write, SerialNumber_Write, Tell, Service,
     Listen_Sync, CollectedTypes
<1>4. CASE s = PropertyValue_Write2
  BY <1>4 DEF PropertyValue_Write2, PropertyValue_Write, Order, Service, CollectedTypes
<1>5. ASSUME NEW t \in Queries \cup Orders \cup Collects \cup Tells, s = Send_Rawdate(t)
      PROVE  s.way = "raw" /\ s.asks \notin CollectedTypes
  <2>1. \E w, q, e, x, y : t = Service(w, q, e, x, y) /\ q \notin CollectedTypes
    BY DEF Queries, Orders, Collects, Tells, Query, Order, Collect, Tell, PropertyValue_Read,
       Property_Read, Authorize_Query, Link_Read, UserMemory_Read, PropertyValue_Write,
       Property_Write, Link_Write, UserMemory_Write, GroupValue_Read, IndividualAddress_Read,
       SerialNumber_Read, GroupValue_Write, IndividualAddress_Write, SerialNumber_Write,
       CollectedTypes
  <2>. QED BY <1>5, <2>1 DEF Send_Rawdate, Service
<1>. QED BY <1>1, <1>2, <1>3, <1>4, <1>5 DEF API

\* What is answered to what collects, and to what does not.
LEMMA CollectReplies ==
    ASSUME NEW n \in Node, NEW f, NEW r \in Replies(n, f)
    PROVE  /\ Collected(r) <=> Collecting(f)
           /\ Collecting(f) => /\ r.type = CollectedOf(f.type) /\ ~IsShort(r)
                               /\ r.to = IF f.type = "GroupValue_Read" THEN f.to ELSE f.from
<1>0. \A c, type, from, to, item, val, by :
        /\ Frame(c, type, from, to, item, val, by).type = type
        /\ Frame(c, type, from, to, item, val, by).to = to
  BY DEF Frame
<1>1. CASE f.type = "GroupValue_Read"
  <2>1. r.type = "GroupValue_Response" /\ r.to = f.to
    BY <1>0, <1>1 DEF Replies, GroupReplies
  <2>2. CollectedOf(f.type) = "GroupValue_Response"
    BY <1>1 DEF CollectedOf
  <2>. QED BY <1>1, <2>1, <2>2, CollectTypesAre DEF Collected, Collecting, CollectedTypes, IsShort
<1>2. CASE f.type = "IndividualAddress_Read"
  <2>1. r.type = "IndividualAddress_Response" /\ r.to = f.from
    BY <1>0, <1>2 DEF Replies, AddressReplies
  <2>2. CollectedOf(f.type) = "IndividualAddress_Response"
    BY <1>2 DEF CollectedOf
  <2>. QED BY <1>2, <2>1, <2>2, CollectTypesAre DEF Collected, Collecting, CollectedTypes, IsShort
<1>3. CASE f.type = "SerialNumber_Read"
  <2>0. r \in SerialReplies(n, f)
    BY <1>3 DEF Replies
  <2>3. \E d : r = Frame(f.call, "SerialNumber_Response", addr[d], f.from, f.item, NoValue, d)
    BY <2>0 DEF SerialReplies
  <2>1. r.type = "SerialNumber_Response" /\ r.to = f.from
    BY <2>3 DEF Frame
  <2>2. CollectedOf(f.type) = "SerialNumber_Response"
    BY <1>3 DEF CollectedOf
  <2>. QED BY <1>3, <2>1, <2>2, CollectTypesAre DEF Collected, Collecting, CollectedTypes, IsShort
<1>4. CASE ~Collecting(f)
  <2>1. f.type \notin {"GroupValue_Read", "IndividualAddress_Read", "SerialNumber_Read"}
    BY <1>4, CollectTypesAre DEF Collecting
  <2>2. \/ \E answer \in {"PropertyValue_Response", "Property_Response", "Authorize_Response",
                          "Link_Response"} : r \in ReadReplies(n, f, answer)
        \/ r \in MemoryReplies(n, f)
        \/ \E targets : r \in Acknowledged(n, f, targets)
    BY <2>1 DEF Replies
  <2>3. r.type \in {"PropertyValue_Response", "Property_Response", "Authorize_Response",
                    "Link_Response", "UserMemory_Response", "NACK", "ACK"}
    <3>1. ASSUME NEW answer, r \in ReadReplies(n, f, answer) PROVE r.type \in {"NACK", answer}
      <4>1. \/ r = Short(f, "NACK", n)
            \/ \E d : r = Frame(f.call, answer, f.to, f.from, f.item, mem[d][f.item], d)
        BY <3>1 DEF ReadReplies
      <4>. QED BY <4>1 DEF Frame, Short
    <3>2. r \in MemoryReplies(n, f) => r.type = "UserMemory_Response"
      BY <1>0 DEF MemoryReplies
    <3>3. \A targets : r \in Acknowledged(n, f, targets) => r.type \in {"NACK", "ACK"}
      BY <1>0 DEF Acknowledged, Short
    <3>. QED BY <2>2, <3>1, <3>2, <3>3
  <2>. QED BY <1>4, <2>3 DEF Collected, CollectedTypes
<1>. QED BY <1>1, <1>2, <1>3, <1>4, CollectTypesAre DEF Collecting

\* Who has acted on it is who has answered.
LEMMA CollectMarks ==
    ASSUME NEW n \in Node, NEW f, Collecting(f)
    PROVE  /\ \A m \in Marks(n, f) : \E r \in Replies(n, f) : r.by = m.by
           /\ \A r \in Replies(n, f) : \E m \in Marks(n, f) : m.by = r.by
<1>1. Written(n, f) = {} /\ Renamed(n, f) = {}
  BY CollectTypesAre DEF Collecting, Written, Renamed
<1>2. {q \in Replies(n, f) : ~IsShort(q)} = Replies(n, f)
  BY CollectReplies
<1>3. Marks(n, f) = {[by |-> r.by, val |-> r.val] : r \in Replies(n, f)}
  BY <1>1, <1>2 DEF Marks
<1>4. \A x, y : [by |-> x, val |-> y].by = x
  OBVIOUS
<1>5. \A m \in Marks(n, f) : \E r \in Replies(n, f) : r.by = m.by
  BY <1>3
<1>6. ASSUME NEW r \in Replies(n, f) PROVE \E m \in Marks(n, f) : m.by = r.by
  <2>1. [by |-> r.by, val |-> r.val] \in Marks(n, f)
    BY <1>3
  <2>. QED BY <1>4, <2>1
<1>. QED BY <1>5, <1>6

\* The history of a call holds what it held and what the devices have done now.
LEMMA MarksRecorded ==
    ASSUME IInv, NEW n \in Node, NEW f, Respond(n, f), f.call \in 1..MaxCalls
    PROVE  /\ Range(performed'[f.call]) = Range(performed[f.call]) \cup Marks(n, f)
           /\ \A c \in 1..MaxCalls : c # f.call => performed'[c] = performed[c]
<1>. DEFINE M == Marks(n, f)
            s == performed[f.call]
            t == SetToSeq(M)
            u == s \o t
<1>1. /\ DOMAIN performed = 1..MaxCalls /\ s \in Seq(Range(s))
      /\ DOMAIN s = 1..Len(s) /\ Len(s) \in Nat
  BY OwnElements DEF IInv, TypeOK
<1>2. performed'[f.call] = u /\ \A c \in 1..MaxCalls : c # f.call => performed'[c] = performed[c]
  BY <1>1 DEF Respond
<1>3. IsFiniteSet(M)
  BY MarksApart
<1>. HIDE DEF M, s
<1>4. /\ t \in Seq(M) /\ Len(t) \in Nat /\ DOMAIN t = 1..Len(t)
      /\ Range(t) = M
  BY <1>3, ListsAll
<1>. HIDE DEF t
<1>5. /\ u \in Seq(Range(s) \cup M) /\ Len(u) = Len(s) + Len(t)
      /\ \A i \in 1..Len(s) + Len(t) : u[i] = IF i <= Len(s) THEN s[i] ELSE t[i - Len(s)]
  BY <1>1, <1>4, Extended
<1>. HIDE DEF u
<1>6. DOMAIN u = 1..Len(s) + Len(t)
  BY <1>5, LenProperties
<1>7. Range(u) \subseteq Range(s) \cup M
  BY <1>5, OwnElements DEF Range
<1>8. \A i \in 1..Len(s) : i \in DOMAIN u /\ u[i] = s[i]
  BY <1>1, <1>4, <1>5, <1>6
<1>9. \A i \in 1..Len(t) : i + Len(s) \in DOMAIN u /\ u[i + Len(s)] = t[i]
  BY <1>1, <1>4, <1>5, <1>6
<1>10. Range(s) \subseteq Range(u) /\ M \subseteq Range(u)
  BY <1>1, <1>4, <1>8, <1>9 DEF Range
<1>. QED BY <1>2, <1>7, <1>10 DEF s, M

-----------------------------------------------------------------------------
(* One call that collects.                                                 *)

\* Thread a collects; f is an answer that it will keep.
Gathers(n, a) == pc[a] = "recv" /\ AppNode[a] = n /\ req[a].service \in Collects
Gives(a, f) ==
    /\ f.call = call[a] /\ f.type \in req[a].service.expects
    /\ f.to = IF req[a].service = GroupValue_Read THEN Group ELSE Host[a]
    /\ \E m \in Range(performed[call[a]]) : m.by = f.by

\* Only threads of process n have the mutex of a process, and then of theirs.
CallersInv(n) ==
    /\ \A m \in Node \ {n} : objs[m] \notin App
    /\ \A a \in App : pc[a] \in {"lock", "send", "recv"} =>
         AppNode[a] = n /\ req[a].service.way # "listen"
    /\ \A a \in App : pc[a] \in {"idle", "lock", "send"} => got[a] = <<>>

\* Requests are where process n is heard, and what collects is of a call that collects.
AskedInv(n) ==
    \A m \in Node : \A f \in Held(m) : f.type \in RequestTypes =>
        /\ n \in Hears[m]
        /\ Collecting(f) => \E a \in App : Gathers(n, a) /\ f.call = call[a]

\* Who has answered has acted, and who has acted has been heard or will be.
GivenInv(n) ==
    /\ \A f \in Coming(n) : Collected(f) => \E a \in App : Gathers(n, a) /\ Gives(a, f)
    /\ \A a \in App : Gathers(n, a) =>
         /\ \A f \in Range(got[a]) : \E m \in Range(performed[call[a]]) : m.by = f.by
         /\ \A m \in Range(performed[call[a]]) :
              \/ \E f \in Range(got[a]) : f.by = m.by
              \/ \E f \in Coming(n) : Collected(f) /\ f.call = call[a] /\ f.by = m.by

GatherInv(n) == HolderInv /\ QuestionInv /\ CallersInv(n) /\ AskedInv(n) /\ GivenInv(n)

\* One call at most waits or is about to.
LEMMA OneGathers ==
    ASSUME IInv, NEW n \in Node, CallersInv(n), NEW a \in App, NEW b \in App,
           {pc[a], pc[b]} \subseteq {"send", "recv"}
    PROVE  a = b
<1>1. Calling(a) /\ Calling(b) /\ AppNode[a] = n /\ AppNode[b] = n
  BY DEF CallersInv, Calling
<1>. QED BY <1>1 DEF IInv, MutexInv

\* What a call that collects has asked, and of whom.
LEMMA GatherFacts ==
    ASSUME IInv, NEW n \in Node, OneCollector(n), NEW a \in App, pc[a] # "idle",
           req[a].service.asks \in CollectTypes
    PROVE  LET s == req[a].service IN
           /\ s \in Collects /\ s.way = "collect" /\ Waits(s) /\ KeepsWaiting(s)
           /\ s.expects = {CollectedOf(s.asks)} \cup Refusals
           /\ s.asks = "GroupValue_Read" <=> s = GroupValue_Read
           /\ IF s = GroupValue_Read THEN req[a].peer = Group /\ At(n) \cap Joined # {}
              ELSE req[a].peer = Broadcast
           /\ Host[a] \notin {Group, NoAddress} /\ call[a] \in 1..MaxCalls
<1>1. req[a] \in Requests[a] /\ call[a] \in 1..MaxCalls
  BY Constants DEF IInv, CallInv, TypeOK
<1>2. /\ req[a].service \in Collects
      /\ IF req[a].service = GroupValue_Read THEN req[a].peer = Group /\ At(n) \cap Joined # {}
         ELSE req[a].peer = Broadcast
      /\ Host[a] \notin {Group, NoAddress}
  BY <1>1 DEF OneCollector, CollectTypes
<1>. QED BY <1>1, <1>2, CollectFacts

LEMMA GathererFacts ==
    ASSUME IInv, NEW n \in Node, OneCollector(n), NEW a \in App, Gathers(n, a)
    PROVE  req[a].service.asks \in CollectTypes /\ pc[a] # "idle"
BY CollectFacts DEF Gathers

\* A request with the number of its call is its question.
LEMMA RequestOf ==
    ASSUME IInv, NEW n \in Node, OneCollector(n), QuestionInv, NEW a \in App, Gathers(n, a),
           NEW m \in Node, NEW h \in Held(m), h.type \in RequestTypes, h.call = call[a]
    PROVE  /\ Collecting(h) /\ h.type = req[a].service.asks /\ h.from = Host[a]
           /\ h.to = req[a].peer
<1>1. h \in Frames
  BY HeldFrames
<1>2. pc[a] # "idle" /\ req[a].service.asks \in CollectTypes
  BY GathererFacts
<1>3. h = Question(a)
  BY <1>1, <1>2 DEF QuestionInv
<1>. QED BY <1>2, <1>3 DEF Question, Frame, Collecting

\* The answer is one its call lets in, and so does the channel.
LEMMA GivenIsLetIn ==
    ASSUME IInv, NEW n \in Node, OneCollector(n), NEW a \in App, Gathers(n, a), NEW f, Gives(a, f)
    PROVE  RightAddresses(a, f) /\ Lets(req[a].service, f.type) /\ Accepts(n, f)
<1>1. req[a].service.asks \in CollectTypes /\ pc[a] = "recv" /\ AppNode[a] = n
  BY GathererFacts DEF Gathers
<1>2. /\ IF req[a].service = GroupValue_Read THEN req[a].peer = Group /\ At(n) \cap Joined # {}
         ELSE req[a].peer = Broadcast
      /\ Host[a] \notin {Group, NoAddress} /\ req[a].service.way = "collect"
  BY <1>1, GatherFacts
<1>3. addr[Special(n)] = Host[a] /\ Special(n) \in At(n)
  BY <1>1, <1>2, SpecialHome DEF IInv, HostHeld, Calling, At
<1>4. WithAddress(n, Host[a]) # {}
  BY <1>2, <1>3 DEF WithAddress
<1>5. f.to = Group => \E d \in At(n) : d \in Joined
  BY <1>2 DEF Gives
<1>. QED BY <1>2, <1>4, <1>5 DEF Gives, RightAddresses, Lets, Accepts

\* A call that ends has no request anywhere, and nothing more to be handed.
LEMMA TimeoutClears ==
    ASSUME IInv, NEW n \in Node, OneCollector(n), GatherInv(n), NEW a \in App, Timeout(a),
           Gathers(n, a)
    PROVE  /\ \A m \in Node : \A h \in Held(m) : h.type \in RequestTypes => h.call # call[a]
           /\ \A f \in Coming(n) : ~Gives(a, f)
<1>1. FirstAnswer(a) = 0 /\ ~Pending(call[a]) /\ AppNode[a] = n
  BY DEF Timeout, OneCollector, Gathers
<1>2. \A x \in net : x.frame.call # call[a]
  BY <1>1 DEF Pending
<1>3. \A b \in App : pc[b] = "respond" => got[b][1].call # call[a]
  BY <1>1 DEF Pending
<1>4. ASSUME NEW m \in Node, NEW i \in DOMAIN rx[m], rx[m][i].frame.type \in RequestTypes
      PROVE  rx[m][i].frame.call # call[a]
  <2>1. n \in Hears[m]
    BY <1>4, HeldAre DEF GatherInv, AskedInv
  <2>2. m # n /\ m \in Listening
    BY <2>1 DEF OneCollector
  <2>3. lst[m] # "off" /\ objs[m] \notin App
    BY <2>2 DEF GatherInv, HolderInv, CallersInv
  <2>4. rx[m][i] \in Range(rx[m])
    BY DEF Range
  <2>. QED BY <1>1, <1>4, <2>3, <2>4 DEF Pending
<1>5. ASSUME NEW m \in Node, NEW h \in Held(m), h.type \in RequestTypes PROVE h.call # call[a]
  BY <1>2, <1>3, <1>4, <1>5 DEF Held
<1>6. ASSUME NEW f \in Coming(n), Gives(a, f) PROVE FALSE
  <2>1. RightAddresses(a, f) /\ Lets(req[a].service, f.type) /\ f.call = call[a]
    BY <1>6, GivenIsLetIn DEF Gives
  <2>2. PICK i \in DOMAIN rx[n] : rx[n][i].fresh /\ rx[n][i].frame = f
    BY <1>2, <2>1 DEF Coming
  <2>. QED BY <1>1, <2>1, <2>2, NoAnswerFacts DEF IInv
<1>. QED BY <1>5, <1>6

\* Until then it goes on, and keeps what it is handed.
LEMMA GoesOn ==
    ASSUME IInv, [Next]_vars, NEW n \in Node, OneCollector(n), NEW a \in App, Gathers(n, a), ~Timeout(a)
    PROVE  /\ Gathers(n, a)' /\ req'[a] = req[a] /\ call'[a] = call[a]
           /\ got'[a] = got[a] \/ Take(a)
<1>0. /\ DOMAIN pc = App /\ DOMAIN req = App /\ DOMAIN got = App /\ DOMAIN call = App
      /\ KeepsWaiting(req[a].service) /\ pc[a] = "recv"
  BY CollectFacts DEF IInv, TypeOK, Gathers
<1>1. /\ pc'[a] = "recv" /\ req'[a] = req[a] /\ call'[a] = call[a]
      /\ got'[a] = got[a] \/ Take(a)
  <2>1. CASE UNCHANGED <<pc, req, got, call>>
    BY <1>0, <2>1
  <2>2. ASSUME NEW b \in App, b # a, Thread(b)
        PROVE  pc'[a] = pc[a] /\ req'[a] = req[a] /\ call'[a] = call[a] /\ got'[a] = got[a]
    BY <1>0, <2>2 DEF Thread, Ask, Lock, Send, Take, Timeout, Return, ListenSyncTake,
       ListenSyncTimeout, ListenSyncRespond
  <2>3. CASE Thread(a)
    <3>1. Take(a)
      BY <1>0, <2>3 DEF Thread, Ask, Lock, Send, Return, ListenSyncTake, ListenSyncTimeout,
         ListenSyncRespond
    <3>. QED BY <1>0, <3>1 DEF Take
  <2>4. UNCHANGED <<pc, req, got, call>> \/ \E b \in App : Thread(b)
    BY DEF Next, Channel, Listener, vars, app_vars, Lose, Deliver, ClearOldFrames, Listen_Async,
       ListenLock, ListenServe, ListenIdle
  <2>. QED BY <1>0, <2>1, <2>2, <2>3, <2>4
<1>. QED BY <1>1 DEF Gathers

\* It begins when its request is sent.
LEMMA Begins ==
    ASSUME IInv, [Next]_vars, NEW n \in Node, NEW a \in App, ~Gathers(n, a), Gathers(n, a)'
    PROVE  /\ Send(a) /\ pc[a] = "send" /\ AppNode[a] = n /\ req'[a] = req[a]
           /\ call'[a] = call[a] /\ got'[a] = got[a] /\ performed' = performed
<1>0. /\ DOMAIN pc = App /\ DOMAIN req = App /\ DOMAIN got = App /\ DOMAIN call = App
      /\ pc'[a] = "recv" /\ AppNode[a] = n /\ req'[a].service \in Collects
      /\ pc[a] # "recv" \/ req[a].service \notin Collects
  BY DEF IInv, TypeOK, Gathers
<1>1. CASE UNCHANGED <<pc, req>>
  BY <1>0, <1>1
<1>2. ASSUME NEW b \in App, b # a, Thread(b) PROVE pc'[a] = pc[a] /\ req'[a] = req[a]
  BY <1>0, <1>2 DEF Thread, Ask, Lock, Send, Take, Timeout, Return, ListenSyncTake,
     ListenSyncTimeout, ListenSyncRespond
<1>3. CASE Thread(a)
  <2>1. Send(a)
    BY <1>0, <1>3 DEF Thread, Ask, Lock, Take, Timeout, Return, ListenSyncTake, ListenSyncTimeout,
       ListenSyncRespond
  <2>. QED BY <1>0, <2>1 DEF Send
<1>4. UNCHANGED <<pc, req>> \/ \E b \in App : Thread(b)
  BY DEF Next, Channel, Listener, vars, app_vars, Lose, Deliver, ClearOldFrames, Listen_Async,
     ListenLock, ListenServe, ListenIdle
<1>. QED BY <1>0, <1>1, <1>2, <1>3, <1>4

\* The answers that can come belong to it.
LEMMA ComingIsGiven ==
    ASSUME IInv, NEW n \in Node, OneCollector(n), GatherInv(n), NEW a \in App, Gathers(n, a),
           NEW f \in Coming(n), Collected(f)
    PROVE  Gives(a, f)
<1>1. PICK b \in App : Gathers(n, b) /\ Gives(b, f)
  BY DEF GatherInv, GivenInv
<1>2. b = a
  BY <1>1, OneGathers DEF GatherInv, Gathers
<1>. QED BY <1>1, <1>2

\* What is to come stays, until the call is handed it.
LEMMA ComingStays ==
    ASSUME IInv, [Next]_vars, NEW n \in Node, OneCollector(n), GatherInv(n), NEW a \in App,
           Gathers(n, a), NEW f \in Coming(n), Collected(f)
    PROVE  f \in Coming(n)' \/ (Take(a) /\ f = rx[n][FirstAnswer(a)].frame)
<1>0. /\ TypeOK /\ DOMAIN rx = Node /\ pc[a] = "recv" /\ AppNode[a] = n /\ AppNode \in [App -> Node]
      /\ Accepts(n, f) /\ ~Late /\ ~Losing /\ n \notin Hears[n]
  BY ComingIsGiven, GivenIsLetIn, Constants DEF IInv, TypeOK, Gathers, OneCollector
<1>1. /\ \A x \in net' : x.at = n => x.frame \in Coming(n)'
      /\ \A i \in DOMAIN rx'[n] : rx'[n][i].fresh => rx'[n][i].frame \in Coming(n)'
  BY DEF Coming
<1>2. \/ \E x \in net : x.at = n /\ x.frame = f
      \/ \E i \in DOMAIN rx[n] : rx[n][i].fresh /\ rx[n][i].frame = f
  BY DEF Coming
<1>3. ASSUME net \subseteq net', rx'[n] = rx[n] PROVE f \in Coming(n)'
  BY <1>1, <1>2, <1>3
<1>4. CASE Lose \/ UNCHANGED vars
  BY <1>0, <1>3, <1>4 DEF Lose, vars
<1>5. ASSUME NEW k \in Node, Deliver(k) PROVE f \in Coming(n)'
  <2>1. PICK copy \in net :
          /\ copy.at = k /\ net' = net \ {copy}
          /\ rx' = IF Accepts(k, copy.frame)
                   THEN [rx EXCEPT ![k] = Append(@, [frame |-> copy.frame, fresh |-> TRUE])]
                   ELSE rx
    BY <1>5 DEF Deliver
  <2>. DEFINE e == [frame |-> copy.frame, fresh |-> TRUE]
              q == Append(rx[n], e)
  <2>2. \A i \in DOMAIN rx[n] : \E j \in DOMAIN rx'[n] : rx'[n][j] = rx[n][i]
    <3>1. CASE rx'[n] = rx[n]
      BY <3>1
    <3>2. CASE k = n /\ Accepts(k, copy.frame)
      <4>1. rx' = [rx EXCEPT ![n] = Append(@, e)]
        BY <2>1, <3>2
      <4>. HIDE DEF e
      <4>. QED BY <4>1, OthersStay
    <3>. QED BY <1>0, <2>1, <3>1, <3>2
  <2>3. CASE \E i \in DOMAIN rx[n] : rx[n][i].fresh /\ rx[n][i].frame = f
    BY <1>1, <2>2, <2>3
  <2>4. CASE \E x \in net : x.at = n /\ x.frame = f /\ x # copy
    BY <1>1, <2>1, <2>4
  <2>5. CASE copy.at = n /\ copy.frame = f
    <3>1. rx' = [rx EXCEPT ![n] = q]
      BY <1>0, <2>1, <2>5
    <3>2. /\ DOMAIN q = 1..Len(rx[n]) + 1 /\ q[Len(rx[n]) + 1] = e /\ Len(rx[n]) \in Nat
      BY <1>0, QueueFacts, Pushed DEF TypeOK
    <3>3. e.frame = f /\ e.fresh
      BY <2>5
    <3>. HIDE DEF q, e
    <3>4. rx'[n] = q /\ Len(rx[n]) + 1 \in DOMAIN q
      BY <1>0, <3>1, <3>2
    <3>. QED BY <1>1, <3>2, <3>3, <3>4
  <2>. QED BY <1>2, <2>3, <2>4, <2>5
<1>6. ASSUME NEW k \in Node, ListenServe(k) PROVE f \in Coming(n)'
  <2>1. /\ FirstRequest(k) \in DOMAIN rx[k] /\ rx[k][FirstRequest(k)].frame.type \in RequestTypes
    BY <1>0, <1>6, FirstRequestFacts DEF ListenServe
  <2>2. k # n
    BY <1>0, <2>1, HeldAre DEF GatherInv, AskedInv
  <2>3. rx'[n] = rx[n] /\ net \subseteq net'
    BY <1>0, <1>6, <2>2 DEF ListenServe, Respond
  <2>. QED BY <1>3, <2>3
<1>7. ASSUME NEW b \in App, ListenSyncTake(b) PROVE f \in Coming(n)'
  <2>. DEFINE k == AppNode[b]
  <2>1. /\ FirstRequest(k) \in DOMAIN rx[k] /\ rx[k][FirstRequest(k)].frame.type \in RequestTypes
        /\ k \in Node
    BY <1>0, <1>7, FirstRequestFacts DEF ListenSyncTake
  <2>2. k # n
    BY <1>0, <2>1, HeldAre DEF GatherInv, AskedInv
  <2>3. rx'[n] = rx[n] /\ net \subseteq net'
    BY <1>0, <1>7, <2>2 DEF ListenSyncTake
  <2>. QED BY <1>3, <2>3
<1>8. ASSUME NEW b \in App, Send(b) PROVE FALSE
  <2>1. pc[b] = "send" /\ CallersInv(n)
    BY <1>8 DEF Send, GatherInv
  <2>. QED BY <1>0, <2>1, OneGathers
<1>9. ASSUME NEW b \in App, Take(b) PROVE f \in Coming(n)' \/ (Take(a) /\ f = rx[n][FirstAnswer(a)].frame)
  <2>. DEFINE k == FirstAnswer(a)
  <2>1. pc[b] = "recv" /\ CallersInv(n)
    BY <1>9 DEF Take, GatherInv
  <2>2. b = a
    BY <1>0, <2>1, OneGathers
  <2>3. rx' = [rx EXCEPT ![n] = RemoveAt(@, k)] /\ net' = net /\ k \in DOMAIN rx[n]
    BY <1>0, <1>9, <2>2, FirstAnswerFacts DEF Take
  <2>. HIDE DEF k
  <2>4. \A i \in DOMAIN rx[n] : i = k \/ \E j \in DOMAIN rx'[n] : rx'[n][j] = rx[n][i]
    BY <2>3, OthersStay
  <2>. QED BY <1>1, <1>2, <1>9, <2>2, <2>3, <2>4 DEF k
<1>10. ASSUME NEW k \in Node, ClearOldFrames(k) \/ Listen_Async(k) \/ ListenLock(k) \/ ListenIdle(k)
       PROVE  f \in Coming(n)'
  BY <1>0, <1>3, <1>10 DEF ClearOldFrames, Listen_Async, ListenLock, ListenIdle
<1>11. ASSUME NEW b \in App, Ask(b) \/ Lock(b) \/ Timeout(b) \/ Return(b) \/ ListenSyncTimeout(b)
                             \/ ListenSyncRespond(b)
       PROVE  f \in Coming(n)'
  BY <1>3, <1>11 DEF Ask, Lock, Timeout, Return, ListenSyncTimeout, ListenSyncRespond, Respond
<1>. QED
  BY <1>4, <1>5, <1>6, <1>7, <1>8, <1>9, <1>10, <1>11 DEF Next, Channel, Listener, Thread

-----------------------------------------------------------------------------
(* One step.                                                               *)

LEMMA CallersStep ==
    ASSUME IInv, [Next]_vars, NEW n \in Node, OneCollector(n), CallersInv(n)
    PROVE  CallersInv(n)'
<1>0. /\ DOMAIN pc = App /\ DOMAIN req = App /\ DOMAIN got = App /\ DOMAIN objs = Node
      /\ Nobody \notin App /\ App \cap Node = {} /\ AppNode \in [App -> Node]
  BY Constants DEF IInv, TypeOK
<1>. USE <1>0
<1>1. \A m \in Node \ {n} : objs'[m] \notin App
  <2>1. CASE UNCHANGED objs
    BY <2>1 DEF CallersInv
  <2>2. ASSUME NEW m \in Node, Listener(m) PROVE \A k \in Node \ {n} : objs'[k] \notin App
    <3>1. objs' = objs \/ objs' = [objs EXCEPT ![m] = m] \/ objs' = [objs EXCEPT ![m] = Nobody]
      BY <2>2 DEF Listener, Listen_Async, ListenLock, ListenServe, ListenIdle
    <3>. QED BY <3>1 DEF CallersInv
  <2>3. ASSUME NEW a \in App, Lock(a) PROVE \A k \in Node \ {n} : objs'[k] \notin App
    <3>1. AppNode[a] = n /\ objs' = [objs EXCEPT ![n] = a]
      BY <2>3 DEF Lock, CallersInv
    <3>. QED BY <3>1 DEF CallersInv
  <2>4. ASSUME NEW a \in App, Return(a) PROVE \A k \in Node \ {n} : objs'[k] \notin App
    <3>1. \A k \in Node : objs'[k] \in {objs[k], Nobody}
      BY <2>4 DEF Return
    <3>. QED BY <3>1 DEF CallersInv
  <2>5. \/ UNCHANGED objs
        \/ \E m \in Node : Listener(m)
        \/ \E a \in App : Lock(a) \/ Return(a)
    BY DEF Next, Channel, Thread, vars, app_vars, Lose, Deliver, ClearOldFrames, Ask, Send, Take,
       Timeout, ListenSyncTake, ListenSyncTimeout, ListenSyncRespond
  <2>. QED BY <2>1, <2>2, <2>3, <2>4, <2>5
<1>2. ASSUME NEW a \in App
      PROVE  /\ pc'[a] \in {"lock", "send", "recv"} => AppNode[a] = n /\ req'[a].service.way # "listen"
             /\ pc'[a] \in {"idle", "lock", "send"} => got'[a] = <<>>
  <2>1. CASE UNCHANGED <<pc, req, got>>
    BY <2>1 DEF CallersInv
  <2>2. ASSUME NEW b \in App, b # a, Thread(b)
        PROVE  pc'[a] = pc[a] /\ req'[a] = req[a] /\ got'[a] = got[a]
    BY <2>2 DEF Thread, Ask, Lock, Send, Take, Timeout, Return, ListenSyncTake,
       ListenSyncTimeout, ListenSyncRespond
  <2>3. CASE Ask(a)
    <3>1. PICK r \in Requests[a] :
            /\ req'[a] = r /\ pc'[a] = IF r.service.way = "listen" THEN "listen" ELSE "lock"
      BY <2>3 DEF Ask
    <3>2. pc[a] = "idle" /\ got' = got
      BY <2>3 DEF Ask
    <3>3. AppNode[a] # n => r.service = Listen_Sync
      BY DEF OneCollector
    <3>4. Listen_Sync.way = "listen"
      BY DEF Listen_Sync, Service
    <3>. QED BY <3>1, <3>2, <3>3, <3>4 DEF CallersInv
  <2>4. CASE Return(a)
    BY <2>4 DEF Return
  <2>5. CASE Lock(a) \/ Send(a) \/ Take(a) \/ Timeout(a)
    <3>1. /\ pc[a] \in {"lock", "send", "recv"} /\ req' = req
          /\ pc'[a] \in {"idle", "lock", "send"} => pc[a] = "lock" /\ got' = got
      BY <2>5 DEF Lock, Send, Take, Timeout
    <3>. QED BY <3>1 DEF CallersInv
  <2>6. CASE ListenSyncTake(a) \/ ListenSyncTimeout(a) \/ ListenSyncRespond(a)
    BY <2>6 DEF ListenSyncTake, ListenSyncTimeout, ListenSyncRespond
  <2>7. UNCHANGED <<pc, req, got>> \/ \E b \in App : Thread(b)
    BY DEF Next, Channel, Listener, vars, app_vars, Lose, Deliver, ClearOldFrames, Listen_Async,
       ListenLock, ListenServe, ListenIdle
  <2>8. UNCHANGED <<pc, req, got>> \/ Thread(a) \/ (pc'[a] = pc[a] /\ req'[a] = req[a] /\ got'[a] = got[a])
    BY <2>2, <2>7
  <2>. QED BY <2>1, <2>3, <2>4, <2>5, <2>6, <2>8 DEF Thread, CallersInv
<1>. QED BY <1>1, <1>2 DEF CallersInv

LEMMA AskedStep ==
    ASSUME IInv, [Next]_vars, NEW n \in Node, OneCollector(n), GatherInv(n)
    PROVE  AskedInv(n)'
<1>. SUFFICES ASSUME NEW m \in Node, NEW f \in Held(m)', f.type \in RequestTypes
              PROVE  /\ n \in Hears[m]
                     /\ Collecting(f) => \E a \in App : Gathers(n, a)' /\ f.call = call'[a]
  BY DEF AskedInv, Collecting
<1>1. ASSUME f \in Held(m)
      PROVE  /\ n \in Hears[m]
             /\ Collecting(f) => \E a \in App : Gathers(n, a)' /\ f.call = call'[a]
  <2>1. n \in Hears[m]
    BY <1>1 DEF GatherInv, AskedInv
  <2>2. ASSUME Collecting(f) PROVE \E a \in App : Gathers(n, a)' /\ f.call = call'[a]
    <3>1. PICK a \in App : Gathers(n, a) /\ f.call = call[a]
      BY <1>1, <2>2 DEF GatherInv, AskedInv
    <3>2. ~Timeout(a)
      BY <1>1, <3>1, TimeoutClears
    <3>. QED BY <3>1, <3>2, GoesOn
  <2>. QED BY <2>1, <2>2
<1>2. ASSUME NEW a \in App, Send(a), AppNode[a] \in Hears[m], f = Question(a)
      PROVE  /\ n \in Hears[m]
             /\ Collecting(f) => \E b \in App : Gathers(n, b)' /\ f.call = call'[b]
  <2>1. pc[a] = "send" /\ AppNode[a] = n /\ DOMAIN pc = App
    BY <1>2 DEF Send, GatherInv, CallersInv, IInv, TypeOK
  <2>2. f.type = req[a].service.asks /\ f.call = call[a]
    BY <1>2 DEF Question, Frame
  <2>3. ASSUME Collecting(f) PROVE Gathers(n, a)' /\ f.call = call'[a]
    <3>1. req[a].service \in Collects /\ Waits(req[a].service)
      BY <2>1, <2>2, <2>3, GatherFacts DEF Collecting
    <3>2. pc'[a] = "recv" /\ req' = req /\ call' = call
      BY <1>2, <2>1, <3>1 DEF Send
    <3>. QED BY <2>1, <2>2, <3>1, <3>2 DEF Gathers
  <2>. QED BY <1>2, <2>1, <2>3
<1>3. ASSUME NEW k \in Hears[m], NEW h, f \in Replies(k, h) PROVE FALSE
  BY <1>3, ReplyFacts, ExchangeAssumption DEF ReplyOK
<1>. QED BY <1>1, <1>2, <1>3, HeldSources DEF SentTo

\* The history grows when a process acts on a request it has.
LEMMA Responders ==
    ASSUME IInv, [Next]_vars
    PROVE  \/ performed' = performed
           \/ \E k \in Node : \E h \in Held(k) : h.type \in RequestTypes /\ Respond(k, h)
<1>0. TypeOK /\ AppNode \in [App -> Node]
  BY Constants DEF IInv
<1>1. ASSUME NEW k \in Node, ListenServe(k)
      PROVE  \E h \in Held(k) : h.type \in RequestTypes /\ Respond(k, h)
  <2>1. /\ FirstRequest(k) \in DOMAIN rx[k] /\ rx[k][FirstRequest(k)].frame.type \in RequestTypes
        /\ Respond(k, rx[k][FirstRequest(k)].frame)
    BY <1>0, <1>1, FirstRequestFacts DEF ListenServe
  <2>. QED BY <2>1, HeldAre
<1>2. ASSUME NEW a \in App, ListenSyncRespond(a)
      PROVE  /\ AppNode[a] \in Node
             /\ \E h \in Held(AppNode[a]) : h.type \in RequestTypes /\ Respond(AppNode[a], h)
  <2>1. pc[a] = "respond" /\ Respond(AppNode[a], got[a][1])
    BY <1>2 DEF ListenSyncRespond
  <2>. QED BY <1>0, <2>1, HeldAre DEF IInv, FrameInv
<1>3. \/ performed' = performed
      \/ \E k \in Node : ListenServe(k)
      \/ \E a \in App : ListenSyncRespond(a)
  BY DEF Next, Channel, Listener, Thread, vars, app_vars, Lose, Deliver, ClearOldFrames,
     Listen_Async, ListenLock, ListenIdle, Ask, Lock, Send, Take, Timeout, Return, ListenSyncTake,
     ListenSyncTimeout
<1>. QED BY <1>1, <1>2, <1>3

\* What it is handed, if it is kept, is an answer that was to come.
LEMMA HandedIs ==
    ASSUME IInv, NEW n \in Node, OneCollector(n), GatherInv(n), NEW a \in App, Gathers(n, a), Take(a)
    PROVE  LET t == rx[n][FirstAnswer(a)].frame IN
           \/ got'[a] = got[a] /\ IsShort(t)
           \/ /\ Range(got'[a]) = Range(got[a]) \cup {t}
              /\ t \in Coming(n) /\ Collected(t)
<1>. DEFINE t == rx[n][FirstAnswer(a)].frame
<1>1. /\ AppNode[a] = n /\ KeepsWaiting(req[a].service) /\ FirstAnswer(a) # 0
      /\ got' = IF IsShort(t) THEN got ELSE [got EXCEPT ![a] = Append(got[a], t)]
      /\ DOMAIN got = App /\ got[a] \in Seq(Range(got[a]))
  BY CollectFacts DEF Gathers, Take, IInv, TypeOK
<1>2. /\ FirstAnswer(a) \in DOMAIN rx[n] /\ rx[n][FirstAnswer(a)].fresh
      /\ Lets(req[a].service, t.type)
  BY <1>1, FirstAnswerFacts DEF IInv
<1>3. t \in Coming(n)
  BY <1>2, HeldAre
<1>. HIDE DEF t
<1>4. CASE ~IsShort(t)
  <2>1. got'[a] = Append(got[a], t)
    BY <1>1, <1>4
  <2>2. /\ DOMAIN Append(got[a], t) = 1..Len(got[a]) + 1
        /\ \A i \in 1..Len(got[a]) : Append(got[a], t)[i] = got[a][i]
        /\ Append(got[a], t)[Len(got[a]) + 1] = t
        /\ DOMAIN got[a] = 1..Len(got[a]) /\ Len(got[a]) \in Nat
    BY <1>1, Pushed, OwnElements
  <2>3. Range(got'[a]) = Range(got[a]) \cup {t}
    <3>. DEFINE u == Append(got[a], t)
    <3>1. \A i \in DOMAIN u : i \in DOMAIN got[a] \/ i = Len(got[a]) + 1
      BY <2>2
    <3>2. \A i \in DOMAIN got[a] : i \in DOMAIN u /\ u[i] = got[a][i]
      BY <2>2
    <3>3. Len(got[a]) + 1 \in DOMAIN u /\ u[Len(got[a]) + 1] = t
      BY <2>2
    <3>. HIDE DEF u
    <3>4. Range(u) = Range(got[a]) \cup {t}
      BY <3>1, <3>2, <3>3 DEF Range
    <3>. QED BY <2>1, <3>4 DEF u
  <2>4. req[a].service \in Collects
    BY DEF Gathers
  <2>5. /\ req[a].service.expects = {CollectedOf(req[a].service.asks)} \cup Refusals
        /\ CollectedOf(req[a].service.asks) \in CollectedTypes
    BY <2>4, CollectFacts DEF CollectedOf, CollectedTypes
  <2>6. Collected(t)
    BY <1>2, <1>4, <2>5 DEF Lets, IsShort, Collected
  <2>. QED BY <1>3, <2>3, <2>6 DEF t
<1>. QED BY <1>1, <1>4 DEF t

\* Each answer on its way is in the name of a device that has acted.
LEMMA ComingStep ==
    ASSUME IInv, [Next]_vars, NEW n \in Node, OneCollector(n), GatherInv(n),
           NEW f \in Coming(n)', Collected(f)
    PROVE  \E a \in App : Gathers(n, a)' /\ Gives(a, f)'
<1>0. ASSUME NEW a \in App, Gathers(n, a) PROVE call[a] \in 1..MaxCalls
  BY <1>0, GathererFacts, GatherFacts
<1>1. CASE f \in Coming(n)
  <2>1. PICK a \in App : Gathers(n, a) /\ Gives(a, f)
    BY <1>1 DEF GatherInv, GivenInv
  <2>2. ~Timeout(a)
    BY <1>1, <2>1, TimeoutClears
  <2>3. Gathers(n, a)' /\ req'[a] = req[a] /\ call'[a] = call[a]
    BY <2>1, <2>2, GoesOn
  <2>4. \A m \in Range(performed[call[a]]) : m \in Range(performed'[call[a]])
    BY <1>0, <2>1, Grown
  <2>5. Gives(a, f)'
    BY <2>1, <2>3, <2>4 DEF Gives
  <2>. QED BY <2>3, <2>5
<1>2. ASSUME NEW b \in App, Send(b), f = Question(b) PROVE FALSE
  <2>1. f.type = req[b].service.asks
    BY <1>2 DEF Question, Frame
  <2>2. req[b].service \in API
    BY <1>2, RequestAssumption DEF Send, IInv, CallInv
  <2>. QED BY <2>1, <2>2, OnlyCollects DEF Collected
<1>3. ASSUME NEW k \in Hears[n], NEW h \in Held(k), h.type \in RequestTypes, Respond(k, h),
             f \in Replies(k, h)
      PROVE  \E a \in App : Gathers(n, a)' /\ Gives(a, f)'
  <2>0. k \in Node
    BY ExchangeAssumption
  <2>1. /\ Collecting(h) /\ f.type = CollectedOf(h.type) /\ f.call = h.call
        /\ f.to = IF h.type = "GroupValue_Read" THEN h.to ELSE h.from
    BY <1>3, <2>0, CollectReplies, ReplyFacts DEF ReplyOK
  <2>2. PICK a \in App : Gathers(n, a) /\ h.call = call[a]
    BY <1>3, <2>0, <2>1 DEF GatherInv, AskedInv
  <2>3. ~Timeout(a)
    BY <1>3, <2>0, <2>2, TimeoutClears
  <2>4. Gathers(n, a)' /\ req'[a] = req[a] /\ call'[a] = call[a]
    BY <2>2, <2>3, GoesOn
  <2>5. h.type = req[a].service.asks /\ h.from = Host[a] /\ h.to = req[a].peer
    BY <1>3, <2>0, <2>2, RequestOf DEF GatherInv
  <2>6. /\ req[a].service.expects = {CollectedOf(h.type)} \cup Refusals
        /\ h.type = "GroupValue_Read" <=> req[a].service = GroupValue_Read
        /\ req[a].service = GroupValue_Read => req[a].peer = Group
    BY <2>2, <2>5, GathererFacts, GatherFacts
  <2>7. \E m \in Range(performed'[h.call]) : m.by = f.by
    BY <1>0, <1>3, <2>0, <2>1, <2>2, CollectMarks, MarksRecorded
  <2>8. Gives(a, f)'
    BY <2>1, <2>2, <2>4, <2>5, <2>6, <2>7 DEF Gives
  <2>. QED BY <2>4, <2>8
<1>. QED BY <1>1, <1>2, <1>3, HeldSources DEF SentTo

\* What the call has been handed and will be is what the devices have done.
LEMMA HandedStep ==
    ASSUME IInv, [Next]_vars, NEW n \in Node, OneCollector(n), GatherInv(n), NEW a \in App,
           Gathers(n, a)'
    PROVE  /\ \A f \in Range(got'[a]) : \E m \in Range(performed'[call'[a]]) : m.by = f.by
           /\ \A m \in Range(performed'[call'[a]]) :
                \/ \E f \in Range(got'[a]) : f.by = m.by
                \/ \E f \in Coming(n)' : Collected(f) /\ f.call = call'[a] /\ f.by = m.by
<1>1. CASE ~Gathers(n, a)
  <2>1. /\ pc[a] = "send" /\ call'[a] = call[a] /\ got'[a] = got[a] /\ performed' = performed
    BY <1>1, Begins
  <2>2. got[a] = <<>>
    BY <2>1 DEF GatherInv, CallersInv
  <2>3. performed[call[a]] = <<>>
    <3>1. call[a] \in 1..MaxCalls /\ Asking(call[a])
      BY <2>1, Constants DEF IInv, CallInv, TypeOK, Asking
    <3>. QED BY <3>1 DEF IInv, CallInv
  <2>4. Range(got'[a]) = {} /\ Range(performed'[call'[a]]) = {}
    BY <2>1, <2>2, <2>3 DEF Range
  <2>. QED BY <2>4
<1>2. CASE Gathers(n, a)
  <2>0. /\ ~Timeout(a) /\ DOMAIN pc = App
    BY DEF Gathers, Timeout, IInv, TypeOK
  <2>1. /\ req'[a] = req[a] /\ call'[a] = call[a] /\ call[a] \in 1..MaxCalls
        /\ got'[a] = got[a] \/ Take(a)
    BY <1>2, <2>0, GoesOn, GathererFacts, GatherFacts
  <2>2. \A m \in Range(performed[call[a]]) : m \in Range(performed'[call[a]])
    BY <2>1, Grown
  <2>. DEFINE t == rx[n][FirstAnswer(a)].frame
  <2>3. Take(a) => \/ got'[a] = got[a] /\ IsShort(t)
                   \/ /\ Range(got'[a]) = Range(got[a]) \cup {t}
                      /\ t \in Coming(n) /\ Collected(t)
    BY <1>2, HandedIs
  <2>4. \A f : Collected(f) => ~IsShort(f)
    BY CollectTypesAre DEF Collected, IsShort
  <2>. HIDE DEF t
  <2>5. ASSUME NEW f \in Range(got'[a]) PROVE \E m \in Range(performed'[call[a]]) : m.by = f.by
    <3>1. CASE f \in Range(got[a])
      BY <1>2, <2>2, <3>1 DEF GatherInv, GivenInv
    <3>2. CASE f = t /\ t \in Coming(n) /\ Collected(t)
      <4>1. Gives(a, f)
        BY <1>2, <3>2, ComingIsGiven
      <4>. QED BY <2>2, <4>1 DEF Gives
    <3>. QED BY <2>1, <2>3, <3>1, <3>2
  <2>6. ASSUME NEW m \in Range(performed[call[a]])
        PROVE  \/ \E f \in Range(got'[a]) : f.by = m.by
               \/ \E f \in Coming(n)' : Collected(f) /\ f.call = call[a] /\ f.by = m.by
    <3>1. CASE \E f \in Range(got[a]) : f.by = m.by
      BY <2>1, <2>3, <3>1
    <3>2. ASSUME NEW f \in Coming(n), Collected(f), f.call = call[a], f.by = m.by
          PROVE  \/ \E g \in Range(got'[a]) : g.by = m.by
                 \/ \E g \in Coming(n)' : Collected(g) /\ g.call = call[a] /\ g.by = m.by
      <4>1. f \in Coming(n)' \/ (Take(a) /\ f = t)
        BY <1>2, <3>2, ComingStays DEF t
      <4>2. CASE Take(a) /\ f = t
        BY <2>3, <2>4, <3>2, <4>2
      <4>. QED BY <3>2, <4>1, <4>2
    <3>. QED BY <1>2, <3>1, <3>2 DEF GatherInv, GivenInv
  <2>7. ASSUME NEW m \in Range(performed'[call[a]]), m \notin Range(performed[call[a]])
        PROVE  \E f \in Coming(n)' : Collected(f) /\ f.call = call[a] /\ f.by = m.by
    <3>0. PICK k \in Node : \E h \in Held(k) : h.type \in RequestTypes /\ Respond(k, h)
      BY <2>7, Responders
    <3>1. PICK h \in Held(k) : h.type \in RequestTypes /\ Respond(k, h)
      BY <3>0
    <3>2. h.call \in 1..MaxCalls
      <4>1. h \in Frames
        BY HeldFrames
      <4>. QED BY <4>1, FramesOK, Constants DEF FrameOK, IInv, TypeOK
    <3>3. h.call = call[a] /\ m \in Marks(k, h)
      BY <2>1, <2>7, <3>1, <3>2, MarksRecorded
    <3>4. Collecting(h) /\ n \in Hears[k]
      BY <1>2, <3>1, <3>3, RequestOf DEF GatherInv, AskedInv
    <3>5. PICK r \in Replies(k, h) : r.by = m.by
      BY <3>3, <3>4, CollectMarks
    <3>6. Collected(r) /\ r.call = call[a]
      BY <3>3, <3>4, CollectReplies, ReplyFacts DEF ReplyOK
    <3>. DEFINE x == [at |-> n, frame |-> r]
    <3>7. x \in Sent(k, Replies(k, h))
      BY <3>4 DEF Sent, OneCollector
    <3>8. x \in net' /\ x.at = n /\ x.frame = r
      BY <3>1, <3>7 DEF Respond
    <3>. HIDE DEF x
    <3>9. r \in Coming(n)'
      BY <3>8 DEF Coming
    <3>. QED BY <3>5, <3>6, <3>9
  <2>8. \A m \in Range(performed'[call[a]]) :
          \/ \E f \in Range(got'[a]) : f.by = m.by
          \/ \E f \in Coming(n)' : Collected(f) /\ f.call = call[a] /\ f.by = m.by
    BY <2>6, <2>7
  <2>9. \A f \in Range(got'[a]) : \E m \in Range(performed'[call[a]]) : m.by = f.by
    BY <2>5
  <2>. QED BY <2>1, <2>8, <2>9
<1>. QED BY <1>1, <1>2

LEMMA GatherStep ==
    ASSUME IInv, [Next]_vars, NEW n \in Node, OneCollector(n), GatherInv(n)
    PROVE  GatherInv(n)'
<1>1. HolderInv' /\ QuestionInv' /\ CallersInv(n)' /\ AskedInv(n)'
  BY HolderStep, QuestionStep, CallersStep, AskedStep DEF GatherInv
<1>2. GivenInv(n)'
  BY ComingStep, HandedStep DEF GivenInv, Collected
<1>. QED BY <1>1, <1>2 DEF GatherInv

LEMMA GatherInit ==
    ASSUME Init, NEW n \in Node, OneCollector(n)
    PROVE  GatherInv(n)
<1>1. Frames = {} /\ \A m \in Node : Held(m) = {} /\ Coming(m) = {}
  <2>1. \A m \in Node : Range(rx[m]) = {} /\ DOMAIN rx[m] = {}
    BY DEF Init, Range
  <2>. QED BY <2>1 DEF Frames, Held, Coming, Init
<1>2. HolderInv /\ QuestionInv
  BY <1>1, ExchangeAssumption DEF Init, HolderInv, QuestionInv
<1>3. CallersInv(n)
  BY ExchangeAssumption DEF Init, CallersInv
<1>. QED BY <1>1, <1>2, <1>3 DEF GatherInv, AskedInv, GivenInv, Gathers, Init

\* A call that ends has been handed all that was said, and nothing else.
LEMMA AllCollected ==
    ASSUME IInv, [Next]_vars, NEW n \in Node, OneCollector(n), GatherInv(n), NEW a \in App,
           pc[a] = "recv", pc'[a] = "return", req[a].service.way = "collect"
    PROVE  {f.by : f \in Range(got[a])} = {m.by : m \in Range(performed[call[a]])}
<1>1. req[a].service \in API
  BY RequestAssumption DEF IInv, CallInv
<1>2. Gathers(n, a)
  BY <1>1, OnlyCollects DEF Gathers, GatherInv, CallersInv
<1>3. Timeout(a)
  <2>1. ~Timeout(a) => Gathers(n, a)'
    BY <1>2, GoesOn
  <2>. QED BY <2>1 DEF Gathers
<1>4. \A f \in Coming(n) : Collected(f) /\ f.call = call[a] => FALSE
  BY <1>2, <1>3, TimeoutClears, ComingIsGiven
<1>5. \A m \in Range(performed[call[a]]) : \E f \in Range(got[a]) : f.by = m.by
  BY <1>2, <1>4 DEF GatherInv, GivenInv
<1>6. \A f \in Range(got[a]) : \E m \in Range(performed[call[a]]) : m.by = f.by
  BY <1>2 DEF GatherInv, GivenInv
<1>. QED BY <1>5, <1>6

\* Where one process has the callers, who hears it listens and answers, and nothing is lost
\* or late, a collecting read that ends returns an answer of every device that has given
\* one, and of no other: none left over from an earlier call, none of another's, though
\* they come in any order, mixed with the acknowledgements of other calls (rx_sync_ex).
THEOREM Collection ==
    ASSUME NEW n \in Node, OneCollector(n)
    PROVE  Spec => CollectedAll
<1>1. Init => GatherInv(n)
  BY GatherInit
<1>2. IInv /\ GatherInv(n) /\ [Next]_vars => GatherInv(n)'
  BY GatherStep
<1>3. IInv /\ GatherInv(n) /\ [Next]_vars =>
        [\A a \in App :
           pc[a] = "recv" /\ pc'[a] = "return" /\ req[a].service.way = "collect" =>
              {f.by : f \in Range(got[a])} = {m.by : m \in Range(performed[call[a]])}]_vars
  BY AllCollected
<1>. QED BY <1>1, <1>2, <1>3, Invariance, PTL DEF Spec, CollectedAll
=============================================================================
