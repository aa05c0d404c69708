------------------------------ MODULE Exchange ------------------------------
(***************************************************************************)
(* Several processes with a channel between them: the applications that    *)
(* call EIBEmulatorImpl, the listener of each process (Listen_Async), the  *)
(* devices it emulates, and the frames on their way.                       *)
(*                                                                         *)
(* A node is a process.  m_mutex_objs is held for the whole of a call, of   *)
(* its waiting too, and for every turn of the listener.  Sending is the     *)
(* service SendService promises, receiving the queue of CommRx, of which   *)
(* the tick is kept as one bit: a frame is fresh until a call of its node   *)
(* reads its sending time.                                                 *)
(***************************************************************************)
EXTENDS Services, FiniteSets, SequencesExt

CONSTANTS
    Node, App, Device,   \* processes, their threads that call, devices (numbers, the order of DeviceMap)
    AppNode, Home,       \* AppNode[a], Home[d]: the process of a thread, of a device
    Host,                \* Host[a]: the address thread a calls from
    Requests,            \* Requests[a]: what it may ask for: [service, writes, device, peer, item, val]
    NoRequest, Nobody,
    Item, Value,         \* what a device holds, by item
    FirstValue, NoItem, NoValue,
    Present,             \* the pairs of a device and an item it has
    Joined,              \* the devices that have joined the group
    Enabled,             \* the devices that answer broadcasts of the address services
    Address, Broadcast, Group, NoAddress,
    FirstAddress,        \* FirstAddress[d]
    Hears,               \* Hears[n]: the processes whose frames reach the channel of n
    Listening,           \* the processes whose listener runs from the start
    Losing,              \* may a frame be lost?
    Late,                \* may a call time out although its answer is on its way?
    MaxCalls             \* bound on the number of calls

ASSUME ExchangeAssumption ==
    /\ Nobody \notin App \cup Node /\ App \cap Node = {}
    /\ Device \subseteq Nat /\ IsFiniteSet(Device) /\ FirstValue \in Value /\ MaxCalls \in Nat
    /\ AppNode \in [App -> Node] /\ Host \in [App -> Address] /\ Home \in [Device -> Node]
    /\ \A n \in Node : \E d \in Device :    \* the last device of n
         Home[d] = n /\ \A e \in Device : Home[e] = n => e <= d
    /\ FirstAddress \in [Device -> Address \cup {NoAddress}]
    /\ Joined \subseteq Device /\ Enabled \subseteq Device /\ Present \subseteq Device \X Item
    /\ Listening \subseteq Node /\ Hears \in [Node -> SUBSET Node]
    /\ {Losing, Late} \subseteq BOOLEAN

\* What the application hands over has the type of the parameter.
Writes == {"PropertyValue_Write", "Property_Write", "Link_Write", "UserMemory_Write",
           "GroupValue_Write"}
Renames == {"IndividualAddress_Write", "SerialNumber_Write"}

ASSUME RequestAssumption ==
    \A a \in App : \A r \in Requests[a] :
        /\ r.service \in API
        /\ r.service.asks \in Writes => r.val \in Value
        /\ r.service.asks \in Renames => r.val \in Address

VARIABLES
    objs,        \* objs[n]: who holds m_mutex_objs, a thread or the listener (n itself)
    addr,        \* addr[d]: the address of a device
    mem,         \* mem[d][i]: what it holds
    rx,          \* rx[n]: m_rx_list, entries [frame, fresh]
    net,         \* copies on their way, [at, frame]
    lst,         \* lst[n]: what the listener of n does
    pc, req, got, ret, call,  \* of each thread: where it is, its request, the frames handed to it,
                 \* what it returns, the number of its call
    calls,       \* history: the number of calls begun
    performed,   \* history: performed[c]: who acted on the request of call c, with what value
    lost         \* history: the calls of which a frame was lost

app_vars == <<pc, req, got, ret, call>>
vars == <<objs, addr, mem, rx, net, lst, app_vars, calls, performed, lost>>

\* The device ffffffff of a process comes last in its DeviceMap.
At(n) == {d \in Device : Home[d] = n}
Special(n) == CHOOSE d \in At(n) : \A e \in At(n) : e <= d
Ordinary(n) == At(n) \ {Special(n)}

\* GetDeviceByDAddr: the first device with the address, if there is one.
WithAddress(n, a) == {d \in At(n) : addr[d] = a /\ a # NoAddress}
Addressed(n, a) == {d \in WithAddress(n, a) : \A e \in WithAddress(n, a) : d <= e}

Frame(c, type, from, to, item, val, by) ==
    [call |-> c, type |-> type, from |-> from, to |-> to, item |-> item, val |-> val, by |-> by]

\* A frame of one byte carries nothing else.
Short(f, type, n) == Frame(f.call, type, NoAddress, NoAddress, NoItem, NoValue, Special(n))
IsShort(f) == f.type \in {"ACK"} \cup Refusals

Init ==
    /\ objs = [n \in Node |-> Nobody]
    /\ addr = FirstAddress
    /\ mem = [d \in Device |-> [i \in Item |-> FirstValue]]
    /\ rx = [n \in Node |-> <<>>]
    /\ net = {}
    /\ lst = [n \in Node |-> IF n \in Listening THEN "free" ELSE "off"]
    /\ pc = [a \in App |-> "idle"]
    /\ req = [a \in App |-> NoRequest]
    /\ got = [a \in App |-> <<>>]
    /\ ret = [a \in App |-> 0]
    /\ call = [a \in App |-> 0]
    /\ calls = 0
    /\ performed = [c \in 1..MaxCalls |-> <<>>]
    /\ lost = {}

-----------------------------------------------------------------------------
(* The channel.                                                            *)

\* What n sends is on its way to every process that hears it.
Sent(n, frames) == {[at |-> m, frame |-> f] : m \in {k \in Node : n \in Hears[k]}, f \in frames}

\* FrameParser with the check of the address: a short frame has none, a group
\* address must have been joined by a device, any other must be a device's or the
\* broadcast address.
Accepts(n, f) ==
    \/ IsShort(f)
    \/ f.to = Group /\ \E d \in At(n) : d \in Joined
    \/ f.to # Group /\ (f.to = Broadcast \/ WithAddress(n, f.to) # {})

Deliver(n) ==
    \E copy \in net :
        /\ copy.at = n
        /\ net' = net \ {copy}
        /\ rx' = IF Accepts(n, copy.frame)
                 THEN [rx EXCEPT ![n] = Append(@, [frame |-> copy.frame, fresh |-> TRUE])]
                 ELSE rx
        /\ UNCHANGED <<objs, addr, mem, lst, app_vars, calls, performed, lost>>

Lose ==
    /\ Losing
    /\ \E copy \in net : net' = net \ {copy} /\ lost' = lost \cup {copy.frame.call}
    /\ UNCHANGED <<objs, addr, mem, rx, lst, app_vars, calls, performed>>

\* ClearOldFrames.  A frame lives for a minute, a call waits for a second: in time,
\* nothing anybody waits for grows old.
ClearOldFrames(n) ==
    /\ Late
    /\ rx[n] # <<>>
    /\ rx' = [rx EXCEPT ![n] = Tail(@)]
    /\ UNCHANGED <<objs, addr, mem, net, lst, app_vars, calls, performed, lost>>

-----------------------------------------------------------------------------
(* What the devices of process n do with a request f (Frame::Response).    *)

\* PropertyValue_Read, Property_Read, Authorize_Request, Link_Read: an answer in
\* the name of the device addressed, or a refusal.
ReadReplies(n, f, answer) ==
    LET has == {d \in Addressed(n, f.to) : <<d, f.item>> \in Present} IN
    IF has = {} THEN {Short(f, "NACK", n)}
    ELSE {Frame(f.call, answer, f.to, f.from, f.item, mem[d][f.item], d) : d \in has}

\* UserMemory_Read does not even refuse.
MemoryReplies(n, f) ==
    {Frame(f.call, "UserMemory_Response", f.to, f.from, f.item, mem[d][f.item], d) :
        d \in Addressed(n, f.to)}

\* PropertyValue_Write, Property_Write; and Link_Write, UserMemory_Write, which
\* acknowledge whatever the device answers.
WriteTargets(n, f) == {d \in Addressed(n, f.to) : <<d, f.item>> \in Present}
ForcedTargets(n, f) == Addressed(n, f.to)
Acknowledged(n, f, targets) == {Short(f, IF targets = {} THEN "NACK" ELSE "ACK", n)}

\* GroupValue_Read: every device that has joined answers, to the group.
GroupReplies(n, f) ==
    {Frame(f.call, "GroupValue_Response", addr[d], f.to, f.item, mem[d][f.item], d) :
        d \in Ordinary(n) \cap Joined}
GroupTargets(n, f) == At(n) \cap Joined

\* IndividualAddress_Read and _Write: the devices set to answer.
AddressReplies(n, f) ==
    {Frame(f.call, "IndividualAddress_Response", addr[d], f.from, f.item, NoValue, d) :
        d \in Ordinary(n) \cap Enabled}
AddressTargets(n, f) == Ordinary(n) \cap Enabled

\* SerialNumber_Read and _Write: the device with the number, which is the item.
SerialReplies(n, f) ==
    {Frame(f.call, "SerialNumber_Response", addr[d], f.from, f.item, NoValue, d) :
        d \in {e \in Ordinary(n) : <<e, f.item>> \in Present}}
SerialTargets(n, f) == {d \in Ordinary(n) : <<d, f.item>> \in Present}

Replies(n, f) ==
    CASE f.type = "PropertyValue_Read" -> ReadReplies(n, f, "PropertyValue_Response")
      [] f.type = "Property_Read" -> ReadReplies(n, f, "Property_Response")
      [] f.type = "Authorize_Request" -> ReadReplies(n, f, "Authorize_Response")
      [] f.type = "Link_Read" -> ReadReplies(n, f, "Link_Response")
      [] f.type = "UserMemory_Read" -> MemoryReplies(n, f)
      [] f.type \in {"PropertyValue_Write", "Property_Write"} -> Acknowledged(n, f, WriteTargets(n, f))
      [] f.type \in {"Link_Write", "UserMemory_Write"} -> Acknowledged(n, f, ForcedTargets(n, f))
      [] f.type = "GroupValue_Read" -> GroupReplies(n, f)
      [] f.type = "IndividualAddress_Read" -> AddressReplies(n, f)
      [] f.type = "SerialNumber_Read" -> SerialReplies(n, f)
      [] OTHER -> {}

\* The devices whose items f changes, and those whose address it changes.
Written(n, f) ==
    CASE f.type \in {"PropertyValue_Write", "Property_Write"} -> WriteTargets(n, f)
      [] f.type \in {"Link_Write", "UserMemory_Write"} -> ForcedTargets(n, f)
      [] f.type = "GroupValue_Write" -> GroupTargets(n, f)
      [] OTHER -> {}
Renamed(n, f) ==
    CASE f.type = "IndividualAddress_Write" -> AddressTargets(n, f)
      [] f.type = "SerialNumber_Write" -> SerialTargets(n, f)
      [] OTHER -> {}

\* History: who acted on f, and on which value.
Marks(n, f) ==
    {[by |-> r.by, val |-> r.val] : r \in {q \in Replies(n, f) : ~IsShort(q)}}
    \cup {[by |-> d, val |-> f.val] : d \in Written(n, f) \cup Renamed(n, f)}

\* Mutant of Respond: the number and the new address of SerialNumber_Write change places.
Respond_Swapped(n, f) ==
    /\ mem' = [d \in Device |-> IF d \in Written(n, f) THEN [mem[d] EXCEPT ![f.item] = f.val]
                                ELSE mem[d]]
    /\ addr' = [d \in Device |-> IF d \in Renamed(n, f) THEN f.item ELSE addr[d]]
    /\ net' = net \cup Sent(n, Replies(n, f))
    /\ performed' = [performed EXCEPT ![f.call] = @ \o SetToSeq(Marks(n, f))]

\* The devices of n act on f, and the answers are sent.
Respond(n, f) ==
    /\ mem' = [d \in Device |-> IF d \in Written(n, f) THEN [mem[d] EXCEPT ![f.item] = f.val]
                                ELSE mem[d]]
    /\ addr' = [d \in Device |-> IF d \in Renamed(n, f) THEN f.val ELSE addr[d]]
    /\ net' = net \cup Sent(n, Replies(n, f))
    /\ performed' = [performed EXCEPT ![f.call] = @ \o SetToSeq(Marks(n, f))]

\* The place of the first request in the queue, 0 if there is none.
FirstRequest(n) == SelectInSeq(rx[n], LAMBDA e : e.frame.type \in RequestTypes)

-----------------------------------------------------------------------------
(* The listener.                                                           *)

Listen_Async(n) ==
    /\ lst[n] = "off"
    /\ lst' = [lst EXCEPT ![n] = "free"]
    /\ UNCHANGED <<objs, addr, mem, rx, net, app_vars, calls, performed, lost>>

ListenLock(n) ==
    /\ lst[n] = "free" /\ objs[n] = Nobody
    /\ lst' = [lst EXCEPT ![n] = "holds"]
    /\ objs' = [objs EXCEPT ![n] = n]
    /\ UNCHANGED <<addr, mem, rx, net, app_vars, calls, performed, lost>>

\* Mutant of ListenServe: the request stays in the queue.
ListenServe_Keeps(n) ==
    /\ lst[n] = "holds"
    /\ FirstRequest(n) # 0
    /\ Respond(n, rx[n][FirstRequest(n)].frame)
    /\ lst' = [lst EXCEPT ![n] = "free"]
    /\ objs' = [objs EXCEPT ![n] = Nobody]
    /\ UNCHANGED <<rx, app_vars, calls, lost>>

\* Mutant of ListenServe: the mutex stays locked after an answer.
ListenServe_KeepsMutex(n) ==
    /\ lst[n] = "holds"
    /\ FirstRequest(n) # 0
    /\ Respond(n, rx[n][FirstRequest(n)].frame)
    /\ rx' = [rx EXCEPT ![n] = RemoveAt(@, FirstRequest(n))]
    /\ lst' = [lst EXCEPT ![n] = "free"]
    /\ UNCHANGED <<objs, app_vars, calls, lost>>

\* rx_tx_sync: one request is taken, acted on and answered.
ListenServe(n) ==
    /\ lst[n] = "holds"
    /\ FirstRequest(n) # 0
    /\ Respond(n, rx[n][FirstRequest(n)].frame)
    /\ rx' = [rx EXCEPT ![n] = RemoveAt(@, FirstRequest(n))]
    /\ lst' = [lst EXCEPT ![n] = "free"]
    /\ objs' = [objs EXCEPT ![n] = Nobody]
    /\ UNCHANGED <<app_vars, calls, lost>>

\* Its 250 ms end without a request.
ListenIdle(n) ==
    /\ lst[n] = "holds"
    /\ FirstRequest(n) = 0
    /\ lst' = [lst EXCEPT ![n] = "free"]
    /\ objs' = [objs EXCEPT ![n] = Nobody]
    /\ UNCHANGED <<addr, mem, rx, net, app_vars, calls, performed, lost>>

-----------------------------------------------------------------------------
(* The threads that call the API.                                          *)

Ask(a) ==
    /\ pc[a] = "idle"
    /\ calls < MaxCalls
    /\ \E r \in Requests[a] :
         /\ req' = [req EXCEPT ![a] = r]
         /\ pc' = [pc EXCEPT ![a] = IF r.service.way = "listen" THEN "listen" ELSE "lock"]
    /\ calls' = calls + 1
    /\ call' = [call EXCEPT ![a] = calls + 1]
    /\ UNCHANGED <<objs, addr, mem, rx, net, lst, got, ret, performed, lost>>

\* Mutant of Lock: the thread does not wait for the mutex.
Lock_Barges(a) ==
    LET n == AppNode[a] IN
    /\ pc[a] = "lock"
    /\ objs' = [objs EXCEPT ![n] = a]
    /\ addr' = [addr EXCEPT ![Special(n)] = Host[a]]
    /\ pc' = [pc EXCEPT ![a] = "send"]
    /\ UNCHANGED <<mem, rx, net, lst, req, got, ret, call, calls, performed, lost>>

\* HoldTheMutex, then set_host_addr(0xffffffff, host).
Lock(a) ==
    LET n == AppNode[a] IN
    /\ pc[a] = "lock" /\ objs[n] = Nobody
    /\ objs' = [objs EXCEPT ![n] = a]
    /\ addr' = [addr EXCEPT ![Special(n)] = Host[a]]
    /\ pc' = [pc EXCEPT ![a] = "send"]
    /\ UNCHANGED <<mem, rx, net, lst, req, got, ret, call, calls, performed, lost>>

Question(a) ==
    Frame(call[a], req[a].service.asks, Host[a], req[a].peer, req[a].item, req[a].val,
          Special(AppNode[a]))

\* The sending time is read, which makes what is in the queue old, and the frame
\* is sent.  A call that waits for no answer is over then.
Send(a) ==
    LET n == AppNode[a]
        waits == Waits(req[a].service) IN
    /\ pc[a] = "send"
    /\ net' = net \cup Sent(n, {Question(a)})
    /\ rx' = IF ~waits THEN rx
             ELSE [rx EXCEPT ![n] = [i \in DOMAIN @ |-> [frame |-> @[i].frame, fresh |-> FALSE]]]
    /\ pc' = [pc EXCEPT ![a] = IF waits THEN "recv" ELSE "return"]
    /\ UNCHANGED <<objs, addr, mem, lst, req, got, ret, call, calls, performed, lost>>

\* Mutant of RightAddresses: where the answer comes from is not checked.
RightAddresses_AnyPeer(a, f) ==
    IsShort(f) \/ req[a].peer = Group \/ f.to = Host[a]

\* Mutant of RightAddresses: from and to change places.
RightAddresses_Swapped(a, f) ==
    \/ IsShort(f) \/ req[a].peer = Group
    \/ f.from = Host[a] /\ req[a].peer \in {Broadcast, f.to}

\* impose_response_restrictions: a group is not checked at all, of a broadcast only
\* who is answered, of any other address both.
RightAddresses(a, f) ==
    \/ IsShort(f) \/ req[a].peer = Group
    \/ f.to = Host[a] /\ req[a].peer \in {Broadcast, f.from}

\* The place of the first frame rx_sync hands to the call, 0 if there is none.
FirstAnswer(a) ==
    SelectInSeq(rx[AppNode[a]],
        LAMBDA e : e.fresh /\ RightAddresses(a, e.frame) /\ Lets(req[a].service, e.frame.type))

Types(frames) == [i \in DOMAIN frames |-> frames[i].type]

\* Mutant of Take: a frame of one byte counts as a yes.
Take_AnyShort(a) ==
    LET n == AppNode[a]
        f == rx[n][FirstAnswer(a)].frame
        handed == Append(got[a], f) IN
    /\ pc[a] = "recv" /\ FirstAnswer(a) # 0
    /\ rx' = [rx EXCEPT ![n] = RemoveAt(@, FirstAnswer(a))]
    /\ IF KeepsWaiting(req[a].service)
       THEN got' = [got EXCEPT ![a] = handed] /\ UNCHANGED <<ret, pc>>
       ELSE /\ got' = [got EXCEPT ![a] = handed]
            /\ ret' = [ret EXCEPT ![a] = IF IsShort(f) THEN 0 ELSE Result(req[a].service, Types(handed))]
            /\ pc' = [pc EXCEPT ![a] = "return"]
    /\ UNCHANGED <<objs, addr, mem, net, lst, req, call, calls, performed, lost>>

\* rx_sync hands over a frame, which ends the call unless it collects: rx_sync_ex
\* keeps the long ones, and goes on.
Take(a) ==
    LET n == AppNode[a]
        f == rx[n][FirstAnswer(a)].frame
        handed == Append(got[a], f) IN
    /\ pc[a] = "recv" /\ FirstAnswer(a) # 0
    /\ rx' = [rx EXCEPT ![n] = RemoveAt(@, FirstAnswer(a))]
    /\ IF KeepsWaiting(req[a].service)
       THEN /\ got' = IF IsShort(f) THEN got ELSE [got EXCEPT ![a] = handed]
            /\ UNCHANGED <<ret, pc>>
       ELSE /\ got' = [got EXCEPT ![a] = handed]
            /\ ret' = [ret EXCEPT ![a] = Result(req[a].service, Types(handed))]
            /\ pc' = [pc EXCEPT ![a] = "return"]
    /\ UNCHANGED <<objs, addr, mem, net, lst, req, call, calls, performed, lost>>

\* An answer to call c may still come: a frame of it is on its way, or its request
\* has been taken, or is where a process not busy with a call of its own will take it.
Pending(c) ==
    \/ \E copy \in net : copy.frame.call = c
    \/ \E b \in App : pc[b] = "respond" /\ got[b][1].call = c
    \/ \E n \in Node : /\ lst[n] # "off" /\ objs[n] \notin App
                       /\ \E e \in Range(rx[n]) : e.frame.call = c /\ e.frame.type \in RequestTypes

Timeout(a) ==
    /\ pc[a] = "recv" /\ FirstAnswer(a) = 0
    /\ Late \/ ~Pending(call[a])
    /\ ret' = [ret EXCEPT ![a] = Result(req[a].service, Types(got[a]))]
    /\ pc' = [pc EXCEPT ![a] = "return"]
    /\ UNCHANGED <<objs, addr, mem, rx, net, lst, req, got, call, calls, performed, lost>>

\* Mutant of Return: the mutex stays locked on a way out.
Return_KeepsMutex(a) ==
    LET n == AppNode[a] IN
    /\ pc[a] = "return"
    /\ objs' = [objs EXCEPT ![n] = IF @ = a /\ ret[a] = 0 THEN Nobody ELSE @]
    /\ pc' = [pc EXCEPT ![a] = "idle"]
    /\ req' = [req EXCEPT ![a] = NoRequest]
    /\ got' = [got EXCEPT ![a] = <<>>]
    /\ ret' = [ret EXCEPT ![a] = 0]
    /\ call' = [call EXCEPT ![a] = 0]
    /\ UNCHANGED <<addr, mem, rx, net, lst, calls, performed, lost>>

Return(a) ==
    LET n == AppNode[a] IN
    /\ pc[a] = "return"
    /\ objs' = [objs EXCEPT ![n] = IF @ = a THEN Nobody ELSE @]
    /\ pc' = [pc EXCEPT ![a] = "idle"]
    /\ req' = [req EXCEPT ![a] = NoRequest]
    /\ got' = [got EXCEPT ![a] = <<>>]
    /\ ret' = [ret EXCEPT ![a] = 0]
    /\ call' = [call EXCEPT ![a] = 0]
    /\ UNCHANGED <<addr, mem, rx, net, lst, calls, performed, lost>>

\* Listen_Sync: rx_sync without the mutex, for a request.
ListenSyncTake(a) ==
    LET n == AppNode[a] IN
    /\ pc[a] = "listen" /\ FirstRequest(n) # 0
    /\ got' = [got EXCEPT ![a] = <<rx[n][FirstRequest(n)].frame>>]
    /\ rx' = [rx EXCEPT ![n] = RemoveAt(@, FirstRequest(n))]
    /\ pc' = [pc EXCEPT ![a] = "respond"]
    /\ UNCHANGED <<objs, addr, mem, net, lst, req, ret, call, calls, performed, lost>>

ListenSyncTimeout(a) ==
    /\ pc[a] = "listen" /\ FirstRequest(AppNode[a]) = 0
    /\ ret' = [ret EXCEPT ![a] = Result(req[a].service, <<>>)]
    /\ pc' = [pc EXCEPT ![a] = "return"]
    /\ UNCHANGED <<objs, addr, mem, rx, net, lst, req, got, call, calls, performed, lost>>

\* The mutex is held while the answers are built, no longer.
ListenSyncRespond(a) ==
    /\ pc[a] = "respond" /\ objs[AppNode[a]] = Nobody
    /\ Respond(AppNode[a], got[a][1])
    /\ ret' = [ret EXCEPT ![a] = 0]
    /\ pc' = [pc EXCEPT ![a] = "return"]
    /\ UNCHANGED <<objs, rx, lst, req, got, call, calls, lost>>

-----------------------------------------------------------------------------

Channel(n) == Deliver(n) \/ ClearOldFrames(n)
Listener(n) == Listen_Async(n) \/ ListenLock(n) \/ ListenServe(n) \/ ListenIdle(n)
Thread(a) ==
    \/ Ask(a) \/ Lock(a) \/ Send(a) \/ Take(a) \/ Timeout(a) \/ Return(a)
    \/ ListenSyncTake(a) \/ ListenSyncTimeout(a) \/ ListenSyncRespond(a)

Next ==
    \/ Lose
    \/ \E n \in Node : Channel(n) \/ Listener(n)
    \/ \E a \in App : Thread(a)

Spec == Init /\ [][Next]_vars

(***************************************************************************)
(* Threads that can run do run and the channel brings what is sent.  The   *)
(* mutex is not fair: only weak fairness is assumed of whoever waits for   *)
(* it.  Nobody is obliged to call or to start a listener.                  *)
(***************************************************************************)
Fairness ==
    /\ \A n \in Node : WF_vars(Deliver(n)) /\ WF_vars(ListenLock(n))
                       /\ WF_vars(ListenServe(n) \/ ListenIdle(n))
    /\ \A a \in App :
         /\ WF_vars(Lock(a)) /\ WF_vars(ListenSyncRespond(a)) /\ WF_vars(Return(a))
         /\ WF_vars(Send(a) \/ Take(a) \/ Timeout(a) \/ ListenSyncTake(a) \/ ListenSyncTimeout(a))

FairSpec == Spec /\ Fairness

-----------------------------------------------------------------------------
(* What should hold.                                                       *)

Calling(a) == pc[a] \in {"send", "recv", "return"} /\ req[a].service.way # "listen"

TypeOK ==
    /\ objs \in [Node -> Node \cup App \cup {Nobody}]
    /\ addr \in [Device -> Address \cup {NoAddress}]
    /\ mem \in [Device -> [Item -> Value]]
    /\ DOMAIN rx = Node /\ \A n \in Node : rx[n] \in Seq(Range(rx[n]))
    /\ \A copy \in net : copy.at \in Node
    /\ lst \in [Node -> {"off", "free", "holds"}]
    /\ pc \in [App -> {"idle", "lock", "send", "recv", "return", "listen", "respond"}]
    /\ req \in [App -> (UNION {Requests[a] : a \in App}) \cup {NoRequest}]
    /\ DOMAIN got = App /\ \A a \in App : got[a] \in Seq(Range(got[a]))
    /\ ret \in [App -> {-1, 0, 1, 3, 74}]
    /\ calls \in 0..MaxCalls /\ call \in [App -> 0..MaxCalls] /\ lost \subseteq 1..calls
    /\ DOMAIN performed = 1..MaxCalls
    /\ \A c \in 1..MaxCalls : performed[c] \in Seq(Range(performed[c]))

\* The special device keeps the address a call has given it until the call returns:
\* otherwise the answer is no longer let in, though other calls and broadcasts that
\* rename devices go on at the same process.
HostHeld == \A a \in App : Calling(a) => addr[Special(AppNode[a])] = Host[a]

Succeeded(a, ways) == pc[a] = "return" /\ ret[a] = 0 /\ req[a].service.way \in ways

\* A read that says 0 returns what the device it addressed held when it acted on
\* this very request, and of the item asked for: not the answer to an earlier
\* request, to another thread, or of another device.
ReadIsAnswered ==
    \A a \in App : Succeeded(a, {"query"}) =>
        /\ got[a][1].item = req[a].item
        /\ \E m \in Range(performed[call[a]]) : m.by = got[a][1].by /\ m.val = got[a][1].val

\* Whatever comes late or is lost, the answer a read returns is the one of the device
\* it addressed.
AnswerIsOfThePeer ==
    \A a \in App : Succeeded(a, {"query"}) =>
        got[a][1].by = req[a].device /\ got[a][1].to = Host[a]

\* A write that says 0 has been performed (EIBEmulatorImpl.cpp:435).
WriteIsPerformed ==
    \A a \in App : Succeeded(a, {"order"}) => performed[call[a]] # <<>>

\* No device acts twice on a request, whoever listens.
PerformedOnce ==
    \A c \in 1..MaxCalls : \A i, j \in DOMAIN performed[c] :
        performed[c][i].by = performed[c][j].by => i = j

\* Why: m_mutex_objs is the caller's for the whole of its call, and the listener's for
\* the whole of its turn.
MutexInv ==
    /\ \A a \in App : Calling(a) => objs[AppNode[a]] = a
    /\ \A a \in App : pc[a] \in {"listen", "respond"} => req[a].service.way = "listen"
    /\ \A n \in Node : lst[n] = "holds" => objs[n] = n

\* A thread that is not idle has a request and a number of its own.
Asking(c) == \E a \in App : pc[a] \in {"lock", "send"} /\ call[a] = c
CallInv ==
    /\ \A a \in App : pc[a] # "idle" => req[a] \in Requests[a] /\ call[a] \in 1..calls
    /\ \A a, b \in App : pc[a] # "idle" /\ pc[b] # "idle" /\ call[a] = call[b] => a = b
    /\ \A c \in 1..MaxCalls : performed[c] # <<>> => c <= calls /\ ~Asking(c)

\* A frame, wherever it is, belongs to a call that has sent one.
FrameOK(f) ==
    /\ f.call \in 1..calls /\ ~Asking(f.call)
    /\ f.type \in Writes => f.val \in Value
    /\ f.type \in Renames => f.val \in Address
IsEntry(e) == e = [frame |-> e.frame, fresh |-> e.fresh]
FrameInv ==
    /\ \A copy \in net : FrameOK(copy.frame)
    /\ \A n \in Node : \A i \in DOMAIN rx[n] :
         FrameOK(rx[n][i].frame) /\ IsEntry(rx[n][i])
    /\ \A a \in App : pc[a] = "respond" => FrameOK(got[a][1]) /\ got[a][1].type \in RequestTypes

\* A request is at a process once: on its way, in the queue, in the hands of Listen_Sync,
\* or behind it.
SameRequest(f, g) == f.call = g.call /\ {f.type, g.type} \subseteq RequestTypes
ActedAt(n, c) == \E i \in DOMAIN performed[c] : Home[performed[c][i].by] = n
OneCopy ==
    /\ \A x, y \in net : x.at = y.at /\ SameRequest(x.frame, y.frame) => x = y
    /\ \A x \in net : \A i \in DOMAIN rx[x.at] : ~SameRequest(x.frame, rx[x.at][i].frame)
    /\ \A x \in net : \A a \in App :
         pc[a] = "respond" /\ AppNode[a] = x.at => ~SameRequest(x.frame, got[a][1])
    /\ \A x \in net : x.frame.type \in RequestTypes => ~ActedAt(x.at, x.frame.call)
    /\ \A n \in Node : \A i, j \in DOMAIN rx[n] :
         SameRequest(rx[n][i].frame, rx[n][j].frame) => i = j
    /\ \A a \in App : \A i \in DOMAIN rx[AppNode[a]] :
         pc[a] = "respond" => ~SameRequest(got[a][1], rx[AppNode[a]][i].frame)
    /\ \A n \in Node : \A i \in DOMAIN rx[n] :
         rx[n][i].frame.type \in RequestTypes => ~ActedAt(n, rx[n][i].frame.call)
    /\ \A a, b \in App :
         /\ pc[a] = "respond" /\ pc[b] = "respond" /\ AppNode[a] = AppNode[b]
         /\ SameRequest(got[a][1], got[b][1])
         => a = b
    /\ \A a \in App : pc[a] = "respond" => ~ActedAt(AppNode[a], got[a][1].call)

\* The inductive invariant: none of its parts is inductive alone.
IInv == TypeOK /\ MutexInv /\ HostHeld /\ CallInv /\ FrameInv /\ OneCopy /\ PerformedOnce

\* A collecting read that ends returns an answer of every device that gave one, and
\* no other.
CollectedAll ==
    [][\A a \in App :
         pc[a] = "recv" /\ pc'[a] = "return" /\ req[a].service.way = "collect" =>
            {f.by : f \in Range(got[a])} = {m.by : m \in Range(performed[call[a]])}]_vars

\* With every device in reach and its process listening, no call that waits for an
\* answer does so in vain (Listen_Async, EIBEmulatorImpl.h:259), if nothing is lost.
AnswerArrives ==
    \A a \in App :
        /\ pc[a] = "return" /\ Waits(req[a].service) /\ call[a] \notin lost
        /\ \A n \in Node : lst[n] # "off"
        => got[a] # <<>>

\* When a peer has one device: its address is never another's, of a host neither, and no
\* request gives it away.
Owns(d, x) ==
    /\ d \in Device /\ x \notin {Group, Broadcast, NoAddress}
    /\ \A e \in Device : FirstAddress[e] = x => e = d
    /\ \A b \in App : Host[b] # x
    /\ \A b \in App : \A r \in Requests[b] : r.service.asks \in Renames => r.val # x
OwnedPeers(services) ==
    \A a \in App : \A r \in Requests[a] : r.service \in services => Owns(r.device, r.peer)

\* When one process n has the callers, and what they address as one device is a device
\* of a process that listens.
DirectTypes == {s.asks : s \in Queries \cup Orders}
DirectRequests == {r \in UNION {Requests[a] : a \in App} : r.service.asks \in DirectTypes}
OneCaller(n) ==
    /\ \A a \in App : AppNode[a] = n
    /\ \A r \in DirectRequests : Owns(r.device, r.peer) /\ Home[r.device] \in Listening \ {n}

\* When the devices asked are where they are asked for, and they and process n hear each
\* other.
InReach(n) ==
    /\ \A r \in DirectRequests :
         /\ FirstAddress[r.device] = r.peer
         /\ Home[r.device] \in Hears[n] /\ n \in Hears[Home[r.device]]
    /\ \A a \in App : Host[a] \notin {Group, NoAddress}

\* When every call asks one device, and its request says whether it writes.
OneDeviceEach ==
    \A a \in App : \A r \in Requests[a] :
        r.service \in Queries \cup Orders /\ r.writes = (r.service \in Orders)

\* When no call throws away what it is told.
NoneIgnored == \A a \in App : \A r \in Requests[a] : r.service # PropertyValue_Write2

\* When process n has the callers, who hears it listens and is heard, nothing is lost or
\* late, and what asks a group or everybody for answers does so in a function of the API.
OneCollector(n) ==
    /\ ~Late /\ ~Losing /\ n \in Node \ Hears[n]
    /\ \A m \in Node : n \in Hears[m] => m \in Listening \cap Hears[n]
    /\ \A a \in App :
         /\ Host[a] \notin {Group, NoAddress}
         /\ AppNode[a] = n \/ \A r \in Requests[a] : r.service = Listen_Sync
         /\ \A r \in Requests[a] : r.service.asks \in {s.asks : s \in Collects} =>
              /\ r.service \in Collects
              /\ IF r.service = GroupValue_Read THEN r.peer = Group /\ At(n) \cap Joined # {}
                 ELSE r.peer = Broadcast

\* What PropertyValue_Read asserts of the answer (EIBEmulatorImpl.cpp:357).
AnswerIsAboutTheItem ==
    \A a \in App :
        Succeeded(a, {"query"}) /\ req[a].service.asks = "PropertyValue_Read" =>
            got[a][1].item = req[a].item

\* m_mutex_objs is always released: every call that has it returns, every turn of
\* the listener ends.
MutexReleased == \A n \in Node : objs[n] # Nobody ~> objs[n] = Nobody

\* A request in the queue of a process that listens, and has no calls of its own to
\* make, is acted on.
RequestServed ==
    \A n \in Node : \A c \in 1..MaxCalls :
        (/\ lst[n] # "off" /\ \A a \in App : AppNode[a] # n
         /\ \E e \in Range(rx[n]) : e.frame.call = c /\ e.frame.type \in RequestTypes)
        ~> ~\E e \in Range(rx[n]) : e.frame.call = c /\ e.frame.type \in RequestTypes

\* Seen from its applications, a call is one step on the device it addresses.
Performed(a) == call[a] # 0 /\ performed[call[a]] # <<>>
Phase(a) ==
    IF pc[a] = "idle" THEN "idle"
    ELSE IF pc[a] # "return" THEN IF Performed(a) THEN "served" ELSE "asked"
    ELSE IF ret[a] = 0 THEN "done"
    ELSE IF got[a] # <<>> THEN "refused"
    ELSE "unknown"
ValueRead(a) == IF Performed(a) /\ ~req[a].writes THEN performed[call[a]][1].val ELSE NoValue

Remote == INSTANCE RemoteCall WITH
    Request <- UNION {Requests[a] : a \in App},
    phase <- [a \in App |-> Phase(a)],
    asked <- req,
    value <- [a \in App |-> ValueRead(a)],
    store <- mem

ImplementsRemoteCall == Remote!Spec
=============================================================================
