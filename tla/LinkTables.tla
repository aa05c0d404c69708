----------------------------- MODULE LinkTables -----------------------------
(***************************************************************************)
(* The group tables of one device (DeviceImpl_TXT): its group addresses,   *)
(* its links, each a pair of a group object and an index into the          *)
(* addresses, and the values of its group objects.  Requests from the bus  *)
(* reach them one at a time through the listener, which holds              *)
(* m_mutex_objs; applications reach them through set_gobj_value_byindex,   *)
(* which takes no lock, so that its steps come between the listener's.     *)
(* Both write a group with APDU_GroupValue_Write::Response: look up the    *)
(* address, take the number of links, then go over the links by index.     *)
(*                                                                         *)
(* Indexes count from 0, as in the code; an address is one value, and an   *)
(* object's value another, whatever its length.  The answers to            *)
(* GroupValue_Read and Link_Read are operators: they change nothing.       *)
(***************************************************************************)
EXTENDS Naturals, Sequences, FiniteSets

CONSTANTS Object,      \* numbers a request may name
          Present,     \* those of the group objects the device has
          GAddr,       \* group addresses
          Value,       \* values of group objects
          NoValue, NoObject,
          Listener,    \* the thread that serves requests from the bus
          Setters,     \* application threads in set_gobj_value_byindex
          PageSize,    \* addresses in one answer to Link_Read: 6
          StartMod,    \* values of start_index: 16
          MaxLinks,    \* bound on the links of the device
          Overlap      \* may Link_Write remove a link while an application goes over the links?

ASSUME ObjectAssumption == Present \subseteq Object /\ NoObject \notin Object
ASSUME ValueAssumption == NoValue \notin Value
ASSUME ThreadAssumption == Listener \notin Setters
ASSUME BoundAssumption == MaxLinks \in Nat /\ PageSize \in Nat /\ StartMod \in Nat \ {0}
ASSUME OverlapAssumption == Overlap \in BOOLEAN

Thread == {Listener} \cup Setters

VARIABLES gaddrs,      \* the table of group addresses
          links,       \* the table of links: [gobj, gaddr]
          val,         \* val[o]: the value of group object o
          pc,          \* pc[t]: how far thread t is
          gobj,        \* gobj[t]: the object it sets, or whose link it removes
          data,        \* data[t]: the value it writes
          send,        \* send[t]: send_frame_on_bus
          todo,        \* todo[t]: addresses it has still to write, with their place in its buffer
          index,       \* index[t]: gaddr_index of the one it writes
          at, end      \* at[t], end[t]: i and link_count of its loop over the links

threadVars == <<pc, gobj, data, send, todo, index, at, end>>
vars == <<gaddrs, links, val, pc, gobj, data, send, todo, index, at, end>>

Link == [gobj : Object, gaddr : Nat]
Place == [place : Nat, addr : GAddr]

Init ==
    /\ gaddrs = <<>> /\ links = <<>>
    /\ val \in [Present -> Value]
    /\ pc = [t \in Thread |-> "idle"]
    /\ gobj = [t \in Thread |-> NoObject]
    /\ data = [t \in Thread |-> NoValue]
    /\ send = [t \in Thread |-> FALSE]
    /\ todo = [t \in Thread |-> {}]
    /\ index = [t \in Thread |-> 0]
    /\ at = [t \in Thread |-> 0]
    /\ end = [t \in Thread |-> 0]

-----------------------------------------------------------------------------
(* The tables.                                                             *)

\* GetGroupAddrByIndex and GetLinkByIndex, inside the tables.
GetGroupAddrByIndex(i) == gaddrs[i + 1]
GetLinkByIndex(i) == links[i + 1]
Address(i) == GetGroupAddrByIndex(GetLinkByIndex(i).gaddr)
LinkIndexes == {i \in 0..Len(links) : i < Len(links)}

Indexes(g) == {i \in 0..Len(gaddrs) : i < Len(gaddrs) /\ GetGroupAddrByIndex(i) = g}
First(indexes) == CHOOSE i \in indexes : \A j \in indexes : i <= j

\* The first link after the one removed takes its place, and so on (memmove).
RemoveLinkByIndex(i) ==
    [j \in 1..(Len(links) - 1) |-> IF j <= i THEN links[j] ELSE links[j + 1]]

\* Mutant of AddLink: the test is dropped.
AddLink_NoTest(o, i) == Append(links, [gobj |-> o, gaddr |-> i])

\* AppendElemValue, unless there is such a link.
AddLink(o, i) ==
    LET link == [gobj |-> o, gaddr |-> i] IN
    IF \E j \in LinkIndexes : GetLinkByIndex(j) = link THEN links ELSE Append(links, link)

\* The addresses of object o in the order of its links.
GetGaddrsOfGobjs(o) ==
    {[place |-> i, addr |-> Address(i)] : i \in {j \in LinkIndexes : GetLinkByIndex(j).gobj = o}}

\* The answer to GroupValue_Read: the value of the object of the first link, if
\* the device has that object.
GroupValue_Response(g) ==
    LET of == {i \in LinkIndexes : Indexes(g) # {} /\ GetLinkByIndex(i).gaddr = First(Indexes(g))}
        o == GetLinkByIndex(First(of)).gobj
    IN IF of # {} /\ o \in Present THEN val[o] ELSE NoValue

\* Mutant of Link_Response: the object is not compared.
Link_Response_AnyObject(o, start) ==
    {Address(i) : i \in {j \in LinkIndexes : GetLinkByIndex(j).gaddr >= start}}

\* The answer to Link_Read: at most PageSize addresses of the object, in the
\* order of its links, whose index in the table of addresses is not below start.
Link_Response(o, start) ==
    LET match == {i \in LinkIndexes : /\ GetLinkByIndex(i).gobj = o
                                      /\ GetLinkByIndex(i).gaddr >= start % StartMod}
    IN {Address(i) : i \in {j \in match : Cardinality({k \in match : k < j}) < PageSize}}

\* What DeviceImpl_TXT::Init demands of the two tables in a file: no address and
\* no link twice, and every link an object and an address of the device.
CheckValidity ==
    /\ \A g \in GAddr : Cardinality(Indexes(g)) <= 1
    /\ \A i, j \in LinkIndexes : GetLinkByIndex(i) = GetLinkByIndex(j) => i = j
    /\ \A i \in LinkIndexes : /\ GetLinkByIndex(i).gobj \in Present
                             /\ GetLinkByIndex(i).gaddr < Len(gaddrs)

-----------------------------------------------------------------------------
(* Link_Write.                                                             *)

\* The last bit of flags is 1: an address the device does not have yet gets the
\* next index.
Link_Write_Add(o, g) ==
    /\ pc[Listener] = "idle" /\ Len(links) < MaxLinks
    /\ IF Indexes(g) = {}
       THEN gaddrs' = Append(gaddrs, g) /\ links' = AddLink(o, Len(gaddrs))
       ELSE links' = AddLink(o, First(Indexes(g))) /\ UNCHANGED gaddrs
    /\ UNCHANGED <<val, threadVars>>

\* The last bit of flags is 0: remove a link of o with address g and begin again,
\* until there is none.
Link_Write_Remove(o, g) ==
    /\ pc[Listener] = "idle"
    /\ pc' = [pc EXCEPT ![Listener] = "remove"]
    /\ gobj' = [gobj EXCEPT ![Listener] = o]
    /\ todo' = [todo EXCEPT ![Listener] = {[place |-> 0, addr |-> g]}]
    /\ UNCHANGED <<gaddrs, links, val, data, send, index, at, end>>

ToRemove == {i \in LinkIndexes : /\ GetLinkByIndex(i).gobj = gobj[Listener]
                                 /\ \E p \in todo[Listener] : Address(i) = p.addr}

RemoveOne ==
    /\ pc[Listener] = "remove" /\ ToRemove # {}
    /\ Overlap \/ \A s \in Setters : pc[s] # "walk"
    /\ links' = RemoveLinkByIndex(First(ToRemove))
    /\ UNCHANGED <<gaddrs, val, threadVars>>

RemoveDone ==
    /\ pc[Listener] = "remove" /\ ToRemove = {}
    /\ pc' = [pc EXCEPT ![Listener] = "idle"]
    /\ gobj' = [gobj EXCEPT ![Listener] = NoObject]
    /\ todo' = [todo EXCEPT ![Listener] = {}]
    /\ UNCHANGED <<gaddrs, links, val, data, send, index, at, end>>

-----------------------------------------------------------------------------
(* Writing a group.                                                        *)

\* GroupValue_Write comes from the bus.
GroupValue_Write(g, v) ==
    /\ pc[Listener] = "idle"
    /\ pc' = [pc EXCEPT ![Listener] = "next"]
    /\ data' = [data EXCEPT ![Listener] = v]
    /\ todo' = [todo EXCEPT ![Listener] = {[place |-> 0, addr |-> g]}]
    /\ UNCHANGED <<gaddrs, links, val, gobj, send, index, at, end>>

\* set_gobj_value_byindex(o, v, only_send_when_changed): the old value is read ...
SetBegin(s, o, v, only_send_when_changed) ==
    /\ pc[s] = "idle" /\ o \in Present
    /\ pc' = [pc EXCEPT ![s] = "set"]
    /\ gobj' = [gobj EXCEPT ![s] = o]
    /\ data' = [data EXCEPT ![s] = v]
    /\ send' = [send EXCEPT ![s] = ~only_send_when_changed \/ val[o] # v]
    /\ UNCHANGED <<gaddrs, links, val, todo, index, at, end>>

\* ... the new one is written ...
SetOwn(s) ==
    /\ pc[s] = "set"
    /\ val' = [val EXCEPT ![gobj[s]] = data[s]]
    /\ IF send[s]
       THEN pc' = [pc EXCEPT ![s] = "look"] /\ UNCHANGED <<gobj, data>>
       ELSE /\ pc' = [pc EXCEPT ![s] = "idle"]
            /\ gobj' = [gobj EXCEPT ![s] = NoObject]
            /\ data' = [data EXCEPT ![s] = NoValue]
    /\ UNCHANGED <<gaddrs, links, send, todo, index, at, end>>

\* ... and the addresses of the object are copied, to be written one by one.
SetLook(s) ==
    /\ pc[s] = "look"
    /\ pc' = [pc EXCEPT ![s] = "next"]
    /\ gobj' = [gobj EXCEPT ![s] = NoObject]
    /\ todo' = [todo EXCEPT ![s] = GetGaddrsOfGobjs(gobj[s])]
    /\ UNCHANGED <<gaddrs, links, val, data, send, index, at, end>>

\* The next address: its index and the number of links.  A device without the
\* address is passed over.
WalkBegin(t) ==
    /\ pc[t] = "next"
    /\ \E p \in todo[t] :
        /\ \A q \in todo[t] : p.place <= q.place
        /\ todo' = [todo EXCEPT ![t] = @ \ {p}]
        /\ IF Indexes(p.addr) = {}
           THEN UNCHANGED <<pc, index, at, end>>
           ELSE /\ pc' = [pc EXCEPT ![t] = "walk"]
                /\ index' = [index EXCEPT ![t] = First(Indexes(p.addr))]
                /\ at' = [at EXCEPT ![t] = 0]
                /\ end' = [end EXCEPT ![t] = Len(links)]
    /\ UNCHANGED <<gaddrs, links, val, gobj, data, send>>

\* Link at[t] is read and its object written if it is one of the group and exists.
\* Beyond the end of the table, after a removal, GetLinkByIndex leaves the two
\* variables as they are, uninitialized: anything may be in them.
WalkLink(t) ==
    /\ pc[t] = "walk" /\ at[t] < end[t]
    /\ \E link \in IF at[t] < Len(links) THEN {GetLinkByIndex(at[t])}
                   ELSE [gobj : Object, gaddr : {index[t], index[t] + 1}] :
        val' = IF link.gaddr = index[t] /\ link.gobj \in Present
               THEN [val EXCEPT ![link.gobj] = data[t]] ELSE val
    /\ at' = [at EXCEPT ![t] = @ + 1]
    /\ UNCHANGED <<gaddrs, links, pc, gobj, data, send, todo, index, end>>

\* Mutant of WalkEnd: one link too few.
WalkEnd_Early(t) ==
    /\ pc[t] = "walk" /\ at[t] + 1 >= end[t]
    /\ pc' = [pc EXCEPT ![t] = "next"]
    /\ index' = [index EXCEPT ![t] = 0]
    /\ at' = [at EXCEPT ![t] = 0]
    /\ end' = [end EXCEPT ![t] = 0]
    /\ UNCHANGED <<gaddrs, links, val, gobj, data, send, todo>>

\* The loop is over; an application's loop goes on with GroupValue_Write on the bus.
WalkEnd(t) ==
    /\ pc[t] = "walk" /\ at[t] >= end[t]
    /\ pc' = [pc EXCEPT ![t] = "next"]
    /\ index' = [index EXCEPT ![t] = 0]
    /\ at' = [at EXCEPT ![t] = 0]
    /\ end' = [end EXCEPT ![t] = 0]
    /\ UNCHANGED <<gaddrs, links, val, gobj, data, send, todo>>

\* No address is left.
WriteDone(t) ==
    /\ pc[t] = "next" /\ todo[t] = {}
    /\ pc' = [pc EXCEPT ![t] = "idle"]
    /\ data' = [data EXCEPT ![t] = NoValue]
    /\ UNCHANGED <<gaddrs, links, val, gobj, send, todo, index, at, end>>

-----------------------------------------------------------------------------
Requests ==
    \/ \E o \in Object, g \in GAddr : Link_Write_Add(o, g) \/ Link_Write_Remove(o, g)
    \/ \E g \in GAddr, v \in Value : GroupValue_Write(g, v)

Setting(s) ==
    \/ \E o \in Object, v \in Value, only \in BOOLEAN : SetBegin(s, o, v, only)
    \/ SetOwn(s)
    \/ SetLook(s)

Next ==
    \/ Requests
    \/ RemoveOne
    \/ RemoveDone
    \/ \E s \in Setters : Setting(s)
    \/ \E t \in Thread : WalkBegin(t) \/ WalkLink(t) \/ WalkEnd(t) \/ WriteDone(t)

Spec == Init /\ [][Next]_vars

-----------------------------------------------------------------------------
(* Properties.                                                             *)

TypeOK ==
    /\ gaddrs \in Seq(GAddr) /\ links \in Seq(Link)
    /\ val \in [Present -> Value]
    /\ pc \in [Thread -> {"idle", "remove", "set", "look", "next", "walk"}]
    /\ gobj \in [Thread -> Object \cup {NoObject}]
    /\ data \in [Thread -> Value \cup {NoValue}]
    /\ send \in [Thread -> BOOLEAN]
    /\ todo \in [Thread -> SUBSET Place]
    /\ index \in [Thread -> Nat] /\ at \in [Thread -> Nat] /\ end \in [Thread -> Nat]

\* An address has one index and a link is in the table once.
NoRepeats ==
    /\ \A i, j \in 1..Len(gaddrs) : gaddrs[i] = gaddrs[j] => i = j
    /\ \A i, j \in 1..Len(links) : links[i] = links[j] => i = j

\* Every link names an address the device has: Link_Write compares it with
\* memcmp and GetGroupAddrByIndex gives NULL outside the table.
LinksInRange == \A i \in 1..Len(links) : links[i].gaddr < Len(gaddrs)

\* Which variables a thread uses where.
ThreadOK == \A t \in Thread :
    /\ pc[t] \in {"idle", "remove"} <=> data[t] = NoValue
    /\ pc[t] = "remove" => t = Listener /\ \A p, q \in todo[t] : p = q
    /\ pc[t] \in {"set", "look"} => t # Listener /\ gobj[t] \in Present
    /\ pc[t] \in {"idle", "set", "look"} => todo[t] = {}
    /\ \A p, q \in todo[t] : p.addr = q.addr \/ p.place = q.place => p = q
    /\ pc[t] = "walk" /\ ~Overlap => end[t] <= Len(links)
    /\ pc[t] = "walk" => at[t] <= end[t]

\* The tables are sound whatever the requests, and the inductive invariant.
IInv == TypeOK /\ NoRepeats /\ LinksInRange /\ ThreadOK

\* The pairs the tables stand for.
Linked == {<<GetLinkByIndex(i).gobj, Address(i)>> : i \in LinkIndexes}

\* A read of the tables agrees with the relation: GroupValue_Read is answered with
\* the value of an object of the group, and Link_Read with addresses of the object,
\* all of them when they fit and none is skipped (apdu.cpp:957-973, 1255-1284).
AnswersAgree ==
    /\ \A g \in GAddr : GroupValue_Response(g) # NoValue =>
          \E o \in Present : <<o, g>> \in Linked /\ GroupValue_Response(g) = val[o]
    /\ \A o \in Object :
          LET own == {g \in GAddr : <<o, g>> \in Linked} IN
          /\ \A start \in 0..(StartMod - 1) : Link_Response(o, start) \subseteq own
          /\ Cardinality(own) <= PageSize => Link_Response(o, 0) = own

\* Uninit writes the tables to the file of the device (WriteBackFile) while no
\* request is being served, and the next Init must take it: Init stops the
\* program when CheckValidity fails (DeviceImpl_TXT.cpp:92-96, 2121-2141).
FileReadable == pc[Listener] = "idle" => CheckValidity

-----------------------------------------------------------------------------
(* The tables implement the relation.                                      *)

\* Objects a walk has still to write.
Remaining(t) ==
    IF pc[t] = "walk"
    THEN {GetLinkByIndex(i).gobj : i \in {j \in LinkIndexes :
             at[t] <= j /\ j < end[t] /\ GetLinkByIndex(j).gaddr = index[t]}} \cap Present
    ELSE {}

AbsData == [t \in Thread |-> IF pc[t] = "set" THEN NoValue ELSE data[t]]
AbsOwn == [t \in Thread |-> IF pc[t] = "look" THEN gobj[t] ELSE NoObject]
AbsDue == [t \in Thread |-> IF pc[t] = "remove" THEN {} ELSE {p.addr : p \in todo[t]}]
AbsLeft == [t \in Thread |-> Remaining(t)]

Relation == INSTANCE LinkRelation WITH
    linked <- Linked, data <- AbsData, own <- AbsOwn, due <- AbsDue, left <- AbsLeft

\* Writing a group writes every object linked to it when the write begins, and
\* each once; nothing else changes a value but setting the object (apdu.cpp:1105-
\* 1140, EIBEmulatorImpl.cpp:2013-2066).
ImplementsLinkRelation == Relation!Spec
=============================================================================
