----------------------------- MODULE MCExchange -----------------------------
(* Two or three processes; process k owns devices 2k-1, an ordinary one, and *)
(* 2k, its device ffffffff.                                                 *)
EXTENDS Exchange

CONSTANTS p1, p2, p3, a1, a2, nobody, norequest, noitem, novalue, noaddress, i1, i2, v1, v2,
          one, two, three, far1, far2, far3, everyone, group

MCDevice == {2 * k - 1 : k \in 1..Cardinality(Node)} \cup {2 * k : k \in 1..Cardinality(Node)}
MCHome == [d \in MCDevice |-> IF d <= 2 THEN p1 ELSE IF d <= 4 THEN p2 ELSE p3]
MCFirstAddress ==
    [d \in MCDevice |-> IF d = 1 THEN one ELSE IF d = 3 THEN two ELSE IF d = 5 THEN three
                        ELSE noaddress]
MCAddress == {one, two, three, far1, far2, far3}
MCPresent == {<<1, i1>>, <<3, i1>>, <<5, i1>>} \cap (MCDevice \X {i1, i2})
MCJoined == {1, 3, 5} \cap MCDevice
MCEnabled == {3, 5} \cap MCDevice
MCValue == {v1, v2}

Request(service, writes, device, peer, item, val) ==
    [service |-> service, writes |-> writes, device |-> device, peer |-> peer,
     item |-> item, val |-> val]
Read(service, d, peer, item) == Request(service, FALSE, d, peer, item, novalue)
Write(service, d, peer, item, val) == Request(service, TRUE, d, peer, item, val)
Listen == Read(Listen_Sync, 2, noaddress, noitem)

\* Who hears whom: a line between two processes, a bus, or a centre
\* and two others.
Line == [n \in {p1, p2} |-> {p1, p2} \ {n}]
Bus == [n \in {p1, p2, p3} |-> {p1, p2, p3} \ {n}]
Star == [n \in {p1, p2, p3} |-> IF n = p1 THEN {p2, p3} ELSE {p1}]

\* Both threads call from process p1, or one from each of two.
OneClient == [a \in {a1, a2} |-> p1]
TwoClients == [a \in {a1, a2} |-> IF a = a1 THEN p1 ELSE p2]
HostOne == [a \in {a1, a2} |-> IF a = a1 THEN far1 ELSE far2]
Single == [a \in {a1} |-> p1]
HostSingle == [a \in {a1} |-> far1]

\* Calls of one device.
CallRequests ==
    (a1 :> {Read(PropertyValue_Read, 3, two, i1), Write(PropertyValue_Write, 3, two, i1, v2),
            Read(PropertyValue_Read, 3, two, i2)}
     @@ a2 :> {Read(UserMemory_Read, 3, two, i1), Write(Link_Write, 3, two, i2, v2),
            Write(Property_Write, 3, two, i2, v2)})

\* Calls of a group and of everybody, and a missing item; the listener of the peer
\* is Listen_Sync in a2.
ManyRequests ==
    (a1 :> {Read(GroupValue_Read, 3, group, i1), Write(GroupValue_Write, 3, group, i1, v2),
            Write(SerialNumber_Write, 3, everyone, i1, three),
            Read(IndividualAddress_Read, 3, everyone, i1), Read(Property_Read, 3, two, i2),
            Write(PropertyValue_Write2, 3, two, i2, v2),
            Write(Send_Rawdate(IndividualAddress_Write), 3, everyone, i1, three)}
     @@ a2 :> {Listen})

\* Each thread reads of the other's device.
MutualRequests ==
    (a1 :> {Read(Link_Read, 3, two, i1)} @@ a2 :> {Read(Authorize_Query, 1, one, i1)})

\* One thread asks for one item, then for another.
LateRequests == [a \in {a1} |-> {Read(PropertyValue_Read, 3, two, i) : i \in {i1, i2}}]

\* One thread asks two devices.
PeerRequests ==
    [a \in {a1} |-> {Read(Authorize_Query, 3, two, i1), Read(Authorize_Query, 5, three, i1)}]

\* Two processes write to a third over a bus.
BusRequests ==
    (a1 :> {Write(Property_Write, 5, three, i1, v2)} @@ a2 :> {Write(PropertyValue_Write, 5, three, i1, v2)})

\* The hypotheses of the theorems hold where runs check what they state.
ASSUME PeersAreOwned == OwnedPeers(Queries \cup Orders)
ASSUME CallsAreOfOne ==
    Requests = CallRequests =>
        OneCaller(p1) /\ InReach(p1) /\ OneDeviceEach /\ NoneIgnored /\ ~Late
ASSUME CallsAreOfMany == Requests = ManyRequests => OneCollector(p1)
=============================================================================
