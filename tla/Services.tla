------------------------------ MODULE Services ------------------------------
(***************************************************************************)
(* The application services of EIBEmulatorImpl as data: for each function  *)
(* of the API, what it sends, which answers it waits for, and what it      *)
(* returns (EIBEmulatorImpl.cpp).  The functions differ in nothing else:   *)
(* all of them lock, set the host address, send, wait and return.          *)
(***************************************************************************)
EXTENDS Integers, Sequences

\* Every list of expected types but the empty one ends in these.
Refusals == {"NACK", "BUSY", "NACKBUSY"}

\* What a function returns for an answer, a refusal, and anything else.  `way' is
\* how it waits: for one long answer, one acknowledgement, all the answers that
\* come before the timeout, no answer, or whatever comes.
Service(way, asks, expects, refused, otherwise) ==
    [way |-> way, asks |-> asks, expects |-> expects, refused |-> refused, otherwise |-> otherwise]

Query(asks, answer, otherwise) == Service("query", asks, {answer} \cup Refusals, otherwise, otherwise)
Order(asks, otherwise) == Service("order", asks, {"ACK"} \cup Refusals, -1, otherwise)
Collect(asks, answer) == Service("collect", asks, {answer} \cup Refusals, -1, -1)
Tell(asks, expects) == Service("tell", asks, expects, 0, 0)

PropertyValue_Read == Query("PropertyValue_Read", "PropertyValue_Response", 1)
PropertyValue_Write == Order("PropertyValue_Write", 1)
Property_Read == Query("Property_Read", "Property_Response", -1)
Property_Write == Order("Property_Write", -1)
Authorize_Query == Query("Authorize_Request", "Authorize_Response", -1)
GroupValue_Read == Collect("GroupValue_Read", "GroupValue_Response")
GroupValue_Write == Tell("GroupValue_Write", {"ACK"} \cup Refusals)
Link_Read == Query("Link_Read", "Link_Response", -1)
Link_Write == Order("Link_Write", -1)
UserMemory_Read == Query("UserMemory_Read", "UserMemory_Response", -1)
UserMemory_Write == Order("UserMemory_Write", -1)
IndividualAddress_Read == Collect("IndividualAddress_Read", "IndividualAddress_Response")
IndividualAddress_Write == Tell("IndividualAddress_Write", {})
SerialNumber_Read == Collect("SerialNumber_Read", "SerialNumber_Response")
SerialNumber_Write == Tell("SerialNumber_Write", {})

\* It throws away what PropertyValue_Write returned.
PropertyValue_Write2 == [PropertyValue_Write EXCEPT !.refused = 0, !.otherwise = 0]

\* The frame of another service, sent raw: the types follow from the frame, and the
\* first frame that is let through is the answer.
Send_Rawdate(service) == [service EXCEPT !.way = "raw", !.refused = 0, !.otherwise = 3]

\* Not a request: Listen_Sync, which times out with 74.
Listen_Sync == Service("listen", "none", {}, 74, 74)

\* The functions of the API: nothing else is asked for.
Queries == {PropertyValue_Read, Property_Read, Authorize_Query, Link_Read, UserMemory_Read}
Orders == {PropertyValue_Write, Property_Write, Link_Write, UserMemory_Write}
Collects == {GroupValue_Read, IndividualAddress_Read, SerialNumber_Read}
Tells == {GroupValue_Write, IndividualAddress_Write, SerialNumber_Write}
API ==
    LET services == Queries \cup Orders \cup Collects \cup Tells
    IN  services \cup {Send_Rawdate(s) : s \in services} \cup {PropertyValue_Write2, Listen_Sync}

\* The types a listener takes: the APDUs that have an answer of their own.
RequestTypes ==
    {"PropertyValue_Read", "PropertyValue_Write", "Property_Read", "Property_Write",
     "Authorize_Request", "GroupValue_Read", "GroupValue_Write", "Link_Read", "Link_Write",
     "UserMemory_Read", "UserMemory_Write", "IndividualAddress_Read", "IndividualAddress_Write",
     "SerialNumber_Read", "SerialNumber_Write"}

\* Does a call of the service wait, and does it go on after an answer?
Waits(service) == service.way \in {"query", "order", "collect", "raw"}
KeepsWaiting_Never(service) == FALSE \* mutant of KeepsWaiting: the first answer ends it
KeepsWaiting(service) == service.way = "collect"

\* The types of frame it lets through; {} lets all of them through.
Lets(service, type) == service.expects = {} \/ type \in service.expects

\* Mutant of Result: a read takes any frame for its answer.
Result_Anything(service, types) ==
    IF service.way = "tell" THEN 0
    ELSE IF types = <<>> THEN service.otherwise
    ELSE IF service.way \in {"raw", "collect", "listen", "query"} THEN 0
    ELSE CASE types[1] = "ACK" -> 0
           [] types[1] = "NACK" -> service.refused
           [] OTHER -> service.otherwise

\* What a call returns, given the types of the frames it was handed.
Result(service, types) ==
    IF service.way = "tell" THEN 0
    ELSE IF types = <<>> THEN service.otherwise
    ELSE IF service.way \in {"raw", "collect", "listen"} THEN 0
    ELSE CASE types[1] = "ACK" -> IF service.way = "order" THEN 0 ELSE service.otherwise
           [] types[1] = "NACK" -> service.refused
           [] types[1] \in Refusals \ {"NACK"} -> service.otherwise
           [] OTHER -> IF service.way = "query" THEN 0 ELSE service.otherwise
=============================================================================
