------------------------------ MODULE MCCommRx ------------------------------
(* Instances of CommRx: an application thread alone, or with a listener and a *)
(* peeker of the application's that removes the frames it likes.              *)
EXTENDS CommRx

CONSTANTS api, listener, peeker, dontcare, dev, host

Api == {api}
ApiAndListener == {api, listener}
Peeker1 == {peeker}
NoPeeker == {}

\* The device's reply, and a request to a local device.
Reply == [type |-> "response", from |-> dev, to |-> host, short |-> FALSE]
Other == [type |-> "request", from |-> host, to |-> dev, short |-> FALSE]
ReplyAndOther == {Reply, Other}

\* A point-to-point read, a collecting read of anything, and what listeners ask for.
Read == [sends |-> TRUE, ex |-> FALSE, types |-> {"response"}, from |-> dev, to |-> host,
         waiting |-> 2]
CollectAny == [sends |-> TRUE, ex |-> TRUE, types |-> {}, from |-> dontcare, to |-> host,
            waiting |-> 1]
Listen == [sends |-> FALSE, ex |-> FALSE, types |-> {"request"}, from |-> dontcare,
           to |-> dontcare, waiting |-> 1]
ListenForEver == [sends |-> FALSE, ex |-> FALSE, types |-> {}, from |-> dontcare, to |-> dontcare,
                  waiting |-> MinusOne]

AllRequests == [r \in ApiAndListener |-> IF r = api THEN {Read, CollectAny} ELSE {Listen}]
CollectRequests == [r \in Api |-> {Read, CollectAny}]
LiveRequests == [r \in Api |-> {Read, Listen, ListenForEver}]
=============================================================================
