---------------------------- MODULE SendService ----------------------------
(***************************************************************************)
(* What CommBase promises to a thread that sends frames, with the threads, *)
(* locks and events left out: a request joins one queue, the queue's head  *)
(* is attempted on the channel exactly once, in the order of the requests, *)
(* and a synchronous caller is released only after the attempt on its own  *)
(* frame.  CommTx implements this specification.                           *)
(***************************************************************************)
EXTENDS Naturals, Sequences

CONSTANT Callers       \* threads that send frames

VARIABLES queue,       \* requests not yet attempted, oldest first
          wire,        \* requests attempted, in order
          owed         \* owed[c]: the request that synchronous caller c waits for, 0 if none

vars == <<queue, wire, owed>>

Init ==
    /\ queue = <<>>
    /\ wire = <<>>
    /\ owed = [c \in Callers |-> 0]

\* Caller c asks for the transmission of the next request.
Submit(c, sync) ==
    /\ owed[c] = 0
    /\ LET id == Len(queue) + Len(wire) + 1 IN
       /\ queue' = Append(queue, [id |-> id, by |-> c, sync |-> sync])
       /\ owed' = IF sync THEN [owed EXCEPT ![c] = id] ELSE owed
    /\ UNCHANGED wire

\* The oldest request is put on the channel, whatever the channel makes of it.
Attempt ==
    /\ queue # <<>>
    /\ wire' = Append(wire, Head(queue))
    /\ queue' = Tail(queue)
    /\ UNCHANGED owed

\* A synchronous caller is let go once its request has been attempted.
Release(c) ==
    /\ owed[c] # 0
    /\ \E i \in DOMAIN wire : wire[i].id = owed[c]
    /\ owed' = [owed EXCEPT ![c] = 0]
    /\ UNCHANGED <<queue, wire>>

Next ==
    \/ Attempt
    \/ \E c \in Callers : Release(c) \/ \E sync \in BOOLEAN : Submit(c, sync)

Spec == Init /\ [][Next]_vars
=============================================================================
