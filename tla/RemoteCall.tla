----------------------------- MODULE RemoteCall -----------------------------
(***************************************************************************)
(* What the calls of EIBEmulatorImpl that address one device promise to the*)
(* applications: a call takes effect at most once and only while it is in  *)
(* progress; it says so (done) only if it did, a read with the value the   *)
(* device had at that moment; it says that the peer refused only if it did *)
(* not; and otherwise it does not know.                                    *)
(***************************************************************************)
CONSTANTS App,       \* threads that call
          Request,   \* what they may ask for: records [writes, device, item, val, ...]
          NoRequest,
          Value, NoValue

VARIABLES phase,     \* phase[a]: how far the call of a is
          asked,     \* asked[a]: its request
          value,     \* value[a]: what it read
          store      \* store[d][i]: what device d holds as item i

vars == <<phase, asked, value, store>>

Phases == {"idle", "asked", "served", "done", "refused", "unknown"}

Init ==
    /\ phase = [a \in App |-> "idle"]
    /\ asked = [a \in App |-> NoRequest]
    /\ value = [a \in App |-> NoValue]
    /\ \A d \in DOMAIN store : \A i \in DOMAIN store[d] : store[d][i] \in Value

Ask(a, request) ==
    /\ phase[a] = "idle"
    /\ phase' = [phase EXCEPT ![a] = "asked"]
    /\ asked' = [asked EXCEPT ![a] = request]
    /\ UNCHANGED <<value, store>>

\* The device does what it is asked for.
Serve(a) ==
    /\ phase[a] = "asked"
    /\ phase' = [phase EXCEPT ![a] = "served"]
    /\ LET r == asked[a] IN
       IF r.writes
       THEN store' = [store EXCEPT ![r.device][r.item] = r.val] /\ UNCHANGED value
       ELSE value' = [value EXCEPT ![a] = store[r.device][r.item]] /\ UNCHANGED store
    /\ UNCHANGED asked

Answer(a) ==
    /\ \/ phase[a] = "served" /\ phase' = [phase EXCEPT ![a] = "done"]
       \/ phase[a] = "asked" /\ phase' = [phase EXCEPT ![a] = "refused"]
       \/ phase[a] \in {"asked", "served"} /\ phase' = [phase EXCEPT ![a] = "unknown"]
    /\ UNCHANGED <<asked, value, store>>

Return(a) ==
    /\ phase[a] \in {"done", "refused", "unknown"}
    /\ phase' = [phase EXCEPT ![a] = "idle"]
    /\ asked' = [asked EXCEPT ![a] = NoRequest]
    /\ value' = [value EXCEPT ![a] = NoValue]
    /\ UNCHANGED store

Next == \E a \in App :
    \/ \E request \in Request : Ask(a, request)
    \/ Serve(a) \/ Answer(a) \/ Return(a)

Spec == Init /\ [][Next]_vars
=============================================================================
