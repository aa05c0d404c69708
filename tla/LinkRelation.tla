---------------------------- MODULE LinkRelation ----------------------------
(***************************************************************************)
(* What the group tables of a device stand for: a relation between group   *)
(* objects and group addresses, and a value for each object.  Writing a    *)
(* group writes every object that is linked to the address when the write  *)
(* begins, each of them once; setting an object writes it and then the     *)
(* groups it is linked to.                                                 *)
(***************************************************************************)
CONSTANTS Object,     \* numbers of group objects
          Present,    \* those the device has
          GAddr,      \* group addresses
          Value,      \* values of group objects
          NoValue, NoObject,
          Thread      \* threads that write

VARIABLES linked,     \* pairs of an object and an address
          val,        \* val[o]: the value of object o
          data,       \* data[t]: the value t is writing
          own,        \* own[t]: the object t has set and whose groups are still to be found
          due,        \* due[t]: the groups t has still to write
          left        \* left[t]: the objects it has still to write for the present group

vars == <<linked, val, data, own, due, left>>

Init ==
    /\ linked = {}
    /\ val \in [Present -> Value]
    /\ data = [t \in Thread |-> NoValue]
    /\ own = [t \in Thread |-> NoObject]
    /\ due = [t \in Thread |-> {}]
    /\ left = [t \in Thread |-> {}]

Groups(o) == {g \in GAddr : <<o, g>> \in linked}
Members(g) == {o \in Present : <<o, g>> \in linked}

Link(o, g) ==
    /\ linked' = linked \cup {<<o, g>>}
    /\ UNCHANGED <<val, data, own, due, left>>

Unlink(o, g) ==
    /\ linked' = linked \ {<<o, g>>}
    /\ UNCHANGED <<val, data, own, due, left>>

\* A request to write group g arrives.
Receive(t, g, v) ==
    /\ data[t] = NoValue
    /\ data' = [data EXCEPT ![t] = v]
    /\ due' = [due EXCEPT ![t] = {g}]
    /\ UNCHANGED <<linked, val, own, left>>

\* An application sets an object, and its groups with it unless that is not wanted.
Set(t, o, v, spread) ==
    /\ data[t] = NoValue
    /\ o \in Present
    /\ val' = [val EXCEPT ![o] = v]
    /\ IF spread THEN /\ data' = [data EXCEPT ![t] = v]
                      /\ own' = [own EXCEPT ![t] = o]
                 ELSE UNCHANGED <<data, own>>
    /\ UNCHANGED <<linked, due, left>>

FindGroups(t) ==
    /\ own[t] # NoObject
    /\ due' = [due EXCEPT ![t] = Groups(own[t])]
    /\ own' = [own EXCEPT ![t] = NoObject]
    /\ UNCHANGED <<linked, val, data, left>>

BeginGroup(t, g) ==
    /\ g \in due[t] /\ left[t] = {}
    /\ due' = [due EXCEPT ![t] = @ \ {g}]
    /\ left' = [left EXCEPT ![t] = Members(g)]
    /\ UNCHANGED <<linked, val, data, own>>

WriteOne(t, o) ==
    /\ o \in left[t]
    /\ val' = [val EXCEPT ![o] = data[t]]
    /\ left' = [left EXCEPT ![t] = @ \ {o}]
    /\ UNCHANGED <<linked, data, own, due>>

Finish(t) ==
    /\ data[t] # NoValue /\ own[t] = NoObject /\ due[t] = {} /\ left[t] = {}
    /\ data' = [data EXCEPT ![t] = NoValue]
    /\ UNCHANGED <<linked, val, own, due, left>>

Next ==
    \/ \E o \in Object, g \in GAddr : Link(o, g) \/ Unlink(o, g)
    \/ \E t \in Thread :
         \/ \E g \in GAddr, v \in Value : Receive(t, g, v)
         \/ \E o \in Object, v \in Value, spread \in BOOLEAN : Set(t, o, v, spread)
         \/ FindGroups(t)
         \/ \E g \in GAddr : BeginGroup(t, g)
         \/ \E o \in Object : WriteOne(t, o)
         \/ Finish(t)

Spec == Init /\ [][Next]_vars
=============================================================================
