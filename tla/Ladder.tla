------------------------------- MODULE Ladder -------------------------------
(***************************************************************************)
(* What a ladder program means.  A rung is built from blocks of contacts:  *)
(* a load opens a block, other contacts join the block opened last, ANB    *)
(* and ORB join the last two, and a coil takes the power of the last block *)
(* and ends it.  A branch point keeps the power of the last block for      *)
(* coils to come.  Every instruction is carried out once, in its turn.     *)
(*                                                                         *)
(* A soft unit has one value, the one a coil gave it last or, before the   *)
(* program meets it, the one the device has; its edges are changes made by *)
(* coils.                                                                  *)
(***************************************************************************)
EXTENDS Naturals, Sequences, SequencesExt

CONSTANTS Unit,      \* soft units
          Kind         \* Kind[u]: the letter its name begins with

VARIABLES program, pos,   \* the program and how many of its clauses are done
          flow,           \* the power of each block of the rung
          branch,         \* the power kept at each branch point
          value, before,  \* the value of each unit and the one before the last coil
          connected,      \* is the program connected to the device?
          device          \* the value of each unit in the device

vars == <<program, pos, flow, branch, value, before, connected, device>>

Clause == [op : STRING, edge : {"open", "closed", "rising", "falling"}, unit : Unit, range : Seq(Unit),
           number : Nat]

\* Counters and timers; the program does not get their value from the device.
Counter == {u \in Unit : Kind[u] \in {"C", "T"}}

Init ==
    /\ program = <<>> /\ pos = 0
    /\ flow = <<>> /\ branch = <<>>
    /\ value = [u \in Unit |-> FALSE] /\ before = value
    /\ connected = FALSE
    /\ device \in [Unit -> BOOLEAN]

\* Does a contact of unit u let the power through?
Closed(edge, u) ==
    CASE edge = "open"   -> value[u]
      [] edge = "closed" -> ~value[u]
      [] edge = "rising" -> value[u] /\ ~before[u]
      [] edge = "falling" -> ~value[u] /\ before[u]

Joins(op, p, q) == CASE op \in {"AND", "ANB"} -> p /\ q
                     [] op \in {"OR", "ORB"} -> p \/ q

Coil(u, v) ==
    /\ value' = [value EXCEPT ![u] = v]
    /\ before' = [before EXCEPT ![u] = value[u]]

Shows(u, v) == device' = IF connected THEN [device EXCEPT ![u] = v] ELSE device

Open(c) ==
    /\ c.op = "LD"
    /\ flow' = Append(flow, Closed(c.edge, c.unit))
    /\ UNCHANGED <<branch, value, before, device>>

Join(c) ==
    /\ c.op \in {"AND", "OR"} /\ flow # <<>>
    /\ flow' = Append(Front(flow), Joins(c.op, Closed(c.edge, c.unit), Last(flow)))
    /\ UNCHANGED <<branch, value, before, device>>

JoinBlocks(c) ==
    /\ c.op \in {"ANB", "ORB"} /\ Len(flow) >= 2
    /\ flow' = Append(Front(Front(flow)), Joins(c.op, Last(flow), Last(Front(flow))))
    /\ UNCHANGED <<branch, value, before, device>>

Invert(c) ==
    /\ c.op = "INV" /\ flow # <<>>
    /\ flow' = Append(Front(flow), ~Last(flow))
    /\ UNCHANGED <<branch, value, before, device>>

\* A coil is not shown to the device.
Out(c) ==
    /\ c.op = "OUT" /\ flow # <<>>
    /\ Coil(c.unit, Last(flow)) /\ flow' = Front(flow)
    /\ UNCHANGED <<branch, device>>

\* SET and RST do not look at the power; the device sees them, those of timers excepted.
SetReset(c) ==
    /\ c.op \in {"SET", "RST"} /\ Kind[c.unit] # "D"
    /\ Coil(c.unit, c.op = "SET")
    /\ IF Kind[c.unit] = "T" THEN UNCHANGED device ELSE Shows(c.unit, c.op = "SET")
    /\ UNCHANGED <<flow, branch>>

Keep(c) ==
    /\ c.op = "MPS" /\ flow # <<>>
    /\ branch' = Append(branch, Last(flow))
    /\ UNCHANGED <<flow, value, before, device>>

Recall(c) ==
    /\ c.op \in {"MRD", "MPP"} /\ branch # <<>>
    /\ flow' = Append(flow, Last(branch))
    /\ branch' = IF c.op = "MPP" THEN Front(branch) ELSE branch
    /\ UNCHANGED <<value, before, device>>

\* The bits of the units of a range, the first the highest.
Number(bits) == FoldLeft(LAMBDA n, b : 2 * n + (IF b THEN 1 ELSE 0), 0, bits)

\* The outcome goes to the unit the clause names and to the device.
Compare(c) ==
    /\ c.op = "CMP"
    /\ LET from == IF connected THEN device ELSE value
           equal == Number([i \in DOMAIN c.range |-> from[c.range[i]]]) = c.number
       IN  Coil(c.unit, equal) /\ Shows(c.unit, equal)
    /\ UNCHANGED <<flow, branch>>

\* Neither a pause nor the reset of a data register has an effect.
Nothing(c) ==
    /\ c.op = "NOP" \/ (c.op = "RST" /\ Kind[c.unit] = "D")
    /\ UNCHANGED <<flow, branch, value, before, device>>

Step ==
    /\ pos < Len(program) /\ pos' = pos + 1
    /\ LET c == program[pos + 1]
       IN  \/ Open(c) \/ Join(c) \/ JoinBlocks(c) \/ Invert(c) \/ Out(c)
           \/ SetReset(c) \/ Keep(c) \/ Recall(c) \/ Compare(c) \/ Nothing(c)
    /\ UNCHANGED <<program, connected>>

\* Another program takes over at the same place; of the units only what the device has
\* remains.
Load ==
    /\ UNCHANGED <<pos, device>>
    /\ flow' = <<>> /\ branch' = <<>>
    /\ program' \in Seq(Clause)
    /\ connected' \in BOOLEAN
    /\ value' = [u \in Unit |-> connected' /\ u \notin Counter /\ device[u]]
    /\ before' = [u \in Unit |-> FALSE]

\* The device changes from the bus; the program sees it in the units it has not yet met.
Environment ==
    /\ UNCHANGED <<program, pos, flow, branch, before, connected>>
    /\ \E u \in Unit, v \in BOOLEAN :
         /\ device' = [device EXCEPT ![u] = v]
         /\ \/ UNCHANGED value
            \/ connected /\ u \notin Counter /\ value' = [value EXCEPT ![u] = v]

Next == Step \/ Load \/ Environment

Spec == Init /\ [][Next]_vars
=============================================================================
