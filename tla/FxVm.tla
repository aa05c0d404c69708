-------------------------------- MODULE FxVm --------------------------------
(***************************************************************************)
(* The machine that runs ladder programs (fx_vm): fxvm_load_file, which    *)
(* parses a file into clauses, and fxvm_run_step, which gives the next     *)
(* clause to the Executor, a machine with two stacks (m_stack, m_stack4m)  *)
(* and a map of the soft units the program has met.  The soft units of a   *)
(* connected program stand for interface objects of a device, which the    *)
(* bus changes too.                                                        *)
(*                                                                         *)
(* A word of the file is a clause, or part of one, that the lexer knows or *)
(* does not; numbers of soft units are the members of Unit; a value of a   *)
(* counter or timer is its lowest bit, since nothing makes one count.      *)
(*                                                                         *)
(* The program can end at an instruction: report_err_immed leaves it, and  *)
(* so may what the language leaves undefined, the value GetSoftUnit does   *)
(* not return for a unit it has met, the top of an empty stack, a clause   *)
(* past the last, and the assertions of a debug build.                     *)
(***************************************************************************)
EXTENDS Naturals, Sequences, SequencesExt

CONSTANTS Unit,        \* soft units a file may name
          Kind,        \* Kind[u]: X, Y, M, S, G (one bit), C, T (counters), D (register)
          Mapped,      \* units the device has an interface object for
          Behind,      \* Behind[u]: units whose bits come after that of u in the same byte of it
          File,        \* files: sequences of clauses
          MaxLoads     \* bound: files loaded

ASSUME UnitAssumption ==
    /\ Kind \in [Unit -> {"X", "Y", "M", "S", "G", "C", "T", "D"}]
    /\ Mapped \subseteq Unit
    /\ Behind \in [Unit -> SUBSET Mapped]

\* A clause with the words it needs, the others filled with anything.
Clause == [op : STRING, edge : {"open", "closed", "rising", "falling"}, unit : Unit, range : Seq(Unit),
           number : Nat]

ASSUME FileAssumption == File \subseteq Seq(Clause) /\ MaxLoads \in Nat

VARIABLES clauses,     \* the clauses collected by CheckSyntax
          step_no,     \* the static variable of fxvm_run_step
          vm,          \* the Executor, its soft units and those of the device
          shape,       \* history: what the stack holds, see After
          loads        \* files loaded so far

vars == <<clauses, step_no, vm, shape, loads>>

\* The shape of empty stacks.
Empty == [depth |-> 0, live |-> <<>>, kept |-> 0, ends |-> FALSE, right |-> TRUE]

Init ==
    /\ clauses = <<>> /\ step_no = 0 /\ loads = 0 /\ shape = Empty
    /\ vm \in [stack : {<<>>}, stack4m : {<<>>}, unit : {<<>>}, connected : {FALSE},
               device : [Mapped -> BOOLEAN], alive : {TRUE}]

-----------------------------------------------------------------------------
(* Soft units.                                                             *)

\* A mutant: the old value is kept after it has been replaced.
SetValue_SavesNew(m, u, v) == [m EXCEPT !.unit[u] = [now |-> v, saved |-> v]]

\* SetValue keeps the value it replaces.
SetValue(m, u, v) == [m EXCEPT !.unit[u] = [now |-> v, saved |-> @.now]]

\* SetState writes the interface object too.
SetState(m, u, v) ==
    LET n == SetValue(m, u, v) IN IF m.connected THEN [n EXCEPT !.device[u] = v] ELSE n

\* GetElemValues moves the byte down to the bit of the unit, and leaves the bits after it there
\* for GetState and OnConnectedEvent, which take what is not 0 for TRUE.
ReadSoftUnit(m, u) == \E w \in Behind[u] \cup {u} : m.device[w]

GetState(m, u) == IF m.connected THEN ReadSoftUnit(m, u) ELSE m.unit[u].now

\* Reset of a timer leaves the interface object alone, that of a counter does not.
Reset(m, u) == IF Kind[u] = "T" THEN SetValue(m, u, FALSE) ELSE SetState(m, u, FALSE)

\* The constructor zeroes the unit; connecting a unit of one bit reads the interface object.
NewUnit(m, u) ==
    [now |-> m.connected /\ u \in Mapped /\ Kind[u] \notin {"C", "T"} /\ ReadSoftUnit(m, u), saved |-> FALSE]

Made(m, u) ==
    [m EXCEPT !.unit = [w \in DOMAIN m.unit \cup {u} |-> IF w = u THEN NewUnit(m, u) ELSE m.unit[w]]]

Dead(m) == [m EXCEPT !.alive = FALSE]

\* GetSoftUnit: what it may find and leave.  A unit is made when it is first named, and not
\* found if the device lacks it; a unit met before is found by the value a register happens to
\* hold; there is no case for data registers; making a timer destroys copies of it.
GetSoftUnit(m, u) ==
    IF Kind[u] = "D" THEN {[m |-> Dead(m), found |-> FALSE], [m |-> m, found |-> FALSE]}
    ELSE IF u \in DOMAIN m.unit THEN {[m |-> Dead(m), found |-> FALSE], [m |-> m, found |-> TRUE]}
    ELSE {[m |-> Made(m, u), found |-> ~m.connected \/ u \in Mapped]}
         \cup {[m |-> Dead(m), found |-> FALSE] : t \in {"T"} \cap {Kind[u]}}

\* The outcomes of an instruction that does nothing if it does not find its unit.
With(m, u, Do(_)) == {IF g.found THEN Do(g.m) ELSE g.m : g \in GetSoftUnit(m, u)}

-----------------------------------------------------------------------------
(* Instructions: the set of their outcomes.                                *)

Push(m, v) == [m EXCEPT !.stack = Append(@, v)]
Drop(m) == [m EXCEPT !.stack = Front(@)]
Top(m) == Last(m.stack)

Contact(edge, s) ==
    CASE edge = "open"    -> s.now
      [] edge = "closed"  -> ~s.now
      [] edge = "rising"  -> s.now /\ ~s.saved
      [] edge = "falling" -> ~s.now /\ s.saved

\* LD, LDI, LDP, LDF.
Run_LD(m, c) == With(m, c.unit, LAMBDA n : Push(n, Contact(c.edge, n.unit[c.unit])))

\* AND and OR with their variants leave the operand on the stack, under the result.  ANDF
\* asserts that it is ANDP.
Run_AND(m, c) ==
    IF m.stack = <<>> THEN {Dead(m)}
    ELSE With(m, c.unit, LAMBDA n : Push(n, Contact(c.edge, n.unit[c.unit]) /\ Top(n)))
         \cup (IF c.edge = "falling" THEN {Dead(m)} ELSE {})

Run_OR(m, c) ==
    IF m.stack = <<>> THEN {Dead(m)}
    ELSE With(m, c.unit, LAMBDA n : Push(n, Contact(c.edge, n.unit[c.unit]) \/ Top(n)))

Run_ANB(m) ==
    IF Len(m.stack) < 2 THEN {Dead(m)} ELSE {Push(Drop(Drop(m)), Top(m) /\ Top(Drop(m)))}

Run_ORB(m) ==
    IF Len(m.stack) < 2 THEN {Dead(m)} ELSE {Push(Drop(Drop(m)), Top(m) \/ Top(Drop(m)))}

\* A mutant: the top stays on the stack.
Run_OUT_KeepsTop(m, c) ==
    With(m, c.unit, LAMBDA n : IF n.stack = <<>> THEN Dead(n) ELSE SetValue(n, c.unit, Top(n)))

\* Nothing checks the stack before its top is taken.
Run_OUT(m, c) ==
    With(m, c.unit, LAMBDA n : IF n.stack = <<>> THEN Dead(n) ELSE Drop(SetValue(n, c.unit, Top(n))))

Run_SET(m, c) == With(m, c.unit, LAMBDA n : SetState(n, c.unit, TRUE))

Run_RST(m, c) == With(m, c.unit, LAMBDA n : Reset(n, c.unit))

Run_MPS(m) == IF m.stack = <<>> THEN {Dead(m)} ELSE {[m EXCEPT !.stack4m = Append(@, Top(m))]}

\* The top of the working stack is replaced, whatever it is, by that of the other.  MRD checks
\* one stack and MPP the other.
Run_MRD(m) ==
    IF m.stack4m = <<>> \/ m.stack = <<>> THEN {Dead(m)} ELSE {Push(Drop(m), Last(m.stack4m))}

Run_MPP(m) ==
    IF m.stack = <<>> \/ m.stack4m = <<>> THEN {Dead(m)}
    ELSE {[Push(Drop(m), Last(m.stack4m)) EXCEPT !.stack4m = Front(@)]}

Run_INV(m) == IF m.stack = <<>> THEN {Dead(m)} ELSE {Push(m, ~Top(m))}

\* _Run_CMP names the units of its range one after the other in softunit_name, and writes the
\* outcome to the unit named last instead of the one the clause names; without a range the
\* name is what happens to be in memory.
Named(c) == IF c.range = <<>> THEN Unit ELSE {Last(c.range)}

\* _Run_CMP leaves the program if it does not find a unit.
Or_Dies(n, u) == IF ~n.alive THEN {n} ELSE {IF g.found THEN g.m ELSE Dead(g.m) : g \in GetSoftUnit(n, u)}

Compared(n, c) ==
    LET bits == [i \in DOMAIN c.range |-> GetState(n, c.range[i])]
    IN  c.number = FoldLeft(LAMBDA x, b : 2 * x + (IF b THEN 1 ELSE 0), 0, bits)

\* What may be when the first i units of a range have been looked for.
Looked(m, range) ==
    LET S[i \in 0..Len(range)] == IF i = 0 THEN {m} ELSE UNION {Or_Dies(n, range[i]) : n \in S[i - 1]}
    IN  S

Run_CMP(m, c) ==
    UNION {IF ~n.alive THEN {n}
           ELSE IF Kind[c.unit] \notin {"Y", "M", "S"} THEN {Dead(n)}
           ELSE UNION {{IF k.alive THEN SetState(k, u, Compared(n, c)) ELSE k : k \in Or_Dies(n, u)}
                       : u \in Named(c)} : n \in Looked(m, c.range)[Len(c.range)]}

\* _Run_MOV leaves the program if left_width # 0 or left_width # right_width: the width of a
\* destination is never 0, so that one of them always holds.
Run_MOV(m) == {Dead(m)}

Run_NOP(m) == {m}

Run(m, c) ==
    CASE c.op = "LD" -> Run_LD(m, c)
      [] c.op = "AND" -> Run_AND(m, c)
      [] c.op = "OR" -> Run_OR(m, c)
      [] c.op = "ANB" -> Run_ANB(m)
      [] c.op = "ORB" -> Run_ORB(m)
      [] c.op = "OUT" -> Run_OUT(m, c)
      [] c.op = "SET" -> Run_SET(m, c)
      [] c.op = "RST" -> Run_RST(m, c)
      [] c.op = "MPS" -> Run_MPS(m)
      [] c.op = "MRD" -> Run_MRD(m)
      [] c.op = "MPP" -> Run_MPP(m)
      [] c.op = "INV" -> Run_INV(m)
      [] c.op = "NOP" -> Run_NOP(m)
      [] c.op = "CMP" -> Run_CMP(m, c)
      [] c.op = "MOV" -> Run_MOV(m)

-----------------------------------------------------------------------------
(* What the stack holds.  Instructions that leave their operand behind make *)
(* it deeper than the rung has blocks; live lists the places of the blocks. *)

Ready(sh) == sh.live # <<>> /\ Last(sh.live) = sh.depth

Deeper(sh) == [sh EXCEPT !.depth = @ + 1, !.live = Append(@, sh.depth + 1)]

\* Where the blocks are after clause c, whether c is sure to end the program (ends), or to make
\* something of the rung that the ladder does not (right = FALSE).
After(sh, c) ==
    LET none == sh.depth = 0
        with(r, next) == IF r THEN next ELSE [sh EXCEPT !.right = FALSE]
        top == [Deeper(sh) EXCEPT !.live = Append(Front(sh.live), sh.depth + 1)]
        ends == [sh EXCEPT !.ends = TRUE]
    IN  IF sh.ends \/ ~sh.right THEN sh
        ELSE CASE c.op = "LD" -> Deeper(sh)
               [] c.op \in {"AND", "OR", "INV"} -> IF none THEN ends ELSE with(Ready(sh), top)
               [] c.op \in {"ANB", "ORB"} ->
                    IF sh.depth < 2 THEN ends
                    ELSE with(Len(sh.live) > 1 /\ Ready(sh) /\ Last(Front(sh.live)) = sh.depth - 1,
                              [sh EXCEPT !.depth = @ - 1, !.live = Front(@)])
               [] c.op = "OUT" ->
                    IF none THEN ends ELSE with(Ready(sh), [sh EXCEPT !.depth = @ - 1, !.live = Front(@)])
               [] c.op = "MPS" -> IF none THEN ends ELSE with(Ready(sh), [sh EXCEPT !.kept = @ + 1])
               [] c.op \in {"MRD", "MPP"} ->
                    IF none \/ sh.kept = 0 THEN ends
                    ELSE with(~Ready(sh), [sh EXCEPT !.live = Append(@, sh.depth),
                                                     !.kept = IF c.op = "MPP" THEN @ - 1 ELSE @])
               [] c.op = "CMP" -> with(c.range # <<>> /\ Last(c.range) = c.unit, sh)
               [] OTHER -> sh

\* What the stack holds after each clause of p from place s + 1 on, which finds it empty.
Shapes(p, s) ==
    LET sh[i \in 0..Len(p) - s] == IF i = 0 THEN Empty ELSE After(sh[i - 1], p[s + i]) IN sh

\* The programs the machine runs as ladders wherever they are begun: the last of two blocks to
\* join has one contact, a rung has one coil unless branch points keep its power, a comparison
\* names the last unit of its range.
Regular(p) == \A s \in 0..Len(p) : \A i \in 0..Len(p) - s : Shapes(p, s)[i].right
-----------------------------------------------------------------------------
(* Loading and stepping.                                                   *)

Alone == {"ANB", "ORB", "MPS", "MRD", "MPP", "INV", "NOP"}
Block == {"LD", "AND", "OR"}

\* The rules of syntax: which kind of unit an instruction takes.  END is a word but has no rule.
Accepts(c) ==
    \/ c.op \in Alone \cup {"MOV"}
    \/ c.op \in Block /\ Kind[c.unit] # "D"
    \/ c.op = "OUT" /\ Kind[c.unit] \in {"Y", "M", "S", "G", "C", "T"}
    \/ c.op = "SET" /\ Kind[c.unit] \in {"Y", "M", "S"}
    \/ c.op = "RST" /\ Kind[c.unit] \in {"Y", "M", "S", "C", "T", "D"}
    \/ c.op = "CMP" /\ Kind[c.unit] \in {"X", "Y", "M", "S"}

\* The lexer asks the device for each soft unit; those of a range are no words of their own.
Legible(c, connected) ==
    /\ c.op \in Alone \cup Block \cup {"OUT", "SET", "RST", "MOV", "CMP", "END"}
    /\ c.op \in Block \cup {"OUT", "SET", "RST", "CMP"} => ~connected \/ c.unit \in Mapped

\* CheckSyntax hands the clauses over as it goes, so that those before a mistake stay.
Collected(f, connected) ==
    LET mistake == SelectInSeq(f, LAMBDA c : ~Accepts(c))
    IN  IF \E i \in DOMAIN f : ~Legible(f[i], connected) THEN <<>>
        ELSE IF mistake = 0 THEN f ELSE SubSeq(f, 1, mistake - 1)

\* Clear and Connect2SoftDev.
Cleared(m, connected) ==
    [m EXCEPT !.stack = <<>>, !.stack4m = <<>>, !.unit = <<>>, !.connected = connected]

\* fxvm_load_file; step_no is not its business.
Load(f, connected) ==
    /\ vm.alive /\ loads < MaxLoads
    /\ clauses' = Collected(f, connected)
    /\ vm' = Cleared(vm, connected)
    /\ shape' = Empty /\ loads' = loads + 1
    /\ UNCHANGED step_no

\* A mutant: the counter wraps one clause too early, so that the program never ends.
RunStep_WrapsEarly ==
    /\ vm.alive /\ step_no # Len(clauses)
    /\ vm' \in (IF step_no > Len(clauses) THEN {Dead(vm)} ELSE Run(vm, clauses[step_no + 1]))
    /\ step_no' = IF vm'.alive THEN (step_no + 1) % Len(clauses) ELSE step_no
    /\ shape' = IF vm'.alive THEN After(shape, clauses[step_no + 1]) ELSE shape
    /\ UNCHANGED <<clauses, loads>>

\* fxvm_run_step; at the end of the clauses it returns 0 and does nothing.
RunStep ==
    /\ vm.alive /\ step_no # Len(clauses)
    /\ vm' \in (IF step_no > Len(clauses) THEN {Dead(vm)} ELSE Run(vm, clauses[step_no + 1]))
    /\ step_no' = IF vm'.alive THEN (step_no + 1) % (Len(clauses) + 1) ELSE step_no
    /\ shape' = IF vm'.alive THEN After(shape, clauses[step_no + 1]) ELSE shape
    /\ UNCHANGED <<clauses, loads>>

\* An interface object is written by a request from the bus.
BusWrite(u) ==
    /\ vm.alive /\ vm' = [vm EXCEPT !.device[u] = ~@]
    /\ UNCHANGED <<clauses, step_no, shape, loads>>

Next ==
    \/ \E f \in File, connected \in BOOLEAN : Load(f, connected)
    \/ RunStep
    \/ \E u \in Mapped : BusWrite(u)

Spec == Init /\ [][Next]_vars

\* The host keeps calling fxvm_run_step.
FairSpec == Spec /\ WF_vars(RunStep)
-----------------------------------------------------------------------------
(* Properties.                                                             *)

Value(u) ==
    IF u \in DOMAIN vm.unit THEN vm.unit[u].now
    ELSE vm.connected /\ u \in Mapped /\ Kind[u] \notin {"C", "T"} /\ vm.device[u]

Meaning == INSTANCE Ladder WITH
    program <- clauses, pos <- step_no,
    flow <- [i \in DOMAIN shape.live |-> vm.stack[shape.live[i]]], branch <- vm.stack4m,
    value <- [u \in Unit |-> Value(u)],
    before <- [u \in Unit |-> u \in DOMAIN vm.unit /\ vm.unit[u].saved],
    connected <- vm.connected, device <- [u \in Unit |-> u \in Mapped /\ vm.device[u]]

SoftUnit == [now : BOOLEAN, saved : BOOLEAN]
Machine == [stack : Seq(BOOLEAN), stack4m : Seq(BOOLEAN), unit : UNION {[S -> SoftUnit] : S \in SUBSET Unit},
            connected : BOOLEAN, device : [Mapped -> BOOLEAN], alive : BOOLEAN]
Shape == [depth : Nat, live : Seq(Nat), kept : Nat, ends : BOOLEAN, right : BOOLEAN]

\* Types; shape describes the stacks.
TypeOK ==
    /\ clauses \in Seq({c \in Clause : Accepts(c)})
    /\ step_no \in Nat /\ loads \in 0..MaxLoads
    /\ vm \in Machine /\ shape \in Shape
    /\ shape.depth = Len(vm.stack) /\ shape.kept = Len(vm.stack4m) /\ shape.right

\* The blocks of the rung are in places of the stack, one above the other, and a program that has
\* not ended was not bound to.
InPlace(sh) ==
    /\ \A i \in DOMAIN sh.live : sh.live[i] \in 1..sh.depth
    /\ \A i, j \in DOMAIN sh.live : i < j => sh.live[i] < sh.live[j]
    /\ ~sh.ends

\* The stack has the shape that some file, of which the clauses are the beginning, gives it from the
\* place on where it was entered.
Entered ==
    step_no <= Len(clauses) =>
        \E f \in File \cup {<<>>} : \E s \in 0..step_no :
            /\ Len(clauses) <= Len(f) /\ \A k \in DOMAIN clauses : clauses[k] = f[k]
            /\ shape = Shapes(f, s)[step_no - s]

\* The inductive invariant: in a connected program that has not ended, what the clauses name and
\* the units that have been met are in the device.
IInv ==
    /\ TypeOK /\ InPlace(shape) /\ Entered
    /\ \A k \in DOMAIN clauses : Legible(clauses[k], vm.connected)
    /\ vm.alive /\ vm.connected => DOMAIN vm.unit \subseteq Mapped

\* Run_AND and its like leave operands on m_stack, units are read when they are first met and
\* coils are given the old value of their unit to keep: for Regular programs each coil, SET, RST
\* and CMP still gives its unit what the ladder says, each clause is carried out once and in
\* turn, and what an earlier program left cannot be seen (Executor::Run, fxvm_run_step).  This is
\* so for devices whose units do not share bytes: see ReadsTheUnit.
ImplementsLadder == Meaning!Spec

\* A host that keeps calling fxvm_run_step gets to the end of what is loaded, or the program
\* ends: step_no = (step_no + 1) % (step_count + 1) does not begin again before the end.
ReachesEnd == <>[](~vm.alive \/ step_no = Len(clauses))

\* IDevice.h:226-230: ReadSoftUnit gives the value of the unit that is named, which is what the
\* contact that meets the unit first finds.
ReadsTheUnit ==
    [][\A u \in Mapped : vm.connected /\ clauses # <<>> /\ step_no' = 1 /\ vm'.alive
                          /\ clauses[1].op = "LD" /\ clauses[1].unit = u /\ u \notin DOMAIN vm.unit
                          /\ u \in DOMAIN vm'.unit /\ Kind[u] \notin {"C", "T"} =>
           vm'.unit[u].now = vm.device[u]]_vars
=============================================================================
