------------------------------- MODULE MCFxVm -------------------------------
(* FxVm on small programs: every Regular sequence of up to MaxLen clauses   *)
(* of an alphabet, and a few longer programs with branch points, counters,  *)
(* comparisons and mistakes.                                                *)
EXTENDS FxVm, TLC

CONSTANTS x, x1, y, m, t, d, MaxLen

MCUnit == {x, y, m, t, d}
MCKind == (x :> "X") @@ (y :> "Y") @@ (m :> "M") @@ (t :> "T") @@ (d :> "D")
MCMapped == {x, y, t}

\* Each unit in a byte of its own, or a second input in the byte of the first.
Apart == [u \in MCUnit |-> {}]
Packed == [u \in {x, x1} |-> IF u = x THEN {x1} ELSE {}]
MCInputs == {x, x1}
MCInputKind == (x :> "X") @@ (x1 :> "X")

On(op, edge, u) == [op |-> op, edge |-> edge, unit |-> u, range |-> <<>>, number |-> 0]
Bare(op) == On(op, "open", x)
Cmp(n, r, u) == [op |-> "CMP", edge |-> "open", unit |-> u, range |-> r, number |-> n]

Alphabet == {On("LD", "open", x), On("LD", "rising", y), On("AND", "closed", y), On("OR", "falling", x),
             Bare("ANB"), On("OUT", "open", y)}

Longer == {
    <<On("LD", "open", x), Bare("MPS"), On("AND", "open", y), On("OUT", "open", y), Bare("MRD"),
      Bare("INV"), On("OUT", "open", y), Bare("MPP"), On("OUT", "open", m)>>,
    <<On("LD", "closed", x), Bare("MPS"), On("OUT", "open", y), Bare("MPP"), On("OUT", "open", y)>>,
    <<On("LD", "open", x), On("OUT", "open", t), On("LD", "open", t), On("RST", "open", t), On("OUT", "open", y)>>,
    <<On("SET", "open", y), Bare("NOP"), Cmp(2, <<x, y>>, y), On("LD", "falling", y), On("RST", "open", y)>>,
    <<On("LD", "falling", x), On("LD", "open", y), Bare("ORB"), On("AND", "falling", x), On("OUT", "open", y)>>,
    <<Cmp(1, <<x>>, x), Bare("NOP")>>, <<Cmp(1, <<m>>, m), On("LD", "open", m), On("OUT", "open", y)>>,
    <<On("RST", "open", d), On("LD", "open", x), Bare("MOV"), On("OUT", "open", y)>>,
    <<On("LD", "open", x), On("OUT", "open", y), Bare("END")>>, <<On("LD", "open", x), On("OUT", "open", x)>>}

MCContact == {<<On("LD", "open", x)>>, <<On("LD", "open", x1)>>}

MCFile == {p \in BoundedSeq(Alphabet, MaxLen) \cup Longer : Regular(p)}
=============================================================================
