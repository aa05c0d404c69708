--------------------------- MODULE PropertyStore ---------------------------
(***************************************************************************)
(* A property of an interface object as DeviceImpl_TXT stores it: elements *)
(* of a few bits each, packed one behind the other from the low bits of a  *)
(* block of bytes, which mem_t keeps when it gets shorter.  Reading and    *)
(* writing go by whole bytes, shifts and masks.                            *)
(*                                                                         *)
(* A byte is the set of its bits that are 1, so that &, | and ~ are the    *)
(* operations of sets.  Elements are counted from 1 and at least one is    *)
(* asked for: index 0 and count 0 compute places outside the block.        *)
(***************************************************************************)
EXTENDS Integers, Sequences, SequencesExt

CONSTANTS ByteBits,   \* bits of a byte: 8
          Width,      \* widths of elements
          MaxBits     \* bound: bits of a property

ASSUME StoreAssumption == ByteBits \in Nat \ {0} /\ Width \subseteq Nat \ {0} /\ MaxBits \in Nat

VARIABLES fields,     \* width and count of the elements; width 0 if there is no property
          size,       \* bytes in use
          bytes,      \* the block with its capacity
          elems       \* history: the values, as they were given

vars == <<fields, size, bytes, elems>>

Byte == SUBSET (0..ByteBits - 1)
Zeros(n) == [i \in 1..n |-> {}]

ceil_divide(a, b) == (a + b - 1) \div b

Room(w, n) == ceil_divide(w * n, ByteBits)

\* What the bits of a block are for those who read and write: bit k of its element i.
Element(block, w, i) ==
    {k \in 0..w - 1 : ((i - 1) * w + k) % ByteBits \in block[((i - 1) * w + k) \div ByteBits + 1]}

Elements(block, w, n) == [i \in 1..n |-> Element(block, w, i)]

Init == fields = [width |-> 0, count |-> 0] /\ size = 0 /\ bytes = <<>> /\ elems = <<>>

-----------------------------------------------------------------------------
(* Blocks.                                                                 *)

\* reserve copies the bytes in use to a new block when the old one is too small.
Resized(n) ==
    IF n <= Len(bytes) THEN bytes ELSE SubSeq(bytes, 1, size) \o Zeros(n - size)

\* build_mask_code: the high n bits.
build_mask_code(n) == IF n \in 1..ByteBits THEN ByteBits - n..ByteBits - 1 ELSE {}

\* The bits of a block go down by s, those of a byte that fall out to the byte before.
left_shift_bitstream(block, s) ==
    [i \in DOMAIN block |->
        {b - s : b \in {c \in block[i] : c >= s}}
        \cup IF i = Len(block) THEN {} ELSE {b + ByteBits - s : b \in {c \in block[i + 1] : c < s}}]

\* The places of count elements from start on, in bits and bytes.
Place(start, count) ==
    LET from == (start - 1) * fields.width
        to == from + fields.width * count - 1
    IN  [first |-> from \div ByteBits, last |-> to \div ByteBits, left |-> from % ByteBits,
         right |-> ByteBits - 1 - (to % ByteBits), bits |-> fields.width * count]

Refused == [retcode |-> 1, buff |-> <<>>]

\* A mutant: elements that end in the next byte are given with one byte too many.
GetElemValues_WholeBytes(start, count, room) ==
    LET p == Place(start, count)
        tmp == left_shift_bitstream(SubSeq(bytes, p.first + 1, p.last + 1), p.left)
    IN  IF start + count - 1 > fields.count \/ room * ByteBits < p.bits THEN Refused
        ELSE [retcode |-> 0, buff |-> tmp]

\* GetElemValues into a buffer of room bytes.
GetElemValues(start, count, room) ==
    LET p == Place(start, count)
        n == p.last - p.first + 1
        tmp == left_shift_bitstream(SubSeq(bytes, p.first + 1, p.last + 1), p.left)
        len == IF p.left # 0 /\ n # 1 /\ p.left >= ByteBits - p.right THEN n - 1 ELSE n
    IN  IF start + count - 1 > fields.count \/ room * ByteBits < p.bits THEN Refused
        ELSE [retcode |-> 0, buff |-> SubSeq(tmp, 1, len)]

\* A mutant: bits beyond the last element are not cut off the last byte.
Merged_NoRightMask(block, start, count, buff) ==
    LET p == Place(start, count)
        n == p.last - p.first + 1
        given == SubSeq(buff, 1, ceil_divide(p.bits, ByteBits))
        tmp == left_shift_bitstream(<<{}>> \o given \o Zeros(n - Len(given)), ByteBits - p.left)
        low == 0..ByteBits - 1 \ build_mask_code(ByteBits - p.left)
        high == build_mask_code(p.right)
        kept(i) == (IF i = p.first THEN low ELSE {}) \cup (IF i = p.last THEN high ELSE {})
    IN  [j \in DOMAIN block |->
            IF j - 1 \notin p.first..p.last THEN block[j]
            ELSE (block[j] \cap kept(j - 1))
                 \cup (tmp[j - p.first] \ (IF j - 1 = p.first THEN low ELSE {}))]

\* The block with the elements from buff.  They are shifted up to their place in a copy that has
\* an empty byte in front; the masks keep the bits of the block below and above them.
Merged(block, start, count, buff) ==
    LET p == Place(start, count)
        n == p.last - p.first + 1
        given == SubSeq(buff, 1, ceil_divide(p.bits, ByteBits))
        tmp == left_shift_bitstream(<<{}>> \o given \o Zeros(n - Len(given)), ByteBits - p.left)
        low == 0..ByteBits - 1 \ build_mask_code(ByteBits - p.left)
        high == build_mask_code(p.right)
        kept(i) == (IF i = p.first THEN low ELSE {}) \cup (IF i = p.last THEN high ELSE {})
    IN  [j \in DOMAIN block |->
            IF j - 1 \notin p.first..p.last THEN block[j]
            ELSE (block[j] \cap kept(j - 1)) \cup (tmp[j - p.first] \ kept(j - 1))]

-----------------------------------------------------------------------------
(* Operations.                                                             *)

Fits(w, n) == w * n <= MaxBits

AddPropFields(w, n) ==
    /\ fields.width = 0 /\ Fits(w, n)
    /\ fields' = [width |-> w, count |-> n]
    /\ size' = Room(w, n) /\ bytes' = Zeros(Room(w, n))
    /\ elems' = [i \in 1..n |-> {}]

RemoveIObject ==
    /\ fields.width # 0
    /\ fields' = [width |-> 0, count |-> 0] /\ size' = 0 /\ bytes' = <<>> /\ elems' = <<>>

\* The elements of another width, and those that are new, are what the bits in the block make.
SetPropFields(w, n) ==
    /\ fields.width # 0 /\ Fits(w, n)
    /\ fields' = [width |-> w, count |-> n]
    /\ size' = Room(w, n) /\ bytes' = Resized(Room(w, n))
    /\ elems' = [i \in 1..n |-> IF w = fields.width /\ i <= fields.count THEN elems[i]
                                ELSE Element(bytes', w, i)]

\* The elements in a buffer.
Given(buff, count) == Elements(buff, fields.width, count)

\* SetElemValues, refused if there are fewer elements; a short buffer is refused too.
SetElemValues(start, count, buff) ==
    /\ fields.width # 0 /\ start + count - 1 <= fields.count
    /\ Len(buff) * ByteBits >= fields.width * count
    /\ bytes' = Merged(bytes, start, count, buff)
    /\ elems' = [i \in DOMAIN elems |-> IF i \in start..start + count - 1
                                        THEN Given(buff, count)[i - start + 1] ELSE elems[i]]
    /\ UNCHANGED <<fields, size>>

\* A mutant: the count grows and the block does not.
AppendElemValue_NoResize(buff) ==
    LET n == fields.count + 1
        short == Len(buff) * ByteBits < fields.width
    IN  /\ fields.width # 0 /\ Fits(fields.width, n)
        /\ fields' = [fields EXCEPT !.count = n]
        /\ bytes' = IF short THEN Resized(Room(fields.width, n))
                    ELSE Merged(Resized(Room(fields.width, n)), n, 1, buff)
        /\ elems' = Append(elems, IF short THEN Element(bytes', fields.width, n) ELSE Given(buff, 1)[1])
        /\ UNCHANGED size

\* AppendElemValue: SetElemValues_Ex makes room before it looks at the length of the buffer, so
\* that a refused append leaves an element.
AppendElemValue(buff) ==
    LET n == fields.count + 1
        short == Len(buff) * ByteBits < fields.width
    IN  /\ fields.width # 0 /\ Fits(fields.width, n)
        /\ fields' = [fields EXCEPT !.count = n]
        /\ size' = Room(fields.width, n)
        /\ bytes' = IF short THEN Resized(size') ELSE Merged(Resized(size'), n, 1, buff)
        /\ elems' = Append(elems, IF short THEN Element(bytes', fields.width, n) ELSE Given(buff, 1)[1])

Buffers(bits) == [1..ceil_divide(bits, ByteBits) -> Byte]

Next ==
    \/ \E w \in Width : \E n \in 0..MaxBits \div w : AddPropFields(w, n) \/ SetPropFields(w, n)
    \/ RemoveIObject
    \/ \E start \in 1..fields.count : \E count \in 1..fields.count - start + 1 :
         \E buff \in Buffers(fields.width * count) : SetElemValues(start, count, buff)
    \/ \E buff \in Buffers(fields.width) \cup {<<>>} : AppendElemValue(buff)

Spec == Init /\ [][Next]_vars
-----------------------------------------------------------------------------
(* Properties.                                                             *)

\* Types; the bytes in use hold the elements and no more, and the block has room for them.
TypeOK ==
    /\ fields \in [width : Width \cup {0}, count : Nat]
    /\ size = Room(fields.width, fields.count) /\ size <= Len(bytes)
    /\ bytes \in Seq(Byte)
    /\ elems \in Seq(SUBSET (0..fields.width - 1)) /\ Len(elems) = fields.count

\* Whatever is added, declared anew, shortened and written, in bytes that elements share, each
\* element is what was given last for it (SetElemValues_Ex, SetPropFields, mem_t::resize).
StoredAsGiven == Elements(bytes, fields.width, fields.count) = elems

\* GetElemValues refuses what there is not and a buffer that is too short; what it gives begins
\* with the elements asked for, aligned to the first bit, and has no byte more than they need.
ReadsTheElements ==
    \A start \in 1..fields.count + 1, count \in 1..fields.count + 1, room \in 0..size :
        LET r == GetElemValues(start, count, room)
            bits == fields.width * count
        IN  fields.width # 0 =>
              /\ r.retcode = 0 <=> start + count - 1 <= fields.count /\ bits <= room * ByteBits
              /\ r.retcode = 0 =>
                   /\ Len(r.buff) = ceil_divide(bits, ByteBits)
                   /\ Elements(r.buff, fields.width, count) = SubSeq(elems, start, start + count - 1)
=============================================================================
