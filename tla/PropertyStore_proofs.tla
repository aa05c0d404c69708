------------------------ MODULE PropertyStore_proofs ------------------------
(***************************************************************************)
(* PropertyStore, for bytes of any number of bits, elements of any width   *)
(* and properties of any size: whatever is declared, appended and written, *)
(* each element is what was given last for it, and what is read is the     *)
(* elements asked for.                                                     *)
(*                                                                         *)
(* The bits of a block are numbered from the low bit of its first byte;    *)
(* each operation on blocks is described by what it does to bit p.  The    *)
(* operations move bytes, shift and mask; that they move elements is a     *)
(* matter of quotients and remainders.                                     *)
(***************************************************************************)
EXTENDS PropertyStore, ListLemmas

-----------------------------------------------------------------------------
(* Quotients and remainders.                                               *)

LEMMA Quotient ==
    ASSUME NEW b \in Nat \ {0}, NEW p \in Nat
    PROVE  p \div b \in Nat /\ p % b \in 0..b - 1 /\ p = b * (p \div b) + (p % b)
<1>1. p = b * (p \div b) + (p % b)
  OBVIOUS
<1>2. p % b \in 0..b - 1
  OBVIOUS
<1>3. p \div b \in Int
  OBVIOUS
<1>4. ~(p \div b < 0)
  <2>. SUFFICES ASSUME p \div b < 0 PROVE FALSE
    OBVIOUS
  <2>1. b * (p \div b) <= -b
    BY <1>3
  <2>. QED BY <1>1, <1>2, <2>1
<1>. QED BY <1>1, <1>2, <1>3, <1>4

LEMMA Quotients ==
    ASSUME NEW b \in Nat \ {0}, NEW q \in Nat, NEW r \in 0..b - 1
    PROVE  b * q + r \in Nat /\ (b * q + r) \div b = q /\ (b * q + r) % b = r
<1>1. b * q + r \in Nat
  OBVIOUS
<1>2. (b * q + r) \div b = q
  OBVIOUS
<1>3. (b * q + r) % b = r
  OBVIOUS
<1>. QED BY <1>1, <1>2, <1>3

\* A place in an earlier byte is before the first place of a later one.
LEMMA Earlier ==
    ASSUME NEW b \in Nat \ {0}, NEW q \in Nat, NEW t \in Nat, q < t
    PROVE  b * q + b <= b * t
OBVIOUS

\* ceil_divide gives the bytes that are needed.
LEMMA CeilDivide ==
    ASSUME NEW a \in Nat
    PROVE  LET n == ceil_divide(a, ByteBits) IN
           n \in Nat /\ a <= ByteBits * n /\ ByteBits * n < a + ByteBits
<1>1. ByteBits \in Nat \ {0}
  BY StoreAssumption
<1>. DEFINE p == a + ByteBits - 1
<1>2. p \in Nat
  BY <1>1
<1>. HIDE DEF p
<1>3. p \div ByteBits \in Nat /\ p % ByteBits \in 0..ByteBits - 1
      /\ p = ByteBits * (p \div ByteBits) + (p % ByteBits)
  BY <1>1, <1>2, Quotient
<1>4. a <= ByteBits * (p \div ByteBits) /\ ByteBits * (p \div ByteBits) < a + ByteBits
  BY <1>1, <1>3 DEF p
<1>. QED BY <1>3, <1>4 DEF ceil_divide, p

\* ... and no number but that one will do.
LEMMA CeilIs ==
    ASSUME NEW a \in Nat, NEW n \in Nat, a <= ByteBits * n, ByteBits * n < a + ByteBits
    PROVE  ceil_divide(a, ByteBits) = n
<1>. DEFINE c == ceil_divide(a, ByteBits)
<1>1. ByteBits \in Nat \ {0}
  BY StoreAssumption
<1>2. c \in Nat /\ a <= ByteBits * c /\ ByteBits * c < a + ByteBits
  BY CeilDivide
<1>. HIDE DEF c
<1>3. ~(c < n)
  BY <1>1, <1>2, Earlier
<1>4. ~(n < c)
  BY <1>1, <1>2, Earlier
<1>. QED BY <1>2, <1>3, <1>4 DEF c

\* An element has its bits among those of the elements up to it, behind those before it.
LEMMA ElementPlace ==
    ASSUME NEW w \in Nat \ {0}, NEW i \in Nat \ {0}, NEW k \in 0..w - 1
    PROVE  /\ (i - 1) * w + k \in Nat
           /\ \A n \in Nat : i <= n => (i - 1) * w + k < w * n
           /\ \A n \in Nat : n < i => w * n <= (i - 1) * w + k
<1>1. (i - 1) * w + k \in Nat
  OBVIOUS
<1>2. ASSUME NEW n \in Nat, i <= n PROVE (i - 1) * w + k < w * n
  BY <1>2
<1>3. ASSUME NEW n \in Nat, n < i PROVE w * n <= (i - 1) * w + k
  BY <1>3
<1>. QED BY <1>1, <1>2, <1>3

-----------------------------------------------------------------------------
(* Blocks by their bits.                                                   *)

Bit(block, p) == p % ByteBits \in block[p \div ByteBits + 1]

LEMMA ElementBits ==
    ASSUME NEW block, NEW w, NEW i
    PROVE  Element(block, w, i) = {k \in 0..w - 1 : Bit(block, (i - 1) * w + k)}
BY DEF Element, Bit

\* Bit p is in byte q, at place r.
LEMMA Place1 ==
    ASSUME NEW p \in Nat
    PROVE  \E q \in Nat, r \in 0..ByteBits - 1 :
             /\ p = ByteBits * q + r /\ p \div ByteBits = q /\ p % ByteBits = r
             /\ \A block : Bit(block, p) <=> r \in block[q + 1]
             /\ \A n \in Nat : p < ByteBits * n <=> q < n
<1>. DEFINE q == p \div ByteBits
            r == p % ByteBits
<1>1. ByteBits \in Nat \ {0}
  BY StoreAssumption
<1>2. q \in Nat /\ r \in 0..ByteBits - 1 /\ p = ByteBits * q + r
  BY <1>1, Quotient
<1>3. \A block : Bit(block, p) <=> r \in block[q + 1]
  BY DEF Bit
<1>. HIDE DEF q, r
<1>4. ASSUME NEW n \in Nat PROVE p < ByteBits * n <=> q < n
  <2>1. q < n => p < ByteBits * n
    BY <1>1, <1>2, Earlier
  <2>2. n < q => ByteBits * n <= p
    BY <1>1, <1>2, Earlier
  <2>3. q = n => ByteBits * n <= p
    BY <1>1, <1>2
  <2>. QED BY <1>1, <1>2, <2>1, <2>2, <2>3
<1>. QED BY <1>2, <1>3, <1>4 DEF q, r

\* A bit that is elsewhere in the block: r places further on.
LEMMA Further ==
    ASSUME NEW q \in Nat, NEW r \in 0..ByteBits - 1, NEW s \in 0..ByteBits, NEW block
    PROVE  /\ r + s < ByteBits => (Bit(block, ByteBits * q + r + s) <=> r + s \in block[q + 1])
           /\ r + s >= ByteBits =>
                (Bit(block, ByteBits * q + r + s) <=> r + s - ByteBits \in block[q + 2])
<1>1. ByteBits \in Nat \ {0}
  BY StoreAssumption
<1>2. CASE r + s < ByteBits
  <2>1. r + s \in 0..ByteBits - 1 /\ ByteBits * q + r + s = ByteBits * q + (r + s)
    BY <1>1, <1>2
  <2>2. Bit(block, ByteBits * q + (r + s)) <=> r + s \in block[q + 1]
    BY <1>1, <2>1, Quotients DEF Bit
  <2>. QED BY <1>1, <1>2, <2>1, <2>2
<1>3. CASE r + s >= ByteBits
  <2>. DEFINE t == r + s - ByteBits
  <2>1. t \in 0..ByteBits - 1 /\ ByteBits * q + r + s = ByteBits * (q + 1) + t /\ q + 1 \in Nat
        /\ q + 1 + 1 = q + 2
    BY <1>1, <1>3
  <2>. HIDE DEF t
  <2>2. Bit(block, ByteBits * (q + 1) + t) <=> t \in block[q + 1 + 1]
    BY <1>1, <2>1, Quotients DEF Bit
  <2>3. Bit(block, ByteBits * q + r + s) <=> t \in block[q + 2]
    BY <2>1, <2>2
  <2>. QED BY <1>1, <1>3, <2>3 DEF t
<1>. QED BY <1>1, <1>2, <1>3

\* left_shift_bitstream takes bit p from s places further on; what lies beyond the block is 0.
LEMMA Shifted ==
    ASSUME NEW block \in Seq(Byte), NEW s \in 0..ByteBits
    PROVE  LET t == left_shift_bitstream(block, s) IN
           /\ t \in Seq(Byte) /\ Len(t) = Len(block)
           /\ \A p \in Nat : p < ByteBits * Len(block) =>
                (Bit(t, p) <=> p + s < ByteBits * Len(block) /\ Bit(block, p + s))
<1>. DEFINE t == left_shift_bitstream(block, s)
            here(i) == {b - s : b \in {c \in block[i] : c >= s}}
            next(i) == IF i = Len(block) THEN {} ELSE {b + ByteBits - s : b \in {c \in block[i + 1] : c < s}}
<1>1. ByteBits \in Nat \ {0}
  BY StoreAssumption
<1>2. /\ DOMAIN block = 1..Len(block) /\ Len(block) \in Nat
      /\ \A i \in 1..Len(block) : block[i] \in SUBSET (0..ByteBits - 1)
  BY LenProperties DEF Byte
<1>0. Len(block) \in Nat
  BY <1>2
<1>3. t = [i \in 1..Len(block) |-> here(i) \cup next(i)]
  BY <1>2 DEF left_shift_bitstream
<1>. HIDE DEF t
<1>4. \A i \in 1..Len(block) : here(i) \subseteq 0..ByteBits - 1
  BY <1>1, <1>2
<1>5. \A i \in 1..Len(block) : next(i) \subseteq 0..ByteBits - 1
  <2>. SUFFICES ASSUME NEW i \in 1..Len(block), i # Len(block)
                PROVE  next(i) \subseteq 0..ByteBits - 1
    OBVIOUS
  <2>1. i + 1 \in 1..Len(block)
    BY <1>0
  <2>2. block[i + 1] \subseteq 0..ByteBits - 1
    BY <1>2, <2>1
  <2>3. \A b \in block[i + 1] : b < s => b + ByteBits - s \in 0..ByteBits - 1
    BY <1>1, <2>2
  <2>. QED BY <2>3
<1>. HIDE DEF here, next
<1>6. t \in [1..Len(block) -> Byte]
  BY <1>3, <1>4, <1>5 DEF Byte
<1>7. t \in Seq(Byte) /\ Len(t) = Len(block)
  BY <1>2, <1>6, SeqDef, LenProperties
<1>8. ASSUME NEW p \in Nat, p < ByteBits * Len(block)
      PROVE  Bit(t, p) <=> p + s < ByteBits * Len(block) /\ Bit(block, p + s)
  <2>1. PICK q \in Nat, r \in 0..ByteBits - 1 :
          p = ByteBits * q + r /\ (Bit(t, p) <=> r \in t[q + 1]) /\ q < Len(block)
    BY <1>2, <1>8, Place1
  <2>2. q + 1 \in 1..Len(block)
    BY <1>2, <2>1
  <2>3. Bit(t, p) <=> r \in here(q + 1) \/ r \in next(q + 1)
    BY <1>3, <2>1, <2>2
  <2>4. CASE r + s < ByteBits
    <3>1. Bit(block, p + s) <=> r + s \in block[q + 1]
      BY <1>1, <2>1, <2>4, Further
    <3>2. p + s < ByteBits * Len(block)
      <4>1. ByteBits * q + ByteBits <= ByteBits * Len(block)
        BY <1>1, <1>2, <2>1, Earlier
      <4>. QED BY <1>1, <1>2, <2>1, <2>4, <4>1
    <3>3. r \notin next(q + 1)
      <4>1. ASSUME NEW b \in block[q + 1 + 1], q + 1 # Len(block), r = b + ByteBits - s PROVE FALSE
        <5>1. q + 1 + 1 \in 1..Len(block)
          BY <1>0, <2>2, <4>1
        <5>2. b \in 0..ByteBits - 1
          BY <1>2, <4>1, <5>1
        <5>. QED BY <1>1, <2>4, <4>1, <5>2
      <4>. QED BY <4>1 DEF next
    <3>4. r \in here(q + 1) <=> r + s \in block[q + 1]
      <4>1. r \in here(q + 1) => r + s \in block[q + 1]
        BY <1>1, <1>2, <2>2 DEF here
      <4>2. ASSUME r + s \in block[q + 1] PROVE r \in here(q + 1)
        <5>1. r + s >= s /\ r = (r + s) - s
          BY <1>1
        <5>. QED BY <4>2, <5>1 DEF here
      <4>. QED BY <4>1, <4>2
    <3>. QED BY <2>3, <3>1, <3>2, <3>3, <3>4
  <2>5. CASE r + s >= ByteBits
    <3>1. Bit(block, p + s) <=> r + s - ByteBits \in block[q + 2]
      BY <1>1, <2>1, <2>5, Further
    <3>2. p + s < ByteBits * Len(block) <=> q + 1 # Len(block)
      <4>1. r + s - ByteBits \in 0..ByteBits - 1 /\ p + s = ByteBits * (q + 1) + (r + s - ByteBits)
        BY <1>1, <2>1, <2>5
      <4>2. q + 1 < Len(block) => ByteBits * (q + 1) + ByteBits <= ByteBits * Len(block)
        BY <1>0, <1>1, Earlier
      <4>3. q + 1 = Len(block) => ByteBits * (q + 1) = ByteBits * Len(block)
        OBVIOUS
      <4>4. q + 1 < Len(block) \/ q + 1 = Len(block)
        BY <1>0, <2>1
      <4>. QED BY <1>0, <1>1, <4>1, <4>2, <4>3, <4>4
    <3>3. r \notin here(q + 1)
      BY <1>1, <1>2, <2>2, <2>5 DEF here
    <3>4. q + 1 # Len(block) => (r \in next(q + 1) <=> r + s - ByteBits \in block[q + 2])
      <4>. SUFFICES ASSUME q + 1 # Len(block)
                    PROVE  r \in next(q + 1) <=> r + s - ByteBits \in block[q + 2]
        OBVIOUS
      <4>1. q + 2 \in 1..Len(block) /\ q + 1 + 1 = q + 2
        BY <1>0, <2>2
      <4>2. \A b \in block[q + 2] : r = b + ByteBits - s <=> b = r + s - ByteBits
        <5>1. block[q + 2] \subseteq 0..ByteBits - 1
          BY <1>2, <4>1
        <5>. QED BY <1>1, <5>1
      <4>3. r + s - ByteBits < s
        BY <1>1
      <4>. QED BY <4>1, <4>2, <4>3 DEF next
    <3>5. q + 1 = Len(block) => r \notin next(q + 1)
      BY DEF next
    <3>. QED BY <2>3, <3>1, <3>2, <3>3, <3>4, <3>5
  <2>. QED BY <1>1, <2>4, <2>5
<1>. QED BY <1>7, <1>8 DEF t

-----------------------------------------------------------------------------
(* Places of elements, and what is written there.                          *)

\* Elements begin at place left of byte first and end below the high right bits of byte last.
LEMMA Placed ==
    ASSUME fields.width \in Nat \ {0}, NEW start \in Nat \ {0}, NEW count \in Nat \ {0}
    PROVE  LET p == Place(start, count)
               bits == fields.width * count
               from == (start - 1) * fields.width
           IN  /\ p.bits = bits /\ bits \in Nat \ {0} /\ from \in Nat
               /\ p.first \in Nat /\ p.last \in Nat /\ p.first <= p.last
               /\ p.left \in 0..ByteBits - 1 /\ p.right \in 0..ByteBits - 1
               /\ from = ByteBits * p.first + p.left
               /\ from + bits = ByteBits * p.last + ByteBits - p.right
               /\ ByteBits * (p.last - p.first + 1) = p.left + bits + p.right
<1>. DEFINE w == fields.width
            from == (start - 1) * w
            bits == w * count
            to == from + bits - 1
<1>1. ByteBits \in Nat \ {0}
  BY StoreAssumption
<1>2. from \in Nat
  OBVIOUS
<1>3. bits \in Nat \ {0}
  OBVIOUS
<1>4. /\ Place(start, count).first = from \div ByteBits /\ Place(start, count).left = from % ByteBits
      /\ Place(start, count).last = to \div ByteBits
      /\ Place(start, count).right = ByteBits - 1 - (to % ByteBits)
      /\ Place(start, count).bits = bits
  BY DEF Place
<1>. HIDE DEF bits, from
<1>5. to \in Nat
  BY <1>2, <1>3
<1>. HIDE DEF to
<1>. DEFINE first == from \div ByteBits
            left == from % ByteBits
            last == to \div ByteBits
            over == to % ByteBits
<1>6. /\ first \in Nat /\ left \in 0..ByteBits - 1 /\ from = ByteBits * first + left
      /\ last \in Nat /\ over \in 0..ByteBits - 1 /\ to = ByteBits * last + over
  BY <1>1, <1>2, <1>5, Quotient
<1>. HIDE DEF first, left, last, over
<1>7. first <= last
  <2>1. last < first => ByteBits * last + ByteBits <= ByteBits * first
    BY <1>1, <1>6, Earlier
  <2>2. from <= to
    BY <1>2, <1>3 DEF to
  <2>. QED BY <1>1, <1>6, <2>1, <2>2
<1>8. /\ from + bits = ByteBits * last + ByteBits - (ByteBits - 1 - over)
      /\ ByteBits * (last - first + 1) = left + bits + (ByteBits - 1 - over)
  BY <1>1, <1>2, <1>3, <1>6 DEF to
<1>9. ByteBits - 1 - over \in 0..ByteBits - 1
  BY <1>1, <1>6
<1>. QED BY <1>2, <1>3, <1>4, <1>6, <1>7, <1>8, <1>9 DEF bits, from, first, left, last, over

LEMMA ZeroBytes ==
    ASSUME NEW n \in Nat
    PROVE  /\ Zeros(n) \in Seq(Byte) /\ Len(Zeros(n)) = n
           /\ \A i \in 1..n : Zeros(n)[i] = {}
<1>1. Zeros(n) \in [1..n -> Byte]
  BY DEF Zeros, Byte
<1>. QED BY <1>1, SeqDef, LenProperties DEF Zeros

\* The masks cut the bits below the first and above the last off.
LEMMA Masks ==
    ASSUME NEW left \in 0..ByteBits - 1, NEW right \in 0..ByteBits - 1
    PROVE  /\ (0..ByteBits - 1) \ build_mask_code(ByteBits - left) = {r \in 0..ByteBits - 1 : r < left}
           /\ build_mask_code(right) = {r \in 0..ByteBits - 1 : ByteBits - right <= r}
<1>1. ByteBits \in Nat \ {0}
  BY StoreAssumption
<1>2. build_mask_code(ByteBits - left) = left..ByteBits - 1
  BY <1>1 DEF build_mask_code
<1>3. (0..ByteBits - 1) \ (left..ByteBits - 1) = {r \in 0..ByteBits - 1 : r < left}
  BY <1>1
<1>4. build_mask_code(right) = {r \in 0..ByteBits - 1 : ByteBits - right <= r}
  BY <1>1 DEF build_mask_code
<1>. QED BY <1>2, <1>3, <1>4

\* The copy with an empty byte in front: n + 1 bytes, the bits given from the second on.
LEMMA Padded ==
    ASSUME NEW buff \in Seq(Byte), NEW bits \in Nat \ {0}, NEW n \in Nat,
           bits <= ByteBits * Len(buff), bits <= ByteBits * n
    PROVE  LET given == SubSeq(buff, 1, ceil_divide(bits, ByteBits))
               t == <<{}>> \o given \o Zeros(n - Len(given))
           IN  /\ t \in Seq(Byte) /\ Len(t) = n + 1
               /\ \A p \in Nat : p < bits => (Bit(t, ByteBits + p) <=> Bit(buff, p))
<1>. DEFINE g == ceil_divide(bits, ByteBits)
            given == SubSeq(buff, 1, g)
            t == <<{}>> \o given \o Zeros(n - Len(given))
<1>1. ByteBits \in Nat \ {0} /\ Len(buff) \in Nat
  BY StoreAssumption, LenProperties
<1>2. g \in Nat /\ bits <= ByteBits * g /\ ByteBits * g < bits + ByteBits
  BY CeilDivide
<1>. HIDE DEF g
<1>3. g <= n /\ g <= Len(buff)
  BY <1>1, <1>2, Earlier
<1>4. /\ given \in Seq(Byte) /\ Len(given) = g
      /\ \A i \in 1..g : given[i] = buff[i]
  <2>1. \A i \in 1..g : buff[i] \in Byte
    BY <1>1, <1>2, <1>3, ElementOfSeq
  <2>. QED BY <1>2, <2>1, SubSeqProperties
<1>. HIDE DEF given
<1>5. n - g \in Nat
  BY <1>2, <1>3
<1>6. /\ Zeros(n - g) \in Seq(Byte) /\ Len(Zeros(n - g)) = n - g
      /\ \A i \in 1..n - g : Zeros(n - g)[i] = {}
  BY <1>5, ZeroBytes
<1>. DEFINE e == <<{}>>
<1>7. e \in Seq(Byte) /\ Len(e) = 1
  BY DEF Byte
<1>. HIDE DEF e
<1>8. /\ e \o given \in Seq(Byte) /\ Len(e \o given) = 1 + g
      /\ \A i \in 1..1 + g : (e \o given)[i] = IF i <= 1 THEN e[i] ELSE given[i - 1]
  <2>1. /\ e \o given \in Seq(Byte) /\ Len(e \o given) = Len(e) + Len(given)
        /\ \A i \in 1..Len(e) + Len(given) :
             (e \o given)[i] = IF i <= Len(e) THEN e[i] ELSE given[i - Len(e)]
    BY <1>4, <1>7, ConcatProperties
  <2>. QED BY <1>4, <1>7, <2>1
<1>. DEFINE u == e \o given
<1>. HIDE DEF u
<1>9. /\ u \o Zeros(n - g) \in Seq(Byte) /\ Len(u \o Zeros(n - g)) = 1 + g + (n - g)
      /\ \A i \in 1..1 + g + (n - g) :
           (u \o Zeros(n - g))[i] = IF i <= 1 + g THEN u[i] ELSE Zeros(n - g)[i - (1 + g)]
  <2>. DEFINE z == Zeros(n - g)
  <2>1. z \in Seq(Byte) /\ Len(z) = n - g /\ u \in Seq(Byte) /\ Len(u) = 1 + g
    BY <1>6, <1>8 DEF u
  <2>. HIDE DEF z
  <2>2. /\ u \o z \in Seq(Byte) /\ Len(u \o z) = Len(u) + Len(z)
        /\ \A i \in 1..Len(u) + Len(z) :
             (u \o z)[i] = IF i <= Len(u) THEN u[i] ELSE z[i - Len(u)]
    BY <2>1, ConcatProperties
  <2>. QED BY <2>1, <2>2 DEF z
<1>10. t = u \o Zeros(n - g)
  BY <1>4 DEF u, e
<1>11. t \in Seq(Byte) /\ Len(t) = n + 1
  <2>1. 1 + g + (n - g) = n + 1
    BY <1>2
  <2>. QED BY <1>9, <1>10, <2>1
<1>. HIDE DEF t
<1>12. \A i \in 1..g : t[i + 1] = buff[i]
  <2>. SUFFICES ASSUME NEW i \in 1..g PROVE t[i + 1] = buff[i]
    OBVIOUS
  <2>1. i + 1 \in 1..1 + g /\ i + 1 \in 1..1 + g + (n - g) /\ ~(i + 1 <= 1) /\ i + 1 - 1 = i
    BY <1>2, <1>3
  <2>2. t[i + 1] = u[i + 1]
    BY <1>9, <1>10, <2>1
  <2>3. u[i + 1] = given[i]
    BY <1>8, <2>1 DEF u
  <2>. QED BY <1>4, <2>2, <2>3
<1>13. ASSUME NEW p \in Nat, p < bits PROVE Bit(t, ByteBits + p) <=> Bit(buff, p)
  <2>1. p < ByteBits * g
    BY <1>1, <1>2, <1>13
  <2>2. PICK q \in Nat, r \in 0..ByteBits - 1 :
          p = ByteBits * q + r /\ (Bit(buff, p) <=> r \in buff[q + 1]) /\ q < g
    BY <1>2, <2>1, Place1
  <2>3. ByteBits + p = ByteBits * (q + 1) + r /\ q + 1 \in Nat /\ q + 1 \in 1..g
    BY <1>1, <1>2, <2>2
  <2>4. Bit(t, ByteBits * (q + 1) + r) <=> r \in t[q + 1 + 1]
    BY <1>1, <2>3, Quotients DEF Bit
  <2>5. t[q + 1 + 1] = buff[q + 1]
    BY <1>12, <2>3
  <2>. QED BY <2>2, <2>3, <2>4, <2>5
<1>. QED BY <1>11, <1>13 DEF t, given, g

\* Merged writes the bits of the elements, each once, and no other.
LEMMA MergedBits ==
    ASSUME fields.width \in Nat \ {0}, NEW start \in Nat \ {0}, NEW count \in Nat \ {0},
           NEW block \in Seq(Byte), NEW buff \in Seq(Byte),
           fields.width * count <= ByteBits * Len(buff)
    PROVE  LET t == Merged(block, start, count, buff)
               from == (start - 1) * fields.width
           IN  /\ t \in Seq(Byte) /\ Len(t) = Len(block)
               /\ \A p \in Nat : p < ByteBits * Len(block) =>
                    (Bit(t, p) <=> IF from <= p /\ p < from + fields.width * count
                                   THEN Bit(buff, p - from) ELSE Bit(block, p))
<1>. DEFINE p1 == Place(start, count)
            first == p1.first
            last == p1.last
            left == p1.left
            right == p1.right
            bits == fields.width * count
            from == (start - 1) * fields.width
            n == last - first + 1
            given == SubSeq(buff, 1, ceil_divide(bits, ByteBits))
            padded == <<{}>> \o given \o Zeros(n - Len(given))
            tmp == left_shift_bitstream(padded, ByteBits - left)
            low == 0..ByteBits - 1 \ build_mask_code(ByteBits - left)
            high == build_mask_code(right)
            kept(i) == (IF i = first THEN low ELSE {}) \cup (IF i = last THEN high ELSE {})
            t == Merged(block, start, count, buff)
<1>1. ByteBits \in Nat \ {0} /\ Len(block) \in Nat /\ Len(buff) \in Nat
  BY StoreAssumption, LenProperties
<1>2. /\ p1.bits = bits /\ bits \in Nat \ {0} /\ from \in Nat
      /\ first \in Nat /\ last \in Nat /\ first <= last
      /\ left \in 0..ByteBits - 1 /\ right \in 0..ByteBits - 1
      /\ from = ByteBits * first + left
      /\ from + bits = ByteBits * last + ByteBits - right
      /\ ByteBits * (last - first + 1) = left + bits + right
  BY Placed, Zenon
<1>3. t = [j \in DOMAIN block |->
             IF j - 1 \notin first..last THEN block[j]
             ELSE (block[j] \cap kept(j - 1)) \cup (tmp[j - first] \ kept(j - 1))]
  BY <1>2 DEF Merged
<1>14. \A j \in DOMAIN block : j - 1 \in first..last =>
         t[j] = (block[j] \cap kept(j - 1)) \cup (tmp[j - first] \ kept(j - 1))
  <2>. HIDE DEF first, last, low, high, t, tmp
  <2>. QED BY <1>3
<1>4. /\ low = {r \in 0..ByteBits - 1 : r < left}
      /\ high = {r \in 0..ByteBits - 1 : ByteBits - right <= r}
  BY <1>2, Masks
<1>15. \A i \in Nat, r \in 0..ByteBits - 1 :
         r \in kept(i) <=> (i = first /\ r < left) \/ (i = last /\ ByteBits - right <= r)
  <2>. HIDE DEF first, last, left, right, low, high
  <2>. QED BY <1>4
<1>. HIDE DEF p1, first, last, left, right, from, low, high, t, bits, kept
<1>5. n \in Nat /\ bits <= ByteBits * n
  BY <1>1, <1>2
<1>. HIDE DEF n
<1>6. /\ padded \in Seq(Byte) /\ Len(padded) = n + 1
      /\ \A p \in Nat : p < bits => (Bit(padded, ByteBits + p) <=> Bit(buff, p))
  BY <1>2, <1>5, Padded DEF bits
<1>. HIDE DEF padded
<1>7. /\ tmp \in Seq(Byte) /\ Len(tmp) = n + 1
      /\ \A p \in Nat : p < ByteBits * (n + 1) =>
           (Bit(tmp, p) <=> p + (ByteBits - left) < ByteBits * (n + 1)
                            /\ Bit(padded, p + (ByteBits - left)))
  <2>1. ByteBits - left \in 0..ByteBits
    BY <1>1, <1>2
  <2>. QED BY <1>6, <2>1, Shifted
<1>. HIDE DEF tmp
<1>8. DOMAIN block = 1..Len(block) /\ \A j \in 1..Len(block) : block[j] \in Byte
  BY LenProperties
<1>9. \A j \in 1..n + 1 : tmp[j] \in Byte
  BY <1>7, LenProperties
<1>10. \A j \in 1..Len(block) : j - 1 \in first..last => j - first \in 1..n + 1
  BY <1>1, <1>2 DEF n
<1>11. t \in [1..Len(block) -> Byte]
  BY <1>3, <1>8, <1>9, <1>10 DEF Byte
<1>12. t \in Seq(Byte) /\ Len(t) = Len(block)
  BY <1>1, <1>11, SeqDef, LenProperties
<1>13. ASSUME NEW p \in Nat, p < ByteBits * Len(block)
       PROVE  Bit(t, p) <=> IF from <= p /\ p < from + bits THEN Bit(buff, p - from) ELSE Bit(block, p)
  <2>1. PICK q \in Nat, r \in 0..ByteBits - 1 :
          /\ p = ByteBits * q + r
          /\ \A b : Bit(b, p) <=> r \in b[q + 1]
          /\ \A k \in Nat : p < ByteBits * k <=> q < k
    BY Place1
  <2>2. q < Len(block) /\ q + 1 \in 1..Len(block) /\ (q + 1) - 1 = q
    BY <1>1, <1>13, <2>1
  <2>3. Bit(t, p) <=> r \in t[q + 1]
    BY <2>1
  <2>. DEFINE F == ByteBits * first
              L == ByteBits * last
              Q == ByteBits * q
  <2>6. /\ F \in Nat /\ L \in Nat /\ Q \in Nat
        /\ from = F + left /\ from + bits = L + ByteBits - right /\ p = Q + r
    BY <1>1, <1>2, <2>1
  <2>7. /\ q < first => Q + ByteBits <= F
        /\ first < q => F + ByteBits <= Q
        /\ q < last => Q + ByteBits <= L
        /\ last < q => L + ByteBits <= Q
        /\ q = first => Q = F
        /\ q = last => Q = L
    BY <1>1, <1>2, Earlier
  <2>8. left \in 0..ByteBits - 1 /\ right \in 0..ByteBits - 1 /\ from \in Nat /\ bits \in Nat
        /\ first \in Nat /\ last \in Nat
    BY <1>2
  <2>. HIDE DEF F, L, Q
  <2>4. CASE q \notin first..last
    <3>1. t[q + 1] = block[q + 1]
      BY <1>3, <1>8, <2>2, <2>4
    <3>2. ~(from <= p /\ p < from + bits)
      <4>1. q < first => p < from
        BY <1>1, <2>6, <2>7, <2>8
      <4>2. last < q => from + bits <= p
        BY <1>1, <2>6, <2>7, <2>8
      <4>3. q < first \/ last < q
        BY <2>4, <2>8
      <4>. QED BY <2>8, <4>1, <4>2, <4>3
    <3>. QED BY <2>1, <3>1, <3>2
  <2>5. CASE q \in first..last
    <3>1. t[q + 1] = (block[q + 1] \cap kept(q)) \cup (tmp[(q + 1) - first] \ kept(q))
      <4>1. q + 1 \in DOMAIN block
        BY <1>8, <2>2
      <4>. QED BY <1>14, <2>2, <2>5, <4>1
    <3>2. r \in kept(q) <=> ~(from <= p /\ p < from + bits)
      <4>1. r \in kept(q) <=> (q = first /\ r < left) \/ (q = last /\ ByteBits - right <= r)
        BY <1>15
      <4>2. first <= q /\ q <= last
        BY <2>5, <2>8
      <4>4. p < from <=> q = first /\ r < left
        BY <1>1, <2>6, <2>7, <2>8, <4>2
      <4>5. from + bits <= p <=> q = last /\ ByteBits - right <= r
        BY <1>1, <2>6, <2>7, <2>8, <4>2
      <4>6. ~(from <= p /\ p < from + bits) <=> p < from \/ from + bits <= p
        BY <2>8
      <4>. QED BY <4>1, <4>4, <4>5, <4>6
    <3>3. ASSUME from <= p /\ p < from + bits
          PROVE  r \in tmp[(q + 1) - first] <=> Bit(buff, p - from)
      <4>. DEFINE j == q - first
                  s == p - from
      <4>1. j \in Nat /\ j < n + 1 /\ j + 1 = (q + 1) - first
        BY <1>2, <2>5 DEF n
      <4>2. s \in Nat /\ s < bits
        BY <2>8, <3>3
      <4>3. ByteBits * j + r = s + left
        <5>1. ByteBits * j = Q - F
          BY <1>1, <2>8 DEF Q, F
        <5>. HIDE DEF j
        <5>. QED BY <1>1, <2>6, <2>8, <5>1
      <4>. HIDE DEF j, s
      <4>4. ByteBits * j + r \in Nat /\ (Bit(tmp, ByteBits * j + r) <=> r \in tmp[j + 1])
        BY <1>1, <4>1, Quotients DEF Bit
      <4>5. ByteBits * j + r < ByteBits * (n + 1)
        <5>1. ByteBits * j + ByteBits <= ByteBits * (n + 1)
          BY <1>1, <1>5, <4>1, Earlier
        <5>2. ByteBits * j \in Int /\ ByteBits * (n + 1) \in Int
          BY <1>1, <1>5, <4>1
        <5>. QED BY <1>1, <5>1, <5>2
      <4>6. ByteBits * j + r + (ByteBits - left) = ByteBits + s
        BY <1>1, <1>2, <4>1, <4>2, <4>3
      <4>7. ByteBits + s < ByteBits * (n + 1)
        <5>1. ByteBits * (n + 1) = ByteBits * n + ByteBits
          BY <1>1, <1>5
        <5>2. ByteBits * n \in Int
          BY <1>1, <1>5
        <5>. QED BY <1>1, <1>2, <1>5, <4>2, <5>1, <5>2
      <4>8. Bit(tmp, ByteBits * j + r) <=> Bit(padded, ByteBits + s)
        BY <1>7, <4>4, <4>5, <4>6, <4>7
      <4>9. Bit(padded, ByteBits + s) <=> Bit(buff, s)
        BY <1>6, <4>2
      <4>10. r \in tmp[j + 1] <=> Bit(buff, s)
        BY <4>4, <4>8, <4>9
      <4>. QED BY <4>1, <4>10 DEF s
    <3>4. Bit(block, p) <=> r \in block[q + 1]
      BY <2>1
    <3>. QED BY <2>3, <3>1, <3>2, <3>3, <3>4
  <2>. QED BY <2>4, <2>5
<1>. QED BY <1>12, <1>13 DEF t, from, bits

-----------------------------------------------------------------------------
(* Elements of a block.                                                    *)

\* What Merged writes are the elements in the buffer, in place of the old ones.
LEMMA MergedElements ==
    ASSUME fields.width \in Nat \ {0}, NEW start \in Nat \ {0}, NEW count \in Nat \ {0},
           NEW block \in Seq(Byte), NEW buff \in Seq(Byte),
           fields.width * count <= ByteBits * Len(buff),
           NEW i \in Nat \ {0}, fields.width * i <= ByteBits * Len(block)
    PROVE  Element(Merged(block, start, count, buff), fields.width, i) =
             IF i \in start..start + count - 1 THEN Element(buff, fields.width, i - start + 1)
             ELSE Element(block, fields.width, i)
<1>. DEFINE w == fields.width
            t == Merged(block, start, count, buff)
            from == (start - 1) * w
<1>1. /\ t \in Seq(Byte) /\ Len(t) = Len(block)
      /\ \A p \in Nat : p < ByteBits * Len(block) =>
           (Bit(t, p) <=> IF from <= p /\ p < from + w * count
                          THEN Bit(buff, p - from) ELSE Bit(block, p))
  BY MergedBits
<1>0. w \in Nat \ {0} /\ w * count <= ByteBits * Len(buff) /\ w * i <= ByteBits * Len(block)
  BY Zenon
<1>. HIDE DEF t, w
<1>2. ByteBits \in Nat \ {0} /\ Len(block) \in Nat
  BY StoreAssumption, LenProperties
<1>3. ASSUME NEW k \in 0..w - 1
      PROVE  /\ (i - 1) * w + k \in Nat /\ (i - 1) * w + k < ByteBits * Len(block)
  <2>1. (i - 1) * w + k \in Nat /\ (i - 1) * w + k < w * i
    <3>1. (i - 1) * w + k \in Nat /\ \A n \in Nat : i <= n => (i - 1) * w + k < w * n
      BY <1>0, ElementPlace, Zenon
    <3>2. i \in Nat /\ i <= i
      OBVIOUS
    <3>. QED BY <3>1, <3>2, Zenon
  <2>2. w * i \in Int /\ ByteBits * Len(block) \in Int
    BY <1>0, <1>2
  <2>. QED BY <1>0, <2>1, <2>2
<1>4. CASE i \in start..start + count - 1
  <2>. DEFINE j == i - start + 1
  <2>1. j \in Nat \ {0} /\ j <= count
    BY <1>4
  <2>2. ASSUME NEW k \in 0..w - 1
        PROVE  Bit(t, (i - 1) * w + k) <=> Bit(buff, (j - 1) * w + k)
    <3>. DEFINE p == (i - 1) * w + k
                s == (j - 1) * w + k
    <3>1. s \in Nat /\ s < w * count
      BY <1>0, <2>1, ElementPlace
    <3>2. p = from + s
      BY <1>0, <1>4
    <3>3. p \in Nat /\ p < ByteBits * Len(block)
      BY <1>3
    <3>4. from \in Int /\ w * count \in Int
      BY <1>0
    <3>. HIDE DEF p, s, from
    <3>5. from <= p /\ p < from + w * count /\ p - from = s
      BY <3>1, <3>2, <3>4
    <3>6. Bit(t, p) <=> Bit(buff, s)
      BY <1>1, <3>3, <3>5
    <3>. QED BY <3>6 DEF p, s
  <2>. HIDE DEF j
  <2>3. Element(t, w, i) = Element(buff, w, j)
    <3>1. Element(t, w, i) = {k \in 0..w - 1 : Bit(t, (i - 1) * w + k)}
      BY ElementBits
    <3>2. Element(buff, w, j) = {k \in 0..w - 1 : Bit(buff, (j - 1) * w + k)}
      BY ElementBits
    <3>. QED BY <2>2, <3>1, <3>2
  <2>. QED BY <1>4, <2>3 DEF t, w, j
<1>5. CASE i \notin start..start + count - 1
  <2>1. ASSUME NEW k \in 0..w - 1
        PROVE  Bit(t, (i - 1) * w + k) <=> Bit(block, (i - 1) * w + k)
    <3>. DEFINE p == (i - 1) * w + k
    <3>1. p \in Nat /\ p < ByteBits * Len(block)
      BY <1>3
    <3>2. i < start => p < from
      <4>1. i <= start - 1 /\ start - 1 \in Nat => p < w * (start - 1)
        BY <1>0, ElementPlace
      <4>2. w * (start - 1) = from
        BY <1>0
      <4>3. i < start => i <= start - 1
        OBVIOUS
      <4>4. start - 1 \in Nat
        OBVIOUS
      <4>. HIDE DEF p, from
      <4>. QED BY <4>1, <4>2, <4>3, <4>4
    <3>3. start + count - 1 < i => from + w * count <= p
      <4>1. start + count - 1 < i => w * (start + count - 1) <= p
        <5>1. start + count - 1 \in Nat
          OBVIOUS
        <5>. QED BY <1>0, <5>1, ElementPlace
      <4>2. w * (start + count - 1) = from + w * count
        BY <1>0
      <4>. QED BY <4>1, <4>2
    <3>4. i < start \/ start + count - 1 < i
      BY <1>5
    <3>5. from \in Int /\ w * count \in Int
      BY <1>0
    <3>. HIDE DEF p, from
    <3>6. ~(from <= p /\ p < from + w * count)
      BY <3>1, <3>2, <3>3, <3>4, <3>5
    <3>7. Bit(t, p) <=> Bit(block, p)
      BY <1>1, <3>1, <3>6
    <3>. QED BY <3>7 DEF p
  <2>2. Element(t, w, i) = Element(block, w, i)
    <3>1. Element(t, w, i) = {k \in 0..w - 1 : Bit(t, (i - 1) * w + k)}
      BY ElementBits
    <3>2. Element(block, w, i) = {k \in 0..w - 1 : Bit(block, (i - 1) * w + k)}
      BY ElementBits
    <3>. QED BY <2>1, <3>1, <3>2
  <2>. QED BY <1>5, <2>2 DEF t, w
<1>. QED BY <1>4, <1>5

\* The bytes of a block are enough for the elements; there is nothing for no elements.
LEMMA RoomFor ==
    ASSUME NEW w \in Nat, NEW n \in Nat
    PROVE  /\ Room(w, n) \in Nat /\ w * n <= ByteBits * Room(w, n)
           /\ w * n = 0 => Room(w, n) = 0
<1>1. w * n \in Nat
  OBVIOUS
<1>2. Room(w, n) \in Nat /\ w * n <= ByteBits * Room(w, n)
  BY <1>1, CeilDivide DEF Room
<1>3. w * n = 0 => Room(w, n) = 0
  <2>1. ByteBits \in Nat \ {0}
    BY StoreAssumption
  <2>2. ceil_divide(0, ByteBits) = 0
    BY <2>1, CeilIs
  <2>. QED BY <2>2 DEF Room
<1>. QED BY <1>2, <1>3

\* A block that has the room has place for element i of n.
LEMMA Inside ==
    ASSUME NEW w \in Nat \ {0}, NEW n \in Nat, NEW m \in Nat, Room(w, n) <= m,
           NEW i \in Nat \ {0}, i <= n
    PROVE  w * i <= ByteBits * m
<1>1. ByteBits \in Nat \ {0}
  BY StoreAssumption
<1>2. Room(w, n) \in Nat /\ w * n <= ByteBits * Room(w, n)
  BY RoomFor
<1>3. w * i <= w * n
  OBVIOUS
<1>4. ByteBits * Room(w, n) <= ByteBits * m
  BY <1>1, <1>2
<1>5. w * i \in Int /\ w * n \in Int /\ ByteBits * Room(w, n) \in Int /\ ByteBits * m \in Int
  BY <1>1, <1>2
<1>. QED BY <1>2, <1>3, <1>4, <1>5

\* reserve keeps the bytes in use.
LEMMA ResizedBits ==
    ASSUME TypeOK, NEW n \in Nat
    PROVE  /\ Resized(n) \in Seq(Byte) /\ n <= Len(Resized(n))
           /\ \A p \in Nat : p < ByteBits * size => (Bit(Resized(n), p) <=> Bit(bytes, p))
<1>1. bytes \in Seq(Byte) /\ Len(bytes) \in Nat /\ size <= Len(bytes) /\ size \in Nat
  BY RoomFor, LenProperties, StoreAssumption DEF TypeOK
<1>2. CASE n <= Len(bytes)
  BY <1>1, <1>2 DEF Resized
<1>3. CASE ~(n <= Len(bytes))
  <2>. DEFINE s == SubSeq(bytes, 1, size)
              z == Zeros(n - size)
  <2>1. /\ s \in Seq(Byte) /\ Len(s) = size
        /\ \A i \in 1..size : s[i] = bytes[i]
    <3>1. \A i \in 1..size : bytes[i] \in Byte
      BY <1>1, ElementOfSeq
    <3>. QED BY <1>1, <3>1, SubSeqProperties
  <2>2. n - size \in Nat
    BY <1>1, <1>3
  <2>3. z \in Seq(Byte) /\ Len(z) = n - size
    BY <2>2, ZeroBytes
  <2>. HIDE DEF s, z
  <2>4. /\ s \o z \in Seq(Byte) /\ Len(s \o z) = Len(s) + Len(z)
        /\ \A i \in 1..Len(s) + Len(z) : (s \o z)[i] = IF i <= Len(s) THEN s[i] ELSE z[i - Len(s)]
    BY <2>1, <2>3, ConcatProperties
  <2>5. Resized(n) = s \o z
    BY <1>3 DEF Resized, s, z
  <2>6. Len(s \o z) = n
    BY <1>1, <2>1, <2>3, <2>4
  <2>7. \A i \in 1..size : (s \o z)[i] = bytes[i]
    <3>. SUFFICES ASSUME NEW i \in 1..size PROVE (s \o z)[i] = bytes[i]
      OBVIOUS
    <3>1. i \in 1..Len(s) + Len(z) /\ i <= Len(s)
      BY <1>1, <2>1, <2>2, <2>3
    <3>. QED BY <2>1, <2>4, <3>1
  <2>8. ASSUME NEW p \in Nat, p < ByteBits * size PROVE Bit(s \o z, p) <=> Bit(bytes, p)
    <3>1. PICK q \in Nat, r \in 0..ByteBits - 1 :
            (\A b : Bit(b, p) <=> r \in b[q + 1]) /\ q < size
      BY <1>1, <2>8, Place1
    <3>2. q + 1 \in 1..size
      BY <1>1, <3>1
    <3>. QED BY <2>7, <3>1, <3>2
  <2>. QED BY <2>4, <2>5, <2>6, <2>8
<1>. QED BY <1>2, <1>3

-----------------------------------------------------------------------------
(* The operations.                                                         *)

\* The state, for those who use it: there is room for what the property has.
LEMMA State ==
    ASSUME TypeOK
    PROVE  /\ fields.width \in Nat /\ fields.count \in Nat /\ size \in Nat
           /\ bytes \in Seq(Byte) /\ Len(bytes) \in Nat
           /\ Room(fields.width, fields.count) <= Len(bytes)
           /\ Room(fields.width, fields.count) = size
           /\ elems \in Seq(SUBSET (0..fields.width - 1)) /\ Len(elems) = fields.count
           /\ fields.width # 0 => fields.width \in Width /\ fields.width \in Nat \ {0}
<1>0. fields \in [width : Width \cup {0}, count : Nat]
  BY DEF TypeOK
<1>4. fields.width \in Width \cup {0} /\ fields.count \in Nat
  BY <1>0
<1>5. \A x \in Width : x \in Nat \ {0}
  BY StoreAssumption
<1>1. fields.width \in Nat /\ fields.count \in Nat /\ (fields.width # 0 => fields.width \in Width)
  BY <1>4, <1>5
<1>2. Room(fields.width, fields.count) \in Nat
  BY <1>1, RoomFor
<1>3. fields.width # 0 => fields.width \in Nat \ {0}
  BY <1>1
<1>. QED BY <1>1, <1>2, <1>3, LenProperties DEF TypeOK

\* What the next block and values must be.
LEMMA Next1 ==
    ASSUME NEW w \in Width \cup {0}, NEW n \in Nat, NEW block \in Seq(Byte), NEW values,
           Room(w, n) <= Len(block), fields' = [width |-> w, count |-> n],
           size' = Room(w, n), bytes' = block, elems' = values,
           values \in [1..n -> SUBSET (0..w - 1)]
    PROVE  TypeOK' /\ ((\A i \in 1..n : Element(block, w, i) = values[i]) => StoredAsGiven')
<1>1. values \in Seq(SUBSET (0..w - 1)) /\ Len(values) = n
  BY SeqDef, LenProperties
<1>2. fields' \in [width : Width \cup {0}, count : Nat] /\ fields'.width = w /\ fields'.count = n
  OBVIOUS
<1>3. TypeOK'
  BY <1>1, <1>2 DEF TypeOK
<1>4. ASSUME \A i \in 1..n : Element(block, w, i) = values[i] PROVE StoredAsGiven'
  <2>1. values = [i \in 1..n |-> Element(block, w, i)]
    BY <1>4
  <2>. QED BY <1>2, <2>1 DEF StoredAsGiven, Elements
<1>. QED BY <1>3, <1>4

LEMMA ElementType ==
    ASSUME NEW block, NEW w, NEW i
    PROVE  Element(block, w, i) \in SUBSET (0..w - 1)
BY DEF Element

LEMMA InitHolds == Init => TypeOK /\ StoredAsGiven
<1>. SUFFICES ASSUME Init PROVE TypeOK /\ StoredAsGiven
  OBVIOUS
<1>1. Room(0, 0) = 0
  BY RoomFor
<1>2. TypeOK
  BY <1>1 DEF Init, TypeOK
<1>3. Elements(<<>>, 0, 0) = <<>>
  BY DEF Elements
<1>. QED BY <1>2, <1>3 DEF Init, StoredAsGiven

LEMMA AddHolds ==
    ASSUME NEW w \in Width, NEW n \in Nat, AddPropFields(w, n)
    PROVE  TypeOK' /\ StoredAsGiven'
<1>1. w \in Nat \ {0} /\ w \in Width \cup {0} /\ ByteBits \in Nat \ {0}
  BY StoreAssumption
<1>. DEFINE z == Zeros(Room(w, n))
<1>2. Room(w, n) \in Nat
  BY <1>1, RoomFor
<1>3. z \in Seq(Byte) /\ Len(z) = Room(w, n) /\ \A j \in 1..Room(w, n) : z[j] = {}
  BY <1>2, ZeroBytes
<1>. HIDE DEF z
<1>4. ASSUME NEW i \in 1..n PROVE Element(z, w, i) = {}
  <2>1. ASSUME NEW k \in 0..w - 1 PROVE ~Bit(z, (i - 1) * w + k)
    <3>. DEFINE p == (i - 1) * w + k
    <3>1. p \in Nat /\ p < w * n
      BY <1>1, ElementPlace
    <3>2. w * n <= ByteBits * Room(w, n) /\ w * n \in Int /\ ByteBits * Room(w, n) \in Int
      BY <1>1, <1>2, RoomFor
    <3>. HIDE DEF p
    <3>5. p < ByteBits * Room(w, n)
      BY <3>1, <3>2
    <3>3. PICK q \in Nat, r \in 0..ByteBits - 1 : (\A b : Bit(b, p) <=> r \in b[q + 1]) /\ q < Room(w, n)
      BY <1>2, <3>1, <3>5, Place1
    <3>4. q + 1 \in 1..Room(w, n)
      BY <1>2, <3>3
    <3>. QED BY <1>3, <3>3, <3>4 DEF p
  <2>2. Element(z, w, i) = {k \in 0..w - 1 : Bit(z, (i - 1) * w + k)}
    BY ElementBits
  <2>. QED BY <2>1, <2>2
<1>. DEFINE v == [i \in 1..n |-> {}]
<1>5. v \in [1..n -> SUBSET (0..w - 1)] /\ \A i \in 1..n : v[i] = {}
  OBVIOUS
<1>6. /\ fields' = [width |-> w, count |-> n] /\ size' = Room(w, n) /\ bytes' = z /\ elems' = v
  BY DEF AddPropFields, z
<1>7. Room(w, n) <= Len(z)
  BY <1>2, <1>3
<1>. HIDE DEF v
<1>8. \A i \in 1..n : Element(z, w, i) = v[i]
  BY <1>4, <1>5
<1>. QED BY <1>1, <1>3, <1>5, <1>6, <1>7, <1>8, Next1

LEMMA RemoveHolds ==
    ASSUME RemoveIObject
    PROVE  TypeOK' /\ StoredAsGiven'
<1>1. Room(0, 0) = 0
  BY RoomFor
<1>2. TypeOK'
  BY <1>1 DEF RemoveIObject, TypeOK
<1>3. Elements(<<>>, 0, 0) = <<>>
  BY DEF Elements
<1>. QED BY <1>2, <1>3 DEF RemoveIObject, StoredAsGiven

\* The elements there are, and what StoredAsGiven says of each.
LEMMA Stored1 ==
    ASSUME TypeOK, StoredAsGiven
    PROVE  \A i \in 1..fields.count : elems[i] = Element(bytes, fields.width, i)
BY DEF StoredAsGiven, Elements

\* More room leaves the elements.
LEMMA KeptElements ==
    ASSUME TypeOK, fields.width # 0, NEW n \in Nat, NEW i \in 1..fields.count
    PROVE  Element(Resized(n), fields.width, i) = Element(bytes, fields.width, i)
<1>. DEFINE w == fields.width
            t == Resized(n)
<1>1. /\ w \in Nat \ {0} /\ fields.count \in Nat /\ size \in Nat /\ ByteBits \in Nat \ {0}
      /\ Room(w, fields.count) = size
  BY State, StoreAssumption
<1>2. \A p \in Nat : p < ByteBits * size => (Bit(t, p) <=> Bit(bytes, p))
  BY ResizedBits
<1>. HIDE DEF w, t
<1>3. ASSUME NEW k \in 0..w - 1 PROVE Bit(t, (i - 1) * w + k) <=> Bit(bytes, (i - 1) * w + k)
  <2>. DEFINE p == (i - 1) * w + k
  <2>1. p \in Nat /\ p < w * fields.count
    BY <1>1, ElementPlace
  <2>4. w * fields.count <= ByteBits * Room(w, fields.count)
    BY <1>1, RoomFor
  <2>2. w * fields.count <= ByteBits * size /\ w * fields.count \in Int /\ ByteBits * size \in Int
    BY <1>1, <2>4
  <2>. HIDE DEF p
  <2>3. p < ByteBits * size
    BY <2>1, <2>2
  <2>. QED BY <1>2, <2>1, <2>3 DEF p
<1>4. Element(t, w, i) = {k \in 0..w - 1 : Bit(t, (i - 1) * w + k)}
  BY ElementBits
<1>5. Element(bytes, w, i) = {k \in 0..w - 1 : Bit(bytes, (i - 1) * w + k)}
  BY ElementBits
<1>. QED BY <1>3, <1>4, <1>5 DEF w, t

LEMMA SetFieldsHolds ==
    ASSUME TypeOK, StoredAsGiven, NEW w \in Width, NEW n \in Nat, SetPropFields(w, n)
    PROVE  TypeOK' /\ StoredAsGiven'
<1>. DEFINE t == Resized(Room(w, n))
            v == [i \in 1..n |-> IF w = fields.width /\ i <= fields.count THEN elems[i]
                                 ELSE Element(t, w, i)]
<1>1. w \in Nat \ {0} /\ w \in Width \cup {0} /\ Room(w, n) \in Nat
  BY StoreAssumption, RoomFor
<1>2. t \in Seq(Byte) /\ Room(w, n) <= Len(t)
  BY <1>1, ResizedBits
<1>3. fields' = [width |-> w, count |-> n] /\ size' = Room(w, n) /\ bytes' = t /\ elems' = v
  BY DEF SetPropFields
<1>4. fields.width # 0 /\ fields.count \in Nat
  BY State DEF SetPropFields
<1>5. \A i \in 1..n : v[i] = Element(t, w, i)
  <2>. SUFFICES ASSUME NEW i \in 1..n, w = fields.width, i <= fields.count
                PROVE  elems[i] = Element(t, w, i)
    OBVIOUS
  <2>1. i \in 1..fields.count
    BY <1>4
  <2>. QED BY <1>1, <1>4, <2>1, KeptElements, Stored1
<1>6. v \in [1..n -> SUBSET (0..w - 1)]
  BY <1>5, ElementType
<1>. HIDE DEF t, v
<1>. QED BY <1>1, <1>2, <1>3, <1>5, <1>6, Next1

\* A buffer is a block.
LEMMA BufferBlock ==
    ASSUME NEW bits \in Nat, NEW buff \in Buffers(bits)
    PROVE  buff \in Seq(Byte) /\ Len(buff) \in Nat
<1>1. ceil_divide(bits, ByteBits) \in Nat
  BY CeilDivide
<1>. QED BY <1>1, SeqDef, LenProperties DEF Buffers

LEMMA SetValuesHolds ==
    ASSUME TypeOK, StoredAsGiven, NEW start \in Nat \ {0}, NEW count \in Nat \ {0},
           NEW buff \in Seq(Byte), SetElemValues(start, count, buff)
    PROVE  TypeOK' /\ StoredAsGiven'
<1>. DEFINE w == fields.width
            n == fields.count
            t == Merged(bytes, start, count, buff)
            v == [i \in DOMAIN elems |-> IF i \in start..start + count - 1
                                         THEN Given(buff, count)[i - start + 1] ELSE elems[i]]
<1>1. /\ w \in Nat \ {0} /\ w \in Width \cup {0} /\ n \in Nat /\ ByteBits \in Nat \ {0}
      /\ bytes \in Seq(Byte) /\ Len(bytes) \in Nat /\ Room(w, n) <= Len(bytes) /\ size = Room(w, n)
  BY State, StoreAssumption DEF SetElemValues
<1>2. fields = [width |-> w, count |-> n]
  BY DEF TypeOK
<1>3. DOMAIN elems = 1..n
  BY State, LenProperties
<1>4. w * count <= ByteBits * Len(buff) /\ Len(buff) \in Nat
  <2>1. Len(buff) \in Nat /\ Len(buff) * ByteBits >= w * count
    BY LenProperties DEF SetElemValues
  <2>. QED BY <1>1, <2>1
<1>5. t \in Seq(Byte) /\ Len(t) = Len(bytes)
  BY <1>1, <1>4, MergedBits
<1>6. fields' = [width |-> w, count |-> n] /\ size' = Room(w, n) /\ bytes' = t /\ elems' = v
  BY <1>1, <1>2 DEF SetElemValues
<1>7. ASSUME NEW i \in 1..n PROVE v[i] = Element(t, w, i)
  <2>1. w * i <= ByteBits * Len(bytes) /\ i \in Nat \ {0}
    BY <1>1, Inside
  <2>2. Element(t, w, i) = IF i \in start..start + count - 1 THEN Element(buff, w, i - start + 1)
                           ELSE Element(bytes, w, i)
    BY <1>1, <1>4, <2>1, MergedElements
  <2>3. i \in start..start + count - 1 => Given(buff, count)[i - start + 1] = Element(buff, w, i - start + 1)
    <3>1. i \in start..start + count - 1 => i - start + 1 \in 1..count
      OBVIOUS
    <3>. QED BY <3>1 DEF Given, Elements
  <2>4. elems[i] = Element(bytes, w, i)
    BY Stored1
  <2>. HIDE DEF t, w
  <2>. QED BY <1>3, <2>2, <2>3, <2>4
<1>8. v \in [1..n -> SUBSET (0..w - 1)]
  <2>1. \A i \in 1..n : v[i] \in SUBSET (0..w - 1)
    <3>. HIDE DEF v
    <3>. QED BY <1>7, ElementType
  <2>2. v = [i \in DOMAIN elems |-> v[i]]
    OBVIOUS
  <2>3. \A u : u = [i \in DOMAIN elems |-> u[i]] /\ (\A i \in 1..n : u[i] \in SUBSET (0..w - 1))
               => u \in [1..n -> SUBSET (0..w - 1)]
    BY <1>3
  <2>. HIDE DEF v
  <2>. QED BY <2>1, <2>2, <2>3
<1>. HIDE DEF t, v, w, n
<1>. QED BY <1>1, <1>5, <1>6, <1>7, <1>8, Next1

LEMMA AppendHolds ==
    ASSUME TypeOK, StoredAsGiven, NEW buff \in Seq(Byte), AppendElemValue(buff)
    PROVE  TypeOK' /\ StoredAsGiven'
<1>. DEFINE w == fields.width
            c == fields.count
            n == c + 1
            short == Len(buff) * ByteBits < w
            b == Resized(Room(w, n))
            t == IF short THEN b ELSE Merged(b, n, 1, buff)
            v == Append(elems, IF short THEN Element(t, w, n) ELSE Given(buff, 1)[1])
<1>1. /\ w \in Nat \ {0} /\ w \in Width \cup {0} /\ c \in Nat /\ n \in Nat \ {0} /\ ByteBits \in Nat \ {0}
  BY State, StoreAssumption DEF AppendElemValue
<1>2. Room(w, n) \in Nat /\ b \in Seq(Byte) /\ Len(b) \in Nat /\ Room(w, n) <= Len(b)
  BY <1>1, RoomFor, ResizedBits, LenProperties
<1>3. fields' = [width |-> w, count |-> n] /\ size' = Room(w, n) /\ bytes' = t /\ elems' = v
  BY DEF AppendElemValue, TypeOK
<1>4. ~short => w * 1 <= ByteBits * Len(buff)
  <2>1. Len(buff) \in Nat
    BY LenProperties
  <2>. QED BY <1>1, <2>1
<1>5. t \in Seq(Byte) /\ Room(w, n) <= Len(t)
  <2>1. CASE short
    BY <1>2, <2>1
  <2>2. CASE ~short
    <3>1. Merged(b, n, 1, buff) \in Seq(Byte) /\ Len(Merged(b, n, 1, buff)) = Len(b)
      BY <1>1, <1>2, <1>4, <2>2, MergedBits
    <3>. QED BY <1>2, <2>2, <3>1
  <2>. QED BY <2>1, <2>2
<1>6. ASSUME NEW i \in 1..n
      PROVE  Element(t, w, i) = IF i <= c THEN elems[i]
                                ELSE IF short THEN Element(t, w, n) ELSE Given(buff, 1)[1]
  <2>1. i <= c => i \in 1..c /\ elems[i] = Element(b, w, i)
    BY <1>1, <1>2, KeptElements, Stored1
  <2>2. ~(i <= c) => i = n
    BY <1>1
  <2>3. ASSUME ~short
        PROVE  Element(t, w, i) = IF i \in n..n + 1 - 1 THEN Element(buff, w, i - n + 1)
                                  ELSE Element(b, w, i)
    <3>0. i \in Nat \ {0} /\ i <= n
      BY <1>1
    <3>1. w * i <= ByteBits * Len(b) /\ i \in Nat \ {0}
      BY <1>1, <1>2, <3>0, Inside
    <3>2. Element(Merged(b, n, 1, buff), w, i) =
             IF i \in n..n + 1 - 1 THEN Element(buff, w, i - n + 1) ELSE Element(b, w, i)
      BY <1>1, <1>2, <1>4, <2>3, <3>1, MergedElements
    <3>. QED BY <2>3, <3>2
  <2>4. Given(buff, 1)[1] = Element(buff, w, 1)
    BY DEF Given, Elements
  <2>5. short => t = b
    OBVIOUS
  <2>6. (i \in n..n + 1 - 1 <=> i = n) /\ n - n + 1 = 1
    BY <1>1
  <2>. HIDE DEF t, b, w, short
  <2>7. i = n => i - n + 1 = 1
    BY <1>1
  <2>8. ~(i <= c /\ i = n)
    BY <1>1
  <2>. QED BY <2>1, <2>2, <2>3, <2>4, <2>5, <2>6, <2>7, <2>8
<1>7. elems \in Seq(SUBSET (0..w - 1)) /\ Len(elems) = c
  BY State
<1>. DEFINE e == IF short THEN Element(t, w, n) ELSE Given(buff, 1)[1]
<1>8. e \in SUBSET (0..w - 1)
  <2>1. n \in 1..n /\ ~(n <= c)
    BY <1>1
  <2>2. e = Element(t, w, n)
    BY <1>6, <2>1
  <2>. QED BY <2>2, ElementType
<1>. HIDE DEF t, b, w, e
<1>9. /\ v \in Seq(SUBSET (0..w - 1)) /\ Len(v) = c + 1
      /\ \A i \in 1..c : v[i] = elems[i] /\ v[c + 1] = e
  <2>1. v = Append(elems, e)
    BY DEF e
  <2>. QED BY <1>7, <1>8, <2>1, AppendProperties
<1>10. v \in [1..n -> SUBSET (0..w - 1)]
  BY <1>9, LenProperties
<1>11. ASSUME NEW i \in 1..n PROVE Element(t, w, i) = v[i]
  <2>1. CASE i <= c
    <3>1. i \in 1..c
      BY <1>1, <2>1
    <3>. QED BY <1>6, <1>9, <2>1, <3>1
  <2>2. CASE ~(i <= c)
    <3>1. i = c + 1
      BY <1>1, <2>2
    <3>2. v[c + 1] = e
      BY <1>7, <1>8, AppendProperties DEF e
    <3>. QED BY <1>6, <2>2, <3>1, <3>2 DEF e
  <2>. QED BY <2>1, <2>2
<1>. HIDE DEF v, c
<1>12. n \in Nat
  BY <1>1
<1>. HIDE DEF n
<1>. QED BY <1>1, <1>3, <1>5, <1>10, <1>11, <1>12, Next1

-----------------------------------------------------------------------------
(* Reading.                                                                *)

\* The bytes of elements, and the bits in them.
LEMMA Cut ==
    ASSUME NEW block \in Seq(Byte), NEW first \in Nat, NEW n \in Nat, first + n <= Len(block)
    PROVE  LET t == SubSeq(block, first + 1, first + n) IN
           /\ t \in Seq(Byte) /\ Len(t) = n
           /\ \A p \in Nat : p < ByteBits * n => (Bit(t, p) <=> Bit(block, ByteBits * first + p))
<1>. DEFINE t == SubSeq(block, first + 1, first + n)
<1>1. Len(block) \in Nat /\ ByteBits \in Nat \ {0}
  BY StoreAssumption, LenProperties
<1>2. /\ t \in Seq(Byte) /\ Len(t) = n
      /\ \A i \in 1..n : t[i] = block[first + i]
  <2>. DEFINE m == first + 1
              k == first + n
  <2>1. \A i \in m..k : block[i] \in Byte
    <3>1. \A i \in m..k : i \in 1..Len(block)
      BY <1>1
    <3>. QED BY <3>1, ElementOfSeq
  <2>2. m \in Int /\ k \in Int /\ m <= k + 1
    OBVIOUS
  <2>. HIDE DEF m, k
  <2>3. /\ SubSeq(block, m, k) \in Seq(Byte)
        /\ Len(SubSeq(block, m, k)) = IF m <= k THEN k - m + 1 ELSE 0
        /\ \A i \in 1..k - m + 1 : SubSeq(block, m, k)[i] = block[m + i - 1]
    BY <2>1, <2>2, SubSeqProperties
  <2>4. k - m + 1 = n /\ \A i \in 1..n : m + i - 1 = first + i
    BY DEF m, k
  <2>5. Len(t) = n
    BY <2>2, <2>3, <2>4 DEF m, k
  <2>. QED BY <2>3, <2>4, <2>5 DEF m, k
<1>. HIDE DEF t
<1>3. ASSUME NEW p \in Nat, p < ByteBits * n PROVE Bit(t, p) <=> Bit(block, ByteBits * first + p)
  <2>1. PICK q \in Nat, r \in 0..ByteBits - 1 :
          p = ByteBits * q + r /\ (Bit(t, p) <=> r \in t[q + 1]) /\ q < n
    BY <1>3, Place1
  <2>2. ByteBits * first + p = ByteBits * (first + q) + r /\ first + q \in Nat
    BY <1>1, <2>1
  <2>3. Bit(block, ByteBits * (first + q) + r) <=> r \in block[first + q + 1]
    BY <1>1, <2>2, Quotients DEF Bit
  <2>4. q + 1 \in 1..n /\ first + (q + 1) = first + q + 1
    BY <2>1
  <2>5. t[q + 1] = block[first + q + 1]
    BY <1>2, <2>4
  <2>. QED BY <2>1, <2>2, <2>3, <2>5
<1>. QED BY <1>2, <1>3 DEF t

\* GetElemValues, when it does not refuse: the bytes that are needed, with the bits asked for.
LEMMA Given1 ==
    ASSUME fields.width \in Nat \ {0}, NEW start \in Nat \ {0}, NEW count \in Nat \ {0},
           NEW room \in Nat, bytes \in Seq(Byte), fields.count \in Nat,
           GetElemValues(start, count, room).retcode = 0,
           Room(fields.width, fields.count) <= Len(bytes)
    PROVE  LET buff == GetElemValues(start, count, room).buff
               bits == fields.width * count
               from == (start - 1) * fields.width
           IN  /\ Len(buff) = ceil_divide(bits, ByteBits)
               /\ \A p \in Nat : p < bits => (Bit(buff, p) <=> Bit(bytes, from + p))
<1>. DEFINE p1 == Place(start, count)
            first == p1.first
            last == p1.last
            left == p1.left
            right == p1.right
            bits == fields.width * count
            from == (start - 1) * fields.width
<1>1. ByteBits \in Nat \ {0} /\ Len(bytes) \in Nat
  BY StoreAssumption, LenProperties
<1>2. /\ p1.bits = bits /\ bits \in Nat \ {0} /\ from \in Nat
      /\ first \in Nat /\ last \in Nat /\ first <= last
      /\ left \in 0..ByteBits - 1 /\ right \in 0..ByteBits - 1
      /\ from = ByteBits * first + left
      /\ from + bits = ByteBits * last + ByteBits - right
      /\ ByteBits * (last - first + 1) = left + bits + right
  <2>1. p1.bits = bits /\ bits \in Nat \ {0} /\ from \in Nat
    BY Placed
  <2>2. first \in Nat /\ last \in Nat /\ first <= last
    BY Placed
  <2>3. left \in 0..ByteBits - 1 /\ right \in 0..ByteBits - 1
    BY Placed
  <2>4. from = ByteBits * first + left
    BY Placed
  <2>5. from + bits = ByteBits * last + ByteBits - right
    BY Placed
  <2>6. ByteBits * (last - first + 1) = left + bits + right
    BY Placed
  <2>. QED BY <2>1, <2>2, <2>3, <2>4, <2>5, <2>6, Zenon
<1>. DEFINE n == last - first + 1
            cut == SubSeq(bytes, first + 1, last + 1)
            tmp == left_shift_bitstream(cut, left)
            len == IF left # 0 /\ n # 1 /\ left >= ByteBits - right THEN n - 1 ELSE n
            buff == GetElemValues(start, count, room).buff
<1>3. buff = SubSeq(tmp, 1, len) /\ start + count - 1 <= fields.count
  <2>1. ~(start + count - 1 > fields.count \/ room * ByteBits < p1.bits)
    BY DEF GetElemValues, Refused
  <2>2. start + count - 1 <= fields.count
    BY <2>1
  <2>. QED BY <2>1, <2>2 DEF GetElemValues
<1>4. from + bits <= ByteBits * Len(bytes)
  <2>1. from + bits = fields.width * (start + count - 1)
    OBVIOUS
  <2>2. fields.width * (start + count - 1) <= fields.width * fields.count
    BY <1>3
  <2>4. fields.width * fields.count <= ByteBits * Len(bytes)
    <3>1. fields.count \in Nat \ {0} /\ fields.count <= fields.count
      BY <1>3
    <3>. QED BY <1>1, <3>1, Inside, Zenon
  <2>3. fields.width * (start + count - 1) \in Int /\ fields.width * fields.count \in Int
        /\ ByteBits * Len(bytes) \in Int
    BY <1>1
  <2>. HIDE DEF bits, from
  <2>. QED BY <1>2, <2>1, <2>2, <2>3, <2>4
<1>. HIDE DEF p1, first, last, left, right, bits, from, buff
<1>5. n \in Nat \ {0} /\ first + n = last + 1 /\ ByteBits * n = left + bits + right
  BY <1>2
<1>6. last + 1 <= Len(bytes)
  <2>. DEFINE X == ByteBits * Len(bytes)
              Y == ByteBits * last
  <2>1. Len(bytes) < last + 1 => X + ByteBits <= ByteBits * (last + 1)
    <3>1. last + 1 \in Nat
      BY <1>2
    <3>. QED BY <1>1, <3>1, Earlier, Zenon
  <2>2. ByteBits * (last + 1) = Y + ByteBits /\ Y \in Int /\ X \in Int
    BY <1>1, <1>2
  <2>3. from + bits = Y + ByteBits - right /\ from + bits <= X
    BY <1>2, <1>4, Zenon
  <2>4. right \in 0..ByteBits - 1 /\ last \in Nat /\ from \in Nat /\ bits \in Nat
    BY <1>2
  <2>. HIDE DEF X, Y
  <2>. QED BY <1>1, <2>1, <2>2, <2>3, <2>4
<1>. HIDE DEF n
<1>7. /\ cut \in Seq(Byte) /\ Len(cut) = n
      /\ \A p \in Nat : p < ByteBits * n => (Bit(cut, p) <=> Bit(bytes, ByteBits * first + p))
  <2>1. first \in Nat /\ n \in Nat /\ first + n <= Len(bytes)
    BY <1>1, <1>2, <1>5, <1>6
  <2>2. /\ SubSeq(bytes, first + 1, first + n) \in Seq(Byte)
        /\ Len(SubSeq(bytes, first + 1, first + n)) = n
        /\ \A p \in Nat : p < ByteBits * n =>
             (Bit(SubSeq(bytes, first + 1, first + n), p) <=> Bit(bytes, ByteBits * first + p))
    BY <2>1, Cut
  <2>. HIDE DEF cut
  <2>3. cut = SubSeq(bytes, first + 1, first + n)
    BY <1>5 DEF cut
  <2>. QED BY <2>2, <2>3, Zenon
<1>. HIDE DEF cut
<1>8. /\ tmp \in Seq(Byte) /\ Len(tmp) = n
      /\ \A p \in Nat : p < ByteBits * n =>
           (Bit(tmp, p) <=> p + left < ByteBits * n /\ Bit(cut, p + left))
  <2>1. left \in 0..ByteBits
    BY <1>1, <1>2
  <2>. QED BY <1>7, <2>1, Shifted
<1>. HIDE DEF tmp
<1>9. len \in Nat /\ len <= n /\ len = ceil_divide(bits, ByteBits) /\ bits <= ByteBits * len
  <2>1. CASE left + right >= ByteBits
    <3>1. n # 1
      BY <1>1, <1>2, <1>5, <2>1
    <3>2. len = n - 1
      BY <1>1, <1>2, <2>1, <3>1
    <3>3. ByteBits * (n - 1) = ByteBits * n - ByteBits
      BY <1>1, <1>5
    <3>4. n - 1 \in Nat /\ bits <= ByteBits * (n - 1) /\ ByteBits * (n - 1) < bits + ByteBits
      BY <1>1, <1>2, <1>5, <2>1, <3>3
    <3>. QED BY <1>2, <1>5, <3>2, <3>4, CeilIs
  <2>2. CASE ~(left + right >= ByteBits)
    <3>1. len = n
      BY <1>1, <1>2, <2>2
    <3>2. bits <= ByteBits * n /\ ByteBits * n < bits + ByteBits
      BY <1>1, <1>2, <1>5, <2>2
    <3>. QED BY <1>2, <1>5, <3>1, <3>2, CeilIs
  <2>. QED BY <2>1, <2>2
<1>. HIDE DEF len
<1>10. /\ Len(buff) = len
       /\ \A p \in Nat : p < ByteBits * len => (Bit(buff, p) <=> Bit(tmp, p))
  <2>1. 0 + len <= Len(tmp) /\ 0 \in Nat /\ 0 + 1 = 1 /\ 0 + len = len
    BY <1>5, <1>8, <1>9
  <2>2. /\ Len(SubSeq(tmp, 0 + 1, 0 + len)) = len
        /\ \A p \in Nat : p < ByteBits * len =>
             (Bit(SubSeq(tmp, 0 + 1, 0 + len), p) <=> Bit(tmp, ByteBits * 0 + p))
    BY <1>8, <1>9, <2>1, Cut
  <2>3. \A p \in Nat : ByteBits * 0 + p = p
    BY <1>1
  <2>. QED BY <1>3, <2>1, <2>2, <2>3
<1>11. ASSUME NEW p \in Nat, p < bits PROVE Bit(buff, p) <=> Bit(bytes, from + p)
  <2>1. ByteBits * len \in Int /\ ByteBits * n \in Int
    BY <1>1, <1>5, <1>9
  <2>2. p < ByteBits * len /\ p + left < ByteBits * n /\ p + left \in Nat
    <3>1. p < ByteBits * len
      BY <1>2, <1>9, <1>11, <2>1
    <3>2. p + left \in Nat /\ p + left < left + bits + right
      BY <1>1, <1>2, <1>11
    <3>3. p + left < ByteBits * n
      BY <1>5, <3>2
    <3>. QED BY <3>1, <3>2, <3>3
  <2>5. p < ByteBits * n
    BY <1>1, <1>2, <2>1, <2>2
  <2>3. ByteBits * first + (p + left) = from + p
    BY <1>1, <1>2
  <2>4. Bit(buff, p) <=> Bit(cut, p + left)
    BY <1>8, <1>10, <2>2, <2>5
  <2>. QED BY <1>7, <2>2, <2>3, <2>4
<1>. QED BY <1>9, <1>10, <1>11 DEF buff, bits, from

LEMMA Reading ==
    ASSUME TypeOK, StoredAsGiven
    PROVE  ReadsTheElements
<1>. SUFFICES ASSUME NEW start \in 1..fields.count + 1, NEW count \in 1..fields.count + 1,
                     NEW room \in 0..size, fields.width # 0
              PROVE  LET r == GetElemValues(start, count, room)
                         bits == fields.width * count
                     IN  /\ r.retcode = 0 <=>
                              start + count - 1 <= fields.count /\ bits <= room * ByteBits
                         /\ r.retcode = 0 =>
                              /\ Len(r.buff) = ceil_divide(bits, ByteBits)
                              /\ Elements(r.buff, fields.width, count) =
                                   SubSeq(elems, start, start + count - 1)
  BY DEF ReadsTheElements
<1>. DEFINE w == fields.width
            bits == w * count
            r == GetElemValues(start, count, room)
<1>1. /\ w \in Nat \ {0} /\ fields.count \in Nat /\ size \in Nat /\ ByteBits \in Nat \ {0}
      /\ bytes \in Seq(Byte) /\ Len(bytes) \in Nat /\ Room(w, fields.count) <= Len(bytes)
      /\ elems \in Seq(SUBSET (0..w - 1)) /\ Len(elems) = fields.count
  BY State, StoreAssumption
<1>2. start \in Nat \ {0} /\ count \in Nat \ {0} /\ room \in Nat
  BY <1>1
<1>3. bits \in Nat /\ room * ByteBits \in Nat /\ Place(start, count).bits = bits
  <2>1. w * count \in Nat /\ room * ByteBits \in Nat
    BY <1>1, <1>2
  <2>2. Place(start, count).bits = fields.width * count
    BY DEF Place
  <2>. QED BY <2>1, <2>2
<1>4. r.retcode = 0 <=> start + count - 1 <= fields.count /\ bits <= room * ByteBits
  <2>. HIDE DEF w, bits
  <2>1. r.retcode = IF start + count - 1 > fields.count \/ room * ByteBits < Place(start, count).bits
                    THEN 1 ELSE 0
    BY DEF GetElemValues, Refused, r
  <2>. HIDE DEF r
  <2>. QED BY <1>1, <1>2, <1>3, <2>1
<1>5. ASSUME r.retcode = 0
      PROVE  /\ Len(r.buff) = ceil_divide(bits, ByteBits)
             /\ Elements(r.buff, w, count) = SubSeq(elems, start, start + count - 1)
  <2>1. start + count - 1 <= fields.count /\ bits <= room * ByteBits
    BY <1>4, <1>5
  <2>3. /\ Len(r.buff) = ceil_divide(bits, ByteBits)
        /\ \A p \in Nat : p < bits => (Bit(r.buff, p) <=> Bit(bytes, (start - 1) * w + p))
    BY <1>1, <1>2, <1>5, Given1
  <2>. DEFINE b == r.buff
              j(i) == start + i - 1
  <2>. HIDE DEF b, w
  <2>4. ASSUME NEW i \in 1..count PROVE Element(b, w, i) = elems[j(i)]
    <3>1. j(i) \in 1..fields.count
      BY <1>1, <1>2, <2>1
    <3>2. elems[j(i)] = Element(bytes, w, j(i))
      BY <3>1, Stored1 DEF w
    <3>3. ASSUME NEW k \in 0..w - 1
          PROVE  Bit(b, (i - 1) * w + k) <=> Bit(bytes, (j(i) - 1) * w + k)
      <4>. DEFINE p == (i - 1) * w + k
      <4>1. p \in Nat /\ p < bits
        BY <1>1, <1>2, ElementPlace
      <4>2. (start - 1) * w + p = (j(i) - 1) * w + k
        BY <1>1, <1>2
      <4>. HIDE DEF p, bits, j
      <4>3. Bit(b, p) <=> Bit(bytes, (start - 1) * w + p)
        BY <2>3, <4>1 DEF b
      <4>. QED BY <4>2, <4>3 DEF p
    <3>4. Element(b, w, i) = {k \in 0..w - 1 : Bit(b, (i - 1) * w + k)}
      BY ElementBits
    <3>5. Element(bytes, w, j(i)) = {k \in 0..w - 1 : Bit(bytes, (j(i) - 1) * w + k)}
      BY ElementBits
    <3>. HIDE DEF j
    <3>. QED BY <3>2, <3>3, <3>4, <3>5
  <2>5. SubSeq(elems, start, start + count - 1) = [i \in 1..count |-> elems[j(i)]]
    BY <1>1, <1>2, <2>1
  <2>6. Elements(b, w, count) = [i \in 1..count |-> elems[j(i)]]
    <3>. HIDE DEF j
    <3>. QED BY <2>4 DEF Elements
  <2>. QED BY <2>3, <2>5, <2>6 DEF b
<1>. QED BY <1>4, <1>5

-----------------------------------------------------------------------------
(* The theorems.                                                           *)

LEMMA NextHolds ==
    ASSUME TypeOK, StoredAsGiven, [Next]_vars
    PROVE  TypeOK' /\ StoredAsGiven'
<1>0. \A x \in Width : x \in Nat \ {0}
  BY StoreAssumption
<1>1. ASSUME NEW w \in Width, NEW n \in 0..MaxBits \div w, AddPropFields(w, n) \/ SetPropFields(w, n)
      PROVE  TypeOK' /\ StoredAsGiven'
  <2>1. n \in Nat
    BY <1>0, StoreAssumption
  <2>. QED BY <1>1, <2>1, AddHolds, SetFieldsHolds
<1>2. CASE RemoveIObject
  BY <1>2, RemoveHolds
<1>3. ASSUME NEW start \in 1..fields.count, NEW count \in 1..fields.count - start + 1,
             NEW buff \in Buffers(fields.width * count), SetElemValues(start, count, buff)
      PROVE  TypeOK' /\ StoredAsGiven'
  <2>1. fields.count \in Nat /\ fields.width \in Nat
    BY State
  <2>2. start \in Nat \ {0} /\ count \in Nat \ {0} /\ fields.width * count \in Nat
    BY <2>1
  <2>3. buff \in Seq(Byte)
    BY <2>2, BufferBlock
  <2>. QED BY <1>3, <2>2, <2>3, SetValuesHolds
<1>4. ASSUME NEW buff \in Buffers(fields.width) \cup {<<>>}, AppendElemValue(buff)
      PROVE  TypeOK' /\ StoredAsGiven'
  <2>1. fields.width \in Nat
    BY State
  <2>2. buff \in Buffers(fields.width) => buff \in Seq(Byte)
    BY <2>1, BufferBlock
  <2>3. buff = <<>> => buff \in Seq(Byte)
    OBVIOUS
  <2>4. buff \in Seq(Byte)
    BY <2>2, <2>3
  <2>. QED BY <1>4, <2>4, AppendHolds
<1>5. CASE UNCHANGED vars
  BY <1>5 DEF vars, TypeOK, StoredAsGiven
<1>. QED BY <1>1, <1>2, <1>3, <1>4, <1>5 DEF Next

LEMMA Inductive == Spec => [](TypeOK /\ StoredAsGiven)
<1>1. Init => TypeOK /\ StoredAsGiven
  BY InitHolds
<1>2. TypeOK /\ StoredAsGiven /\ [Next]_vars => (TypeOK /\ StoredAsGiven)'
  BY NextHolds
<1>. QED BY <1>1, <1>2, PTL DEF Spec

\* The block has room for the elements, and no element more bits than its width
\* (mem_t::resize, SetPropFields).
THEOREM Typing == Spec => []TypeOK
BY Inductive, PTL

\* Each element is what was given last for it, whatever the widths and the size of bytes:
\* shifting and masking disturb no neighbour (SetElemValues_Ex, left_shift_bitstream).
THEOREM StoreTheorem == Spec => []StoredAsGiven
BY Inductive, PTL

\* GetElemValues gives the elements asked for in the bytes that are needed, and refuses
\* otherwise.
THEOREM ReadTheorem == Spec => []ReadsTheElements
<1>1. TypeOK /\ StoredAsGiven => ReadsTheElements
  BY Reading
<1>. QED BY <1>1, Inductive, PTL
=============================================================================
