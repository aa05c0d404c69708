------------------------- MODULE LinkTables_proofs --------------------------
(***************************************************************************)
(* LinkTables, for every set of objects, addresses, values and setters: the*)
(* tables stay sound, and they implement LinkRelation as long as no link is*)
(* removed while an application goes over the table.                       *)
(***************************************************************************)
EXTENDS LinkTables, ListLemmas

-----------------------------------------------------------------------------
(* The tables as sequences.                                                *)

\* Indexes of the link table count from 0.
LEMMA LinkIndexFacts ==
    ASSUME TypeOK, NEW i \in LinkIndexes
    PROVE  /\ i \in Nat /\ i < Len(links)
           /\ i + 1 \in 1..Len(links)
           /\ GetLinkByIndex(i) = links[i + 1]
           /\ GetLinkByIndex(i) \in Link
<1>1. links \in Seq(Link) /\ Len(links) \in Nat
  BY DEF TypeOK
<1>2. i \in Nat /\ i < Len(links)
  BY <1>1 DEF LinkIndexes
<1>3. i + 1 \in 1..Len(links)
  BY <1>1, <1>2
<1>4. links[i + 1] \in Link
  BY <1>1, <1>3, ElementOfSeq
<1>. QED BY <1>2, <1>3, <1>4 DEF GetLinkByIndex

\* An address has at most one index, so that the first one is the only one.
LEMMA IndexUnique ==
    ASSUME TypeOK, NoRepeats, NEW g, Indexes(g) # {}
    PROVE  /\ First(Indexes(g)) \in Nat
           /\ First(Indexes(g)) < Len(gaddrs)
           /\ gaddrs[First(Indexes(g)) + 1] = g
           /\ \A i \in Nat : i < Len(gaddrs) /\ gaddrs[i + 1] = g => i = First(Indexes(g))
<1>1. Len(gaddrs) \in Nat
  BY DEF TypeOK
<1>2. PICK i : i \in Indexes(g)
  OBVIOUS
<1>3. i \in Nat /\ i < Len(gaddrs) /\ gaddrs[i + 1] = g
  BY <1>1, <1>2 DEF Indexes, GetGroupAddrByIndex
<1>4. \A j \in Nat : j < Len(gaddrs) /\ gaddrs[j + 1] = g => j = i
  BY <1>1, <1>3 DEF NoRepeats
<1>5. \A j \in Indexes(g) : j = i
  BY <1>1, <1>4 DEF Indexes, GetGroupAddrByIndex
<1>6. Indexes(g) = {i}
  BY <1>2, <1>5
<1>7. First({i}) = i
  BY <1>3 DEF First
<1>8. First(Indexes(g)) = i
  BY <1>6, <1>7
<1>. QED BY <1>3, <1>4, <1>8

\* The tables after a link has been added: the old links, and the new one unless
\* it was there.
LEMMA AddEffect ==
    ASSUME TypeOK, NEW o \in Object, NEW i \in Nat
    PROVE  /\ AddLink(o, i) \in Seq(Link)
           /\ \/ AddLink(o, i) = links
                 /\ \E j \in 1..Len(links) : links[j] = [gobj |-> o, gaddr |-> i]
              \/ /\ Len(AddLink(o, i)) = Len(links) + 1
                 /\ \A j \in 1..Len(links) :
                       /\ AddLink(o, i)[j] = links[j]
                       /\ links[j] # [gobj |-> o, gaddr |-> i]
                 /\ AddLink(o, i)[Len(links) + 1] = [gobj |-> o, gaddr |-> i]
<1>. DEFINE link == [gobj |-> o, gaddr |-> i]
<1>1. link \in Link /\ links \in Seq(Link) /\ Len(links) \in Nat
  BY DEF Link, TypeOK
<1>. HIDE DEF link
<1>2. CASE \E j \in LinkIndexes : GetLinkByIndex(j) = link
  <2>1. AddLink(o, i) = links
    BY <1>2 DEF AddLink, link
  <2>2. \E j \in 1..Len(links) : links[j] = link
    BY <1>2, LinkIndexFacts
  <2>. QED BY <1>1, <2>1, <2>2 DEF link
<1>3. CASE ~ \E j \in LinkIndexes : GetLinkByIndex(j) = link
  <2>1. AddLink(o, i) = Append(links, link)
    BY <1>3 DEF AddLink, link
  <2>2. /\ Append(links, link) \in Seq(Link)
        /\ Len(Append(links, link)) = Len(links) + 1
        /\ \A j \in 1..Len(links) : Append(links, link)[j] = links[j]
        /\ Append(links, link)[Len(links) + 1] = link
    BY <1>1, AppendProperties
  <2>3. ASSUME NEW j \in 1..Len(links), links[j] = link PROVE FALSE
    <3>1. j - 1 \in LinkIndexes /\ (j - 1) + 1 = j
      BY <1>1 DEF LinkIndexes
    <3>2. GetLinkByIndex(j - 1) = link
      BY <2>3, <3>1 DEF GetLinkByIndex
    <3>. QED BY <1>3, <3>1, <3>2
  <2>. QED BY <2>1, <2>2, <2>3 DEF link
<1>. QED BY <1>2, <1>3

\* The table of links after the removal of link i.
LEMMA RemoveEffect ==
    ASSUME TypeOK, NEW i \in LinkIndexes
    PROVE  /\ RemoveLinkByIndex(i) \in Seq(Link)
           /\ Len(RemoveLinkByIndex(i)) = Len(links) - 1
           /\ \A j \in 1..(Len(links) - 1) :
                 RemoveLinkByIndex(i)[j] = IF j <= i THEN links[j] ELSE links[j + 1]
<1>1. links \in Seq(Link) /\ Len(links) \in Nat /\ Len(links) # 0
  BY LinkIndexFacts DEF TypeOK
<1>2. i \in Nat /\ i < Len(links)
  BY LinkIndexFacts
<1>3. \A j \in 1..(Len(links) - 1) : links[j] \in Link /\ links[j + 1] \in Link
  <2>. TAKE j \in 1..(Len(links) - 1)
  <2>1. j \in 1..Len(links) /\ j + 1 \in 1..Len(links)
    BY <1>1
  <2>. QED BY <1>1, <2>1, ElementOfSeq
<1>4. \A j \in 1..(Len(links) - 1) : RemoveLinkByIndex(i)[j] \in Link
  BY <1>3 DEF RemoveLinkByIndex
<1>5. Len(links) - 1 \in Nat
  BY <1>1
<1>6. RemoveLinkByIndex(i) \in [1..(Len(links) - 1) -> Link]
  BY <1>3 DEF RemoveLinkByIndex
<1>7. RemoveLinkByIndex(i) \in Seq(Link)
  <2>1. Seq(Link) = UNION {[1..n -> Link] : n \in Nat}
    BY SeqDef
  <2>. QED BY <1>5, <1>6, <2>1
<1>8. Len(RemoveLinkByIndex(i)) = Len(links) - 1
  BY <1>5, <1>6, <1>7, LenProperties
<1>. QED BY <1>7, <1>8 DEF RemoveLinkByIndex

-----------------------------------------------------------------------------
(* The invariant.                                                          *)

LEMMA InitInv == Init => IInv
<1>. SUFFICES ASSUME Init PROVE IInv
  OBVIOUS
<1>1. Len(gaddrs) = 0 /\ Len(links) = 0 /\ gaddrs \in Seq(GAddr) /\ links \in Seq(Link)
  BY EmptySeq DEF Init
<1>2. TypeOK
  BY <1>1 DEF Init, TypeOK
<1>3. NoRepeats /\ LinksInRange
  BY <1>1 DEF NoRepeats, LinksInRange
<1>4. ThreadOK
  BY DEF Init, ThreadOK
<1>. QED BY <1>2, <1>3, <1>4 DEF IInv

\* Every index of a table is one of its positions less one.
LEMMA ToRemoveUnique ==
    ASSUME IInv, pc[Listener] = "remove", ToRemove # {}
    PROVE  First(ToRemove) \in ToRemove
<1>1. PICK i \in ToRemove : TRUE
  OBVIOUS
<1>2. ASSUME NEW j \in ToRemove, NEW k \in ToRemove PROVE j = k
  <2>1. j \in LinkIndexes /\ k \in LinkIndexes
    BY DEF ToRemove
  <2>2. Listener \in Thread
    BY DEF Thread
  <2>3. PICK p \in todo[Listener] : \A q \in todo[Listener] : p = q
    BY <2>2 DEF ToRemove, IInv, ThreadOK
  <2>4. Address(j) = p.addr /\ Address(k) = p.addr
    BY <2>3 DEF ToRemove
  <2>5. links[j + 1].gobj = gobj[Listener] /\ links[k + 1].gobj = gobj[Listener]
    BY DEF ToRemove, GetLinkByIndex
  <2>6. /\ j + 1 \in 1..Len(links) /\ k + 1 \in 1..Len(links)
        /\ links[j + 1] \in Link /\ links[k + 1] \in Link
    BY <2>1, LinkIndexFacts DEF IInv
  <2>7. /\ links[j + 1].gaddr \in Nat /\ links[k + 1].gaddr \in Nat
        /\ links[j + 1].gaddr < Len(gaddrs) /\ links[k + 1].gaddr < Len(gaddrs)
    BY <2>6 DEF IInv, LinksInRange, Link
  <2>8. gaddrs[links[j + 1].gaddr + 1] = gaddrs[links[k + 1].gaddr + 1]
    BY <2>4 DEF Address, GetGroupAddrByIndex, GetLinkByIndex
  <2>9. links[j + 1].gaddr = links[k + 1].gaddr
    <3>1. Len(gaddrs) \in Nat
      BY DEF IInv, TypeOK
    <3>2. /\ links[j + 1].gaddr + 1 \in 1..Len(gaddrs)
          /\ links[k + 1].gaddr + 1 \in 1..Len(gaddrs)
      BY <2>7, <3>1
    <3>3. links[j + 1].gaddr + 1 = links[k + 1].gaddr + 1
      BY <2>8, <3>2 DEF IInv, NoRepeats
    <3>. QED BY <2>7, <3>3
  <2>10. links[j + 1] = links[k + 1]
    BY <2>5, <2>6, <2>9 DEF Link
  <2>11. j + 1 = k + 1
    BY <2>6, <2>10 DEF IInv, NoRepeats
  <2>. QED BY <2>1, <2>11, LinkIndexFacts DEF IInv
<1>3. ToRemove = {i}
  BY <1>2
<1>4. i \in Nat
  BY LinkIndexFacts DEF ToRemove, IInv
<1>5. First({i}) = i
  BY <1>4 DEF First
<1>. QED BY <1>3, <1>5

\* Link_Write with an address: a new address is in the table once, and so is a
\* new link.
LEMMA AddInv ==
    ASSUME IInv, NEW o \in Object, NEW g \in GAddr, Link_Write_Add(o, g)
    PROVE  IInv'
<1>. USE DEF IInv
<1>1. /\ gaddrs \in Seq(GAddr) /\ Len(gaddrs) \in Nat
      /\ links \in Seq(Link) /\ Len(links) \in Nat
  BY DEF TypeOK
<1>2. PICK i \in Nat :
        /\ links' = AddLink(o, i)
        /\ \/ gaddrs' = gaddrs /\ i < Len(gaddrs)
           \/ gaddrs' = Append(gaddrs, g) /\ i = Len(gaddrs) /\ Indexes(g) = {}
  <2>1. CASE Indexes(g) = {}
    BY <1>1, <2>1 DEF Link_Write_Add
  <2>2. CASE Indexes(g) # {}
    BY <2>2, IndexUnique DEF Link_Write_Add
  <2>. QED BY <2>1, <2>2
<1>3. /\ gaddrs' \in Seq(GAddr)
      /\ Len(gaddrs') \in Nat /\ Len(gaddrs') >= Len(gaddrs) /\ i < Len(gaddrs')
      /\ \A j, k \in 1..Len(gaddrs') : gaddrs'[j] = gaddrs'[k] => j = k
  <2>1. CASE gaddrs' = gaddrs /\ i < Len(gaddrs)
    BY <1>1, <2>1 DEF NoRepeats
  <2>2. CASE gaddrs' = Append(gaddrs, g) /\ i = Len(gaddrs) /\ Indexes(g) = {}
    <3>1. /\ gaddrs' \in Seq(GAddr)
          /\ Len(gaddrs') = Len(gaddrs) + 1
          /\ \A j \in 1..Len(gaddrs) : gaddrs'[j] = gaddrs[j]
          /\ gaddrs'[Len(gaddrs) + 1] = g
      BY <1>1, <2>2, AppendProperties
    <3>2. \A j \in 1..Len(gaddrs) : gaddrs[j] # g
      <4>. SUFFICES ASSUME NEW j \in 1..Len(gaddrs), gaddrs[j] = g PROVE FALSE
        OBVIOUS
      <4>1. j - 1 \in Indexes(g)
        <5>1. j - 1 \in 0..Len(gaddrs) /\ j - 1 < Len(gaddrs) /\ (j - 1) + 1 = j
          BY <1>1
        <5>. QED BY <5>1 DEF Indexes, GetGroupAddrByIndex
      <4>. QED BY <2>2, <4>1
    <3>3. \A j \in 1..Len(gaddrs') : j \in 1..Len(gaddrs) \/ j = Len(gaddrs) + 1
      BY <1>1, <3>1
    <3>4. ASSUME NEW j \in 1..Len(gaddrs'), NEW k \in 1..Len(gaddrs'), gaddrs'[j] = gaddrs'[k]
          PROVE  j = k
      BY <3>1, <3>2, <3>3, <3>4 DEF NoRepeats
    <3>. QED BY <1>1, <2>2, <3>1, <3>4
  <2>. QED BY <1>2, <2>1, <2>2
<1>4. /\ links' \in Seq(Link)
      /\ \A j, k \in 1..Len(links') : links'[j] = links'[k] => j = k
      /\ \A j \in 1..Len(links') : links'[j].gaddr < Len(gaddrs')
      /\ Len(links') >= Len(links) /\ Len(links') \in Nat
  <2>0. /\ links' \in Seq(Link)
        /\ \/ links' = links /\ \E j \in 1..Len(links) : links[j] = [gobj |-> o, gaddr |-> i]
           \/ /\ Len(links') = Len(links) + 1
              /\ \A j \in 1..Len(links) :
                    links'[j] = links[j] /\ links[j] # [gobj |-> o, gaddr |-> i]
              /\ links'[Len(links) + 1] = [gobj |-> o, gaddr |-> i]
    BY <1>2, AddEffect
  <2>a. \A j \in 1..Len(links) : links[j].gaddr < Len(gaddrs')
    <3>. SUFFICES ASSUME NEW j \in 1..Len(links) PROVE links[j].gaddr < Len(gaddrs')
      OBVIOUS
    <3>1. links[j] \in Link
      BY <1>1, ElementOfSeq
    <3>2. links[j].gaddr \in Nat /\ links[j].gaddr < Len(gaddrs)
      BY <3>1 DEF Link, LinksInRange
    <3>. QED BY <1>1, <1>3, <3>2
  <2>1. CASE links' = links
    BY <1>1, <2>0, <2>1, <2>a DEF NoRepeats
  <2>2. CASE /\ Len(links') = Len(links) + 1
             /\ \A j \in 1..Len(links) :
                   links'[j] = links[j] /\ links[j] # [gobj |-> o, gaddr |-> i]
             /\ links'[Len(links) + 1] = [gobj |-> o, gaddr |-> i]
    <3>1. \A j \in 1..Len(links') : j \in 1..Len(links) \/ j = Len(links) + 1
      BY <1>1, <2>2
    <3>2. ASSUME NEW j \in 1..Len(links'), NEW k \in 1..Len(links'), links'[j] = links'[k]
          PROVE  j = k
      BY <2>2, <3>1, <3>2 DEF NoRepeats
    <3>3. ASSUME NEW j \in 1..Len(links') PROVE links'[j].gaddr < Len(gaddrs')
      BY <1>3, <2>2, <2>a, <3>1
    <3>. QED BY <1>1, <2>0, <2>2, <3>2, <3>3
  <2>. QED BY <2>0, <2>1, <2>2
<1>5. UNCHANGED <<val, threadVars>>
  BY DEF Link_Write_Add
<1>6. TypeOK'
  BY <1>3, <1>4, <1>5 DEF TypeOK, threadVars
<1>7. ThreadOK'
  <2>1. \A t \in Thread : end[t] \in Nat
    BY DEF TypeOK
  <2>. QED BY <1>1, <1>4, <1>5, <2>1 DEF ThreadOK, threadVars
<1>. QED BY <1>3, <1>4, <1>6, <1>7 DEF NoRepeats, LinksInRange

\* A removal keeps the order of the other links, and stays clear of the
\* applications' loops unless they may overlap.
LEMMA RemoveInv ==
    ASSUME IInv, RemoveOne
    PROVE  IInv'
<1>. USE DEF IInv
<1>. DEFINE i == First(ToRemove)
<1>1. links \in Seq(Link) /\ Len(links) \in Nat
  BY DEF TypeOK
<1>2. i \in LinkIndexes
  BY ToRemoveUnique DEF RemoveOne, ToRemove
<1>3. i \in Nat /\ i < Len(links)
  BY <1>2, LinkIndexFacts
<1>4. /\ links' = RemoveLinkByIndex(i)
      /\ UNCHANGED <<gaddrs, val, threadVars>>
      /\ pc[Listener] = "remove"
      /\ Overlap \/ \A s \in Setters : pc[s] # "walk"
  BY DEF RemoveOne
<1>. HIDE DEF i
<1>5. /\ links' \in Seq(Link) /\ Len(links') = Len(links) - 1
      /\ \A j \in 1..(Len(links) - 1) :
            links'[j] = IF j <= i THEN links[j] ELSE links[j + 1]
  BY <1>2, <1>4, RemoveEffect
<1>6. \A j \in 1..Len(links') : \E k \in 1..Len(links) :
        links'[j] = links[k] /\ (k = IF j <= i THEN j ELSE j + 1)
  BY <1>1, <1>3, <1>5
<1>7. NoRepeats'
  <2>1. ASSUME NEW j \in 1..Len(links'), NEW k \in 1..Len(links'), links'[j] = links'[k]
        PROVE  j = k
    <3>1. PICK x \in 1..Len(links) : links'[j] = links[x] /\ (x = IF j <= i THEN j ELSE j + 1)
      BY <1>6
    <3>2. PICK y \in 1..Len(links) : links'[k] = links[y] /\ (y = IF k <= i THEN k ELSE k + 1)
      BY <1>6
    <3>3. x = y
      BY <2>1, <3>1, <3>2 DEF NoRepeats
    <3>. QED BY <1>1, <1>3, <1>5, <3>1, <3>2, <3>3
  <2>2. gaddrs' = gaddrs
    BY <1>4
  <2>. QED BY <2>1, <2>2 DEF NoRepeats
<1>8. LinksInRange'
  BY <1>4, <1>6 DEF LinksInRange
<1>9. TypeOK'
  BY <1>4, <1>5 DEF TypeOK, threadVars
<1>10. ThreadOK'
  <2>1. \A t \in Thread : ~Overlap => pc[t] # "walk"
    BY <1>4 DEF Thread
  <2>. QED BY <1>4, <2>1 DEF ThreadOK, threadVars
<1>. QED BY <1>7, <1>8, <1>9, <1>10

\* The steps that write values or move a thread leave the tables alone.
LEMMA TablesKept ==
    ASSUME NoRepeats, LinksInRange, UNCHANGED <<gaddrs, links>>
    PROVE  NoRepeats' /\ LinksInRange'
BY DEF NoRepeats, LinksInRange

\* What GetGaddrsOfGobjs returns: addresses at distinct places, each of them once.
LEMMA GaddrsFacts ==
    ASSUME IInv, NEW o
    PROVE  /\ GetGaddrsOfGobjs(o) \subseteq Place
           /\ \A p, q \in GetGaddrsOfGobjs(o) : p.addr = q.addr \/ p.place = q.place => p = q
<1>. USE DEF IInv
<1>1. \A i \in LinkIndexes : i \in Nat /\ GetLinkByIndex(i).gaddr \in Nat
                             /\ GetLinkByIndex(i).gaddr + 1 \in 1..Len(gaddrs)
  <2>. TAKE i \in LinkIndexes
  <2>1. /\ i \in Nat /\ i + 1 \in 1..Len(links)
        /\ links[i + 1] \in Link /\ GetLinkByIndex(i) = links[i + 1]
    BY LinkIndexFacts
  <2>2. links[i + 1].gaddr \in Nat /\ links[i + 1].gaddr < Len(gaddrs)
    BY <2>1 DEF Link, LinksInRange
  <2>3. Len(gaddrs) \in Nat
    BY DEF TypeOK
  <2>. QED BY <2>1, <2>2, <2>3
<1>2. \A i \in LinkIndexes : Address(i) \in GAddr
  BY <1>1, ElementOfSeq DEF Address, GetGroupAddrByIndex, TypeOK
<1>3. GetGaddrsOfGobjs(o) \subseteq Place
  BY <1>1, <1>2 DEF GetGaddrsOfGobjs, Place
<1>4. ASSUME NEW i \in LinkIndexes, NEW j \in LinkIndexes, Address(i) = Address(j),
             GetLinkByIndex(i).gobj = GetLinkByIndex(j).gobj
      PROVE  i = j
  <2>1. GetLinkByIndex(i).gaddr + 1 = GetLinkByIndex(j).gaddr + 1
    BY <1>1, <1>4 DEF Address, GetGroupAddrByIndex, NoRepeats
  <2>2. GetLinkByIndex(i).gaddr = GetLinkByIndex(j).gaddr
    BY <1>1, <2>1
  <2>3. GetLinkByIndex(i) \in Link /\ GetLinkByIndex(j) \in Link
    BY LinkIndexFacts
  <2>4. GetLinkByIndex(i) = GetLinkByIndex(j)
    BY <1>4, <2>2, <2>3 DEF Link
  <2>5. i + 1 = j + 1
    BY <2>4, LinkIndexFacts DEF NoRepeats
  <2>. QED BY <1>1, <2>5
<1>5. ASSUME NEW p \in GetGaddrsOfGobjs(o), NEW q \in GetGaddrsOfGobjs(o),
             p.addr = q.addr \/ p.place = q.place
      PROVE  p = q
  <2>1. PICK i \in LinkIndexes : GetLinkByIndex(i).gobj = o /\ p = [place |-> i, addr |-> Address(i)]
    BY DEF GetGaddrsOfGobjs
  <2>2. PICK j \in LinkIndexes : GetLinkByIndex(j).gobj = o /\ q = [place |-> j, addr |-> Address(j)]
    BY DEF GetGaddrsOfGobjs
  <2>3. p.addr = Address(i) /\ q.addr = Address(j) /\ p.place = i /\ q.place = j
    BY <2>1, <2>2
  <2>4. i = j
    BY <1>4, <1>5, <2>1, <2>2, <2>3
  <2>. QED BY <2>1, <2>2, <2>4
<1>. QED BY <1>3, <1>5

\* The steps that move one thread: the record of the thread is in order afterwards.
LEMMA StepInv ==
    ASSUME IInv,
           NEW t \in Thread,
           \/ t = Listener /\ \E o \in Object, g \in GAddr : Link_Write_Remove(o, g)
           \/ t = Listener /\ \E g \in GAddr, v \in Value : GroupValue_Write(g, v)
           \/ t = Listener /\ RemoveDone
           \/ t \in Setters /\ Setting(t)
           \/ WalkBegin(t) \/ WalkLink(t) \/ WalkEnd(t) \/ WriteDone(t)
    PROVE  IInv'
<1>. USE DEF IInv
<1>0. /\ Listener \in Thread /\ Listener \notin Setters /\ Setters \subseteq Thread
      /\ Present \subseteq Object /\ NoValue \notin Value
  BY ThreadAssumption, ObjectAssumption, ValueAssumption DEF Thread
<1>a. Len(links) \in Nat /\ Len(gaddrs) \in Nat
  BY DEF TypeOK
<1>1. CASE \E o \in Object, g \in GAddr : Link_Write_Remove(o, g)
  <2>1. PICK o \in Object, g \in GAddr : Link_Write_Remove(o, g)
    BY <1>1
  <2>2. [place |-> 0, addr |-> g] \in Place
    BY DEF Place
  <2>3. TypeOK'
    BY <1>0, <2>1, <2>2 DEF TypeOK, Link_Write_Remove
  <2>4. ThreadOK'
    BY <1>0, <2>1 DEF TypeOK, ThreadOK, Link_Write_Remove
  <2>. QED BY <2>1, <2>3, <2>4, TablesKept DEF Link_Write_Remove
<1>2. CASE \E g \in GAddr, v \in Value : GroupValue_Write(g, v)
  <2>1. PICK g \in GAddr, v \in Value : GroupValue_Write(g, v)
    BY <1>2
  <2>2. [place |-> 0, addr |-> g] \in Place
    BY DEF Place
  <2>3. TypeOK'
    BY <1>0, <2>1, <2>2 DEF TypeOK, GroupValue_Write
  <2>4. ThreadOK'
    BY <1>0, <2>1 DEF TypeOK, ThreadOK, GroupValue_Write
  <2>. QED BY <2>1, <2>3, <2>4, TablesKept DEF GroupValue_Write
<1>3. CASE RemoveDone
  <2>3. TypeOK'
    BY <1>0, <1>3 DEF TypeOK, RemoveDone
  <2>4. ThreadOK'
    BY <1>0, <1>3 DEF TypeOK, ThreadOK, RemoveDone
  <2>. QED BY <1>3, <2>3, <2>4, TablesKept DEF RemoveDone
<1>4. CASE t \in Setters /\ \E o \in Object, v \in Value, only \in BOOLEAN : SetBegin(t, o, v, only)
  <2>1. PICK o \in Object, v \in Value, only \in BOOLEAN : SetBegin(t, o, v, only)
    BY <1>4
  <2>2. (~only \/ val[o] # v) \in BOOLEAN
    OBVIOUS
  <2>3. TypeOK'
    BY <1>0, <2>1, <2>2 DEF TypeOK, SetBegin
  <2>4. ThreadOK'
    BY <1>0, <1>4, <2>1 DEF TypeOK, ThreadOK, SetBegin
  <2>. QED BY <2>1, <2>3, <2>4, TablesKept DEF SetBegin
<1>5. CASE t \in Setters /\ SetOwn(t)
  <2>1. data[t] \in Value
    BY <1>5 DEF TypeOK, ThreadOK, SetOwn
  <2>3. TypeOK'
    BY <1>0, <1>5, <2>1 DEF TypeOK, SetOwn
  <2>4. ThreadOK'
    BY <1>0, <1>5, <2>1 DEF TypeOK, ThreadOK, SetOwn
  <2>. QED BY <1>5, <2>3, <2>4, TablesKept DEF SetOwn
<1>6. CASE t \in Setters /\ SetLook(t)
  <2>1. /\ GetGaddrsOfGobjs(gobj[t]) \subseteq Place
        /\ \A p, q \in GetGaddrsOfGobjs(gobj[t]) : p.addr = q.addr \/ p.place = q.place => p = q
    BY GaddrsFacts
  <2>3. TypeOK'
    BY <1>0, <1>6, <2>1 DEF TypeOK, SetLook
  <2>4. ThreadOK'
    BY <1>0, <1>6, <2>1 DEF TypeOK, ThreadOK, SetLook
  <2>. QED BY <1>6, <2>3, <2>4, TablesKept DEF SetLook
<1>7. CASE WalkBegin(t)
  <2>1. PICK p \in todo[t] :
          /\ todo' = [todo EXCEPT ![t] = @ \ {p}]
          /\ IF Indexes(p.addr) = {}
             THEN UNCHANGED <<pc, index, at, end>>
             ELSE /\ pc' = [pc EXCEPT ![t] = "walk"]
                  /\ index' = [index EXCEPT ![t] = First(Indexes(p.addr))]
                  /\ at' = [at EXCEPT ![t] = 0]
                  /\ end' = [end EXCEPT ![t] = Len(links)]
    BY <1>7 DEF WalkBegin
  <2>2. UNCHANGED <<gaddrs, links, val, gobj, data, send>> /\ pc[t] = "next"
    BY <1>7 DEF WalkBegin
  <2>3. Indexes(p.addr) # {} => First(Indexes(p.addr)) \in Nat
    BY IndexUnique
  <2>4. TypeOK'
    <3>1. todo' \in [Thread -> SUBSET Place]
      BY <2>1 DEF TypeOK
    <3>2. /\ pc' \in [Thread -> {"idle", "remove", "set", "look", "next", "walk"}]
          /\ index' \in [Thread -> Nat] /\ at' \in [Thread -> Nat] /\ end' \in [Thread -> Nat]
      <4>1. CASE Indexes(p.addr) = {}
        BY <2>1, <4>1 DEF TypeOK
      <4>2. CASE Indexes(p.addr) # {}
        <5>1. /\ pc' = [pc EXCEPT ![t] = "walk"]
              /\ index' = [index EXCEPT ![t] = First(Indexes(p.addr))]
              /\ at' = [at EXCEPT ![t] = 0] /\ end' = [end EXCEPT ![t] = Len(links)]
          BY <2>1, <4>2
        <5>2. First(Indexes(p.addr)) \in Nat
          BY <2>3, <4>2
        <5>. QED BY <1>a, <5>1, <5>2 DEF TypeOK
      <4>. QED BY <4>1, <4>2
    <3>. QED BY <2>2, <3>1, <3>2 DEF TypeOK
  <2>5. ThreadOK'
    BY <1>0, <1>a, <2>1, <2>2 DEF TypeOK, ThreadOK
  <2>. QED BY <2>2, <2>4, <2>5, TablesKept
<1>8. CASE WalkLink(t)
  <2>1. /\ UNCHANGED <<gaddrs, links, pc, gobj, data, send, todo, index, end>>
        /\ at' = [at EXCEPT ![t] = @ + 1]
        /\ pc[t] = "walk" /\ at[t] < end[t]
    BY <1>8 DEF WalkLink
  <2>2. data[t] \in Value
    BY <2>1 DEF TypeOK, ThreadOK
  <2>3. val' \in [Present -> Value]
    <3>1. PICK link : val' = IF link.gaddr = index[t] /\ link.gobj \in Present
                             THEN [val EXCEPT ![link.gobj] = data[t]] ELSE val
      BY <1>8 DEF WalkLink
    <3>. QED BY <2>2, <3>1 DEF TypeOK
  <2>4. TypeOK'
    BY <2>1, <2>3 DEF TypeOK
  <2>5. ThreadOK'
    BY <2>1 DEF TypeOK, ThreadOK
  <2>. QED BY <2>1, <2>4, <2>5, TablesKept
<1>9. CASE WalkEnd(t)
  <2>1. TypeOK'
    BY <1>9 DEF TypeOK, WalkEnd
  <2>2. ThreadOK'
    BY <1>9 DEF TypeOK, ThreadOK, WalkEnd
  <2>. QED BY <1>9, <2>1, <2>2, TablesKept DEF WalkEnd
<1>10. CASE WriteDone(t)
  <2>1. TypeOK'
    BY <1>10 DEF TypeOK, WriteDone
  <2>2. ThreadOK'
    BY <1>0, <1>10 DEF TypeOK, ThreadOK, WriteDone
  <2>. QED BY <1>10, <2>1, <2>2, TablesKept DEF WriteDone
<1>. QED
  BY <1>1, <1>2, <1>3, <1>4, <1>5, <1>6, <1>7, <1>8, <1>9, <1>10 DEF Setting

LEMMA NextInv == IInv /\ [Next]_vars => IInv'
<1>. SUFFICES ASSUME IInv, [Next]_vars PROVE IInv'
  OBVIOUS
<1>0. Listener \in Thread /\ Setters \subseteq Thread
  BY DEF Thread
<1>1. ASSUME NEW o \in Object, NEW g \in GAddr, Link_Write_Add(o, g) PROVE IInv'
  BY <1>1, AddInv
<1>2. CASE RemoveOne
  BY <1>2, RemoveInv
<1>3. CASE UNCHANGED vars
  <2>1. /\ gaddrs' = gaddrs /\ links' = links /\ val' = val
        /\ pc' = pc /\ gobj' = gobj /\ data' = data /\ send' = send
        /\ todo' = todo /\ index' = index /\ at' = at /\ end' = end
    BY <1>3 DEF vars, threadVars
  <2>2. TypeOK'
    BY <2>1 DEF IInv, TypeOK
  <2>3. ThreadOK'
    BY <2>1 DEF IInv, ThreadOK
  <2>. QED BY <2>1, <2>2, <2>3, TablesKept DEF IInv
<1>. QED
  BY <1>0, <1>1, <1>2, <1>3, StepInv DEF Next, Requests

\* Whatever the requests and the applications do, an address has one index, a link
\* is in the table once and names an address the device has.
THEOREM Invariance == Spec => []IInv
BY InitInv, NextInv, PTL DEF Spec

-----------------------------------------------------------------------------
(* The refinement.                                                         *)

\* A pair of the relation is a position of the link table.
LEMMA LinkedFacts ==
    ASSUME IInv, NEW o, NEW g
    PROVE  <<o, g>> \in Linked <=>
             \E j \in 1..Len(links) : links[j].gobj = o /\ gaddrs[links[j].gaddr + 1] = g
<1>. USE DEF IInv
<1>1. \A i \in LinkIndexes : /\ GetLinkByIndex(i) = links[i + 1] /\ i + 1 \in 1..Len(links)
                             /\ Address(i) = gaddrs[links[i + 1].gaddr + 1]
  BY LinkIndexFacts DEF Address, GetGroupAddrByIndex
<1>2. \A j \in 1..Len(links) : j - 1 \in LinkIndexes /\ (j - 1) + 1 = j
  BY DEF LinkIndexes, TypeOK
<1>3. ASSUME <<o, g>> \in Linked
      PROVE  \E j \in 1..Len(links) : links[j].gobj = o /\ gaddrs[links[j].gaddr + 1] = g
  <2>1. PICK i \in LinkIndexes : <<o, g>> = <<GetLinkByIndex(i).gobj, Address(i)>>
    BY <1>3 DEF Linked
  <2>. QED BY <1>1, <2>1
<1>4. ASSUME NEW j \in 1..Len(links), links[j].gobj = o, gaddrs[links[j].gaddr + 1] = g
      PROVE  <<o, g>> \in Linked
  <2>1. j - 1 \in LinkIndexes /\ (j - 1) + 1 = j
    BY <1>2
  <2>2. GetLinkByIndex(j - 1).gobj = o /\ Address(j - 1) = g
    BY <1>1, <1>4, <2>1
  <2>. QED BY <2>1, <2>2 DEF Linked
<1>. QED BY <1>3, <1>4

\* A thread in its loop over the links: its bounds are inside the table.
LEMMA RemainingFacts ==
    ASSUME IInv, ~Overlap, NEW t \in Thread, pc[t] = "walk", NEW o
    PROVE  /\ at[t] \in Nat /\ end[t] \in Nat /\ at[t] <= end[t] /\ end[t] <= Len(links)
           /\ o \in Remaining(t) <=>
                /\ o \in Present
                /\ \E j \in 1..end[t] : at[t] < j /\ links[j].gobj = o /\ links[j].gaddr = index[t]
<1>. USE DEF IInv
<1>1. at[t] \in Nat /\ end[t] \in Nat /\ at[t] <= end[t] /\ end[t] <= Len(links) /\ Len(links) \in Nat
  BY DEF TypeOK, ThreadOK
<1>2. \A i \in LinkIndexes : GetLinkByIndex(i) = links[i + 1] /\ i \in Nat /\ i < Len(links)
  BY LinkIndexFacts
<1>3. ASSUME o \in Remaining(t)
      PROVE  /\ o \in Present
             /\ \E j \in 1..end[t] : at[t] < j /\ links[j].gobj = o /\ links[j].gaddr = index[t]
  <2>1. PICK i \in LinkIndexes : /\ at[t] <= i /\ i < end[t] /\ GetLinkByIndex(i).gaddr = index[t]
                                 /\ GetLinkByIndex(i).gobj = o
    BY <1>3 DEF Remaining
  <2>2. i + 1 \in 1..end[t] /\ at[t] < i + 1
    BY <1>1, <1>2, <2>1
  <2>3. links[i + 1].gobj = o /\ links[i + 1].gaddr = index[t]
    BY <1>2, <2>1
  <2>. QED BY <1>3, <2>2, <2>3 DEF Remaining
<1>4. ASSUME o \in Present, NEW j \in 1..end[t], at[t] < j, links[j].gobj = o, links[j].gaddr = index[t]
      PROVE  o \in Remaining(t)
  <2>1. j - 1 \in LinkIndexes /\ at[t] <= j - 1 /\ j - 1 < end[t] /\ (j - 1) + 1 = j
    BY <1>1, <1>4 DEF LinkIndexes
  <2>2. GetLinkByIndex(j - 1) = links[j]
    BY <2>1 DEF GetLinkByIndex
  <2>. QED BY <1>4, <2>1, <2>2 DEF Remaining
<1>. QED BY <1>1, <1>3, <1>4

\* The same of a state and of the next one.
LinkedPositions == \A o, g : <<o, g>> \in Linked <=>
    \E j \in 1..Len(links) : links[j].gobj = o /\ gaddrs[links[j].gaddr + 1] = g

RemainingPositions == \A t \in Thread : ~Overlap /\ pc[t] = "walk" => \A o :
    o \in Remaining(t) <=>
        /\ o \in Present
        /\ \E j \in 1..end[t] : at[t] < j /\ links[j].gobj = o /\ links[j].gaddr = index[t]

LEMMA Positions == IInv => LinkedPositions /\ RemainingPositions
<1>1. ASSUME IInv PROVE LinkedPositions
  BY <1>1, LinkedFacts DEF LinkedPositions
<1>2. ASSUME IInv PROVE RemainingPositions
  BY <1>2, RemainingFacts DEF RemainingPositions
<1>. QED BY <1>1, <1>2

LEMMA PositionsNext == IInv' => LinkedPositions' /\ RemainingPositions'
BY Positions, PTL

LEMMA RefInit == Init => Relation!Init
<1>. SUFFICES ASSUME Init PROVE Relation!Init
  OBVIOUS
<1>1. LinkIndexes = {}
  BY EmptySeq DEF Init, LinkIndexes
<1>2. Linked = {}
  BY <1>1 DEF Linked
<1>. QED BY <1>2 DEF Init, Relation!Init, AbsData, AbsOwn, AbsDue, AbsLeft, Remaining

\* Adding a link that is there already is a stutter of the pairs; a new one comes
\* after the links the loops go over.
LEMMA RefAdd ==
    ASSUME IInv, ~Overlap, NEW o \in Object, NEW g \in GAddr, Link_Write_Add(o, g)
    PROVE  Relation!Link(o, g)
<1>. USE DEF IInv
<1>1. /\ gaddrs \in Seq(GAddr) /\ Len(gaddrs) \in Nat
      /\ links \in Seq(Link) /\ Len(links) \in Nat
  BY DEF TypeOK
<1>2. IInv'
  BY AddInv
<1>3. PICK i \in Nat :
        /\ links' = AddLink(o, i)
        /\ gaddrs'[i + 1] = g
        /\ \A j \in 1..Len(gaddrs) : gaddrs'[j] = gaddrs[j]
  <2>1. CASE Indexes(g) = {}
    <3>1. gaddrs' = Append(gaddrs, g) /\ links' = AddLink(o, Len(gaddrs))
      BY <2>1 DEF Link_Write_Add
    <3>2. /\ \A j \in 1..Len(gaddrs) : Append(gaddrs, g)[j] = gaddrs[j]
          /\ Append(gaddrs, g)[Len(gaddrs) + 1] = g
      BY <1>1, AppendProperties
    <3>. QED BY <1>1, <3>1, <3>2
  <2>2. CASE Indexes(g) # {}
    BY <2>2, IndexUnique DEF Link_Write_Add
  <2>. QED BY <2>1, <2>2
<1>4. /\ Len(links') \in Nat /\ Len(links) <= Len(links')
      /\ \A j \in 1..Len(links) : links'[j] = links[j]
      /\ \E j \in 1..Len(links') : links'[j] = [gobj |-> o, gaddr |-> i]
      /\ \A j \in 1..Len(links') : j \in 1..Len(links) \/ links'[j] = [gobj |-> o, gaddr |-> i]
  <2>1. \/ /\ links' = links
           /\ \E j \in 1..Len(links) : links[j] = [gobj |-> o, gaddr |-> i]
        \/ /\ Len(links') = Len(links) + 1
           /\ \A j \in 1..Len(links) : links'[j] = links[j]
           /\ links'[Len(links) + 1] = [gobj |-> o, gaddr |-> i]
    BY <1>3, AddEffect
  <2>2. CASE links' = links /\ \E j \in 1..Len(links) : links[j] = [gobj |-> o, gaddr |-> i]
    BY <1>1, <2>2
  <2>3. CASE /\ Len(links') = Len(links) + 1
             /\ \A j \in 1..Len(links) : links'[j] = links[j]
             /\ links'[Len(links) + 1] = [gobj |-> o, gaddr |-> i]
    <3>1. \A j \in 1..Len(links') : j \in 1..Len(links) \/ j = Len(links) + 1
      BY <1>1, <2>3
    <3>2. Len(links) + 1 \in 1..Len(links')
      BY <1>1, <2>3
    <3>. QED BY <1>1, <2>3, <3>1, <3>2
  <2>. QED BY <2>1, <2>2, <2>3
<1>5. \A j \in 1..Len(links) : links[j].gaddr + 1 \in 1..Len(gaddrs)
  <2>. TAKE j \in 1..Len(links)
  <2>1. links[j] \in Link
    BY <1>1, ElementOfSeq
  <2>. QED BY <1>1, <2>1 DEF Link, LinksInRange
<1>6. Linked' = Linked \cup {<<o, g>>}
  <2>1. ASSUME NEW x, NEW y
        PROVE  <<x, y>> \in Linked' <=> <<x, y>> \in Linked \/ <<x, y>> = <<o, g>>
    <3>1. <<x, y>> \in Linked' <=>
            \E j \in 1..Len(links') : links'[j].gobj = x /\ gaddrs'[links'[j].gaddr + 1] = y
      BY <1>2, PositionsNext DEF LinkedPositions
    <3>2. <<x, y>> \in Linked <=>
            \E j \in 1..Len(links) : links[j].gobj = x /\ gaddrs[links[j].gaddr + 1] = y
      BY LinkedFacts
    <3>3. \A j \in 1..Len(links) : j \in 1..Len(links')
      BY <1>1, <1>4
    <3>4. ASSUME NEW j \in 1..Len(links)
          PROVE  /\ links'[j] = links[j] /\ j \in 1..Len(links')
                 /\ gaddrs'[links'[j].gaddr + 1] = gaddrs[links[j].gaddr + 1]
      BY <1>3, <1>4, <1>5, <3>3
    <3>5. PICK k \in 1..Len(links') : links'[k] = [gobj |-> o, gaddr |-> i]
      BY <1>4
    <3>6. links'[k].gobj = o /\ gaddrs'[links'[k].gaddr + 1] = g
      BY <1>3, <3>5
    <3>7. ASSUME <<x, y>> \in Linked' PROVE <<x, y>> \in Linked \/ <<x, y>> = <<o, g>>
      <4>1. PICK j \in 1..Len(links') : links'[j].gobj = x /\ gaddrs'[links'[j].gaddr + 1] = y
        BY <3>1, <3>7
      <4>2. CASE j \in 1..Len(links)
        BY <3>2, <3>4, <4>1, <4>2
      <4>3. CASE links'[j] = [gobj |-> o, gaddr |-> i]
        BY <1>3, <4>1, <4>3
      <4>. QED BY <1>4, <4>2, <4>3
    <3>8. ASSUME <<x, y>> \in Linked PROVE <<x, y>> \in Linked'
      BY <3>1, <3>2, <3>4, <3>8
    <3>9. ASSUME <<x, y>> = <<o, g>> PROVE <<x, y>> \in Linked'
      BY <3>1, <3>5, <3>6, <3>9
    <3>. QED BY <3>7, <3>8, <3>9
  <2>2. \A z \in Linked : z = <<z[1], z[2]>>
    BY DEF Linked
  <2>3. \A z \in Linked' : z = <<z[1], z[2]>>
    BY DEF Linked
  <2>. QED BY <2>1, <2>2, <2>3
<1>7. UNCHANGED <<val, threadVars>>
  BY DEF Link_Write_Add
<1>8. AbsLeft' = AbsLeft
  <2>1. ASSUME NEW t \in Thread, pc[t] = "walk", NEW x PROVE x \in Remaining(t)' <=> x \in Remaining(t)
    <3>1. /\ at[t] \in Nat /\ end[t] \in Nat /\ end[t] <= Len(links)
          /\ x \in Remaining(t) <=>
               /\ x \in Present
               /\ \E j \in 1..end[t] : at[t] < j /\ links[j].gobj = x /\ links[j].gaddr = index[t]
      BY <2>1, RemainingFacts
    <3>2. x \in Remaining(t)' <=>
               /\ x \in Present
               /\ \E j \in 1..end'[t] : at'[t] < j /\ links'[j].gobj = x /\ links'[j].gaddr = index'[t]
      <4>1. pc'[t] = "walk"
        BY <1>7, <2>1 DEF threadVars
      <4>. QED BY <1>2, <4>1, PositionsNext DEF RemainingPositions
    <3>3. \A j \in 1..end[t] : links'[j] = links[j]
      BY <1>1, <1>4, <3>1
    <3>. QED BY <1>7, <3>1, <3>2, <3>3 DEF threadVars
  <2>2. ASSUME NEW t \in Thread PROVE Remaining(t)' = Remaining(t)
    <3>1. CASE pc[t] = "walk"
      BY <2>1, <3>1
    <3>2. CASE pc[t] # "walk"
      BY <1>7, <3>2 DEF Remaining, threadVars
    <3>. QED BY <3>1, <3>2
  <2>. QED BY <2>2 DEF AbsLeft
<1>9. UNCHANGED <<AbsData, AbsOwn, AbsDue>>
  BY <1>7 DEF AbsData, AbsOwn, AbsDue, threadVars
<1>. QED BY <1>6, <1>7, <1>8, <1>9 DEF Relation!Link

\* A removal takes one pair from the relation, for a link is in the table once; no
\* loop is under way.
LEMMA RefRemove ==
    ASSUME IInv, ~Overlap, RemoveOne
    PROVE  \E o \in Object, g \in GAddr : Relation!Unlink(o, g)
<1>. USE DEF IInv
<1>. DEFINE i == First(ToRemove)
<1>0. /\ links \in Seq(Link) /\ Len(links) \in Nat
      /\ gaddrs \in Seq(GAddr) /\ Len(gaddrs) \in Nat
  BY DEF TypeOK
<1>1. i \in LinkIndexes /\ i \in ToRemove
  BY ToRemoveUnique DEF RemoveOne, ToRemove
<1>2. /\ i \in Nat /\ i < Len(links) /\ i + 1 \in 1..Len(links)
      /\ GetLinkByIndex(i) = links[i + 1] /\ links[i + 1] \in Link
  BY <1>1, LinkIndexFacts
<1>3. /\ links' = RemoveLinkByIndex(i)
      /\ UNCHANGED <<gaddrs, val, threadVars>>
      /\ pc[Listener] = "remove"
      /\ \A s \in Setters : pc[s] # "walk"
  BY DEF RemoveOne
<1>. DEFINE o == links[i + 1].gobj
            g == gaddrs[links[i + 1].gaddr + 1]
<1>. HIDE DEF i
<1>4. /\ Len(links') = Len(links) - 1
      /\ \A j \in 1..(Len(links) - 1) :
            links'[j] = IF j <= i THEN links[j] ELSE links[j + 1]
  BY <1>1, <1>3, RemoveEffect
<1>5. \A j \in 1..Len(links) : /\ links[j] \in Link /\ links[j].gaddr \in Nat
                              /\ links[j].gaddr + 1 \in 1..Len(gaddrs)
  <2>. TAKE j \in 1..Len(links)
  <2>1. links[j] \in Link
    BY <1>0, ElementOfSeq
  <2>. QED BY <1>0, <2>1 DEF Link, LinksInRange
<1>6. o \in Object /\ g \in GAddr
  BY <1>0, <1>2, <1>5, ElementOfSeq DEF Link
<1>7. \A j \in 1..Len(links) :
        links[j].gobj = o /\ gaddrs[links[j].gaddr + 1] = g => j = i + 1
  <2>. SUFFICES ASSUME NEW j \in 1..Len(links), links[j].gobj = o, gaddrs[links[j].gaddr + 1] = g
                PROVE  j = i + 1
    OBVIOUS
  <2>1. links[j].gaddr + 1 = links[i + 1].gaddr + 1
    BY <1>2, <1>5 DEF NoRepeats
  <2>2. links[j].gaddr = links[i + 1].gaddr
    BY <1>2, <1>5, <2>1
  <2>3. links[j] = links[i + 1]
    BY <1>2, <1>5, <2>2 DEF Link
  <2>. QED BY <1>2, <2>3 DEF NoRepeats
<1>. HIDE DEF o, g
<1>8. \A j \in 1..Len(links') : \E k \in 1..Len(links) : k # i + 1 /\ links'[j] = links[k]
  <2>. SUFFICES ASSUME NEW j \in 1..Len(links')
                PROVE  \E k \in 1..Len(links) : k # i + 1 /\ links'[j] = links[k]
    OBVIOUS
  <2>1. links'[j] = IF j <= i THEN links[j] ELSE links[j + 1]
    BY <1>4
  <2>2. CASE j <= i
    <3>1. j \in 1..Len(links) /\ j # i + 1
      BY <1>0, <1>2, <1>4, <2>2
    <3>. QED BY <2>1, <2>2, <3>1
  <2>3. CASE ~(j <= i)
    <3>1. j + 1 \in 1..Len(links) /\ j + 1 # i + 1
      BY <1>0, <1>2, <1>4, <2>3
    <3>. QED BY <2>1, <2>3, <3>1
  <2>. QED BY <2>2, <2>3
<1>9. \A k \in 1..Len(links) : k # i + 1 => \E j \in 1..Len(links') : links'[j] = links[k]
  <2>. SUFFICES ASSUME NEW k \in 1..Len(links), k # i + 1
                PROVE  \E j \in 1..Len(links') : links'[j] = links[k]
    OBVIOUS
  <2>1. CASE k <= i
    <3>1. k \in 1..Len(links') /\ links'[k] = links[k]
      BY <1>0, <1>2, <1>4, <2>1
    <3>. QED BY <3>1
  <2>2. CASE ~(k <= i)
    <3>1. k - 1 \in 1..Len(links') /\ ~(k - 1 <= i) /\ (k - 1) + 1 = k
      BY <1>0, <1>2, <1>4, <2>2
    <3>2. links'[k - 1] = links[k]
      BY <1>4, <3>1
    <3>. QED BY <3>1, <3>2
  <2>. QED BY <2>1, <2>2
<1>10. IInv'
  BY RemoveInv
<1>11. Linked' = Linked \ {<<o, g>>}
  <2>1. ASSUME NEW x, NEW y
        PROVE  <<x, y>> \in Linked' <=> <<x, y>> \in Linked /\ <<x, y>> # <<o, g>>
    <3>1. <<x, y>> \in Linked' <=>
            \E j \in 1..Len(links') : links'[j].gobj = x /\ gaddrs[links'[j].gaddr + 1] = y
      BY <1>3, <1>10, PositionsNext DEF LinkedPositions
    <3>2. <<x, y>> \in Linked <=>
            \E j \in 1..Len(links) : links[j].gobj = x /\ gaddrs[links[j].gaddr + 1] = y
      BY LinkedFacts
    <3>3. ASSUME <<x, y>> \in Linked' PROVE <<x, y>> \in Linked /\ <<x, y>> # <<o, g>>
      <4>1. PICK j \in 1..Len(links') : links'[j].gobj = x /\ gaddrs[links'[j].gaddr + 1] = y
        BY <3>1, <3>3
      <4>2. PICK k \in 1..Len(links) : k # i + 1 /\ links'[j] = links[k]
        BY <1>8
      <4>. QED BY <1>7, <3>2, <4>1, <4>2
    <3>4. ASSUME <<x, y>> \in Linked, <<x, y>> # <<o, g>> PROVE <<x, y>> \in Linked'
      <4>1. PICK k \in 1..Len(links) : links[k].gobj = x /\ gaddrs[links[k].gaddr + 1] = y
        BY <3>2, <3>4
      <4>2. k # i + 1
        BY <3>4, <4>1 DEF o, g
      <4>. QED BY <1>9, <3>1, <4>1, <4>2
    <3>. QED BY <3>3, <3>4
  <2>2. \A z \in Linked : z = <<z[1], z[2]>>
    BY DEF Linked
  <2>3. \A z \in Linked' : z = <<z[1], z[2]>>
    BY DEF Linked
  <2>. QED BY <2>1, <2>2, <2>3
<1>12. AbsLeft' = AbsLeft
  <2>1. \A t \in Thread : pc[t] # "walk" /\ pc'[t] # "walk"
    BY <1>3 DEF Thread, threadVars
  <2>2. \A t \in Thread : Remaining(t) = {} /\ Remaining(t)' = {}
    BY <2>1 DEF Remaining
  <2>. QED BY <2>2 DEF AbsLeft
<1>13. UNCHANGED <<val, AbsData, AbsOwn, AbsDue>>
  BY <1>3 DEF AbsData, AbsOwn, AbsDue, threadVars
<1>. QED BY <1>6, <1>11, <1>12, <1>13 DEF Relation!Unlink

\* The groups of an object in the relation are the addresses GetGaddrsOfGobjs finds.
LEMMA GroupsFound ==
    ASSUME IInv, NEW o
    PROVE  Relation!Groups(o) = {p.addr : p \in GetGaddrsOfGobjs(o)}
<1>1. GetGaddrsOfGobjs(o) \subseteq Place
  BY GaddrsFacts
<1>2. ASSUME NEW g \in GAddr, <<o, g>> \in Linked PROVE \E p \in GetGaddrsOfGobjs(o) : p.addr = g
  <2>1. PICK i \in LinkIndexes : <<o, g>> = <<GetLinkByIndex(i).gobj, Address(i)>>
    BY <1>2 DEF Linked
  <2>2. [place |-> i, addr |-> Address(i)] \in GetGaddrsOfGobjs(o)
    BY <2>1 DEF GetGaddrsOfGobjs
  <2>. QED BY <2>1, <2>2
<1>3. ASSUME NEW p \in GetGaddrsOfGobjs(o) PROVE p.addr \in GAddr /\ <<o, p.addr>> \in Linked
  <2>1. PICK i \in LinkIndexes : GetLinkByIndex(i).gobj = o /\ p = [place |-> i, addr |-> Address(i)]
    BY DEF GetGaddrsOfGobjs
  <2>2. p.addr \in GAddr
    BY <1>1 DEF Place
  <2>3. p.addr = Address(i)
    BY <2>1
  <2>. QED BY <2>1, <2>2, <2>3 DEF Linked
<1>. QED BY <1>2, <1>3 DEF Relation!Groups

\* When a loop begins, the objects it has to write are those linked to the address.
LEMMA BeginGroupStep ==
    ASSUME IInv, ~Overlap, NEW t \in Thread, WalkBegin(t)
    PROVE  \E g \in GAddr : Relation!BeginGroup(t, g)
<1>. USE DEF IInv
<1>0. Len(links) \in Nat /\ Len(gaddrs) \in Nat
  BY DEF TypeOK
<1>1. PICK p \in todo[t] :
        /\ todo' = [todo EXCEPT ![t] = @ \ {p}]
        /\ IF Indexes(p.addr) = {}
           THEN UNCHANGED <<pc, index, at, end>>
           ELSE /\ pc' = [pc EXCEPT ![t] = "walk"]
                /\ index' = [index EXCEPT ![t] = First(Indexes(p.addr))]
                /\ at' = [at EXCEPT ![t] = 0]
                /\ end' = [end EXCEPT ![t] = Len(links)]
  BY DEF WalkBegin
<1>2. UNCHANGED <<gaddrs, links, val, gobj, data, send>> /\ pc[t] = "next"
  BY DEF WalkBegin
<1>3. p.addr \in GAddr
  BY DEF TypeOK, Place
<1>4. IInv'
  BY StepInv
<1>5. \A j \in 1..Len(links) : links[j].gaddr \in Nat /\ links[j].gaddr < Len(gaddrs)
  <2>. TAKE j \in 1..Len(links)
  <2>1. links \in Seq(Link)
    BY DEF TypeOK
  <2>2. links[j] \in Link
    BY <2>1, ElementOfSeq
  <2>. QED BY <2>2 DEF Link, LinksInRange
<1>6. \A o : <<o, p.addr>> \in Linked <=>
        \E j \in 1..Len(links) : links[j].gobj = o /\ gaddrs[links[j].gaddr + 1] = p.addr
  BY LinkedFacts
<1>7. Remaining(t)' = Relation!Members(p.addr)
  <2>1. CASE Indexes(p.addr) = {}
    <3>1. Remaining(t)' = {}
      BY <1>1, <1>2, <2>1 DEF Remaining
    <3>2. ASSUME NEW j \in 1..Len(links), gaddrs[links[j].gaddr + 1] = p.addr PROVE FALSE
      <4>1. links[j].gaddr \in Indexes(p.addr)
        BY <1>0, <1>5, <3>2 DEF Indexes, GetGroupAddrByIndex
      <4>. QED BY <2>1, <4>1
    <3>3. Relation!Members(p.addr) = {}
      BY <1>6, <3>2 DEF Relation!Members
    <3>. QED BY <3>1, <3>3
  <2>2. CASE Indexes(p.addr) # {}
    <3>1. /\ pc'[t] = "walk" /\ index'[t] = First(Indexes(p.addr)) /\ at'[t] = 0
          /\ end'[t] = Len(links)
      BY <1>1, <2>2 DEF TypeOK
    <3>2. /\ gaddrs[First(Indexes(p.addr)) + 1] = p.addr
          /\ \A i \in Nat : i < Len(gaddrs) /\ gaddrs[i + 1] = p.addr => i = First(Indexes(p.addr))
      BY <2>2, IndexUnique
    <3>3. \A o : o \in Remaining(t)' <=>
            /\ o \in Present
            /\ \E j \in 1..Len(links) :
                 0 < j /\ links[j].gobj = o /\ links[j].gaddr = First(Indexes(p.addr))
      BY <1>2, <1>4, <3>1, PositionsNext DEF RemainingPositions
    <3>4. \A j \in 1..Len(links) :
            0 < j /\ (links[j].gaddr = First(Indexes(p.addr)) <=> gaddrs[links[j].gaddr + 1] = p.addr)
      BY <1>0, <1>5, <3>2
    <3>5. ASSUME NEW o \in Remaining(t)' PROVE o \in Relation!Members(p.addr)
      BY <1>6, <3>3, <3>4 DEF Relation!Members
    <3>6. ASSUME NEW o \in Relation!Members(p.addr) PROVE o \in Remaining(t)'
      BY <1>6, <3>3, <3>4 DEF Relation!Members
    <3>. QED BY <3>5, <3>6
  <2>. QED BY <2>1, <2>2
<1>8. \A s \in Thread \ {t} :
        pc'[s] = pc[s] /\ index'[s] = index[s] /\ at'[s] = at[s] /\ end'[s] = end[s]
  BY <1>1 DEF TypeOK
<1>9. pc'[t] \in {"next", "walk"}
  BY <1>1, <1>2 DEF TypeOK
<1>10. AbsLeft' = [AbsLeft EXCEPT ![t] = Relation!Members(p.addr)] /\ AbsLeft[t] = {}
  <2>1. \A s \in Thread \ {t} : Remaining(s)' = Remaining(s)
    <3>. SUFFICES ASSUME NEW s \in Thread \ {t} PROVE Remaining(s)' = Remaining(s)
      OBVIOUS
    <3>1. /\ pc'[s] = pc[s] /\ index'[s] = index[s] /\ at'[s] = at[s] /\ end'[s] = end[s]
          /\ links' = links
      BY <1>2, <1>8
    <3>. QED BY <3>1 DEF Remaining, LinkIndexes, GetLinkByIndex
  <2>2. Remaining(t) = {}
    BY <1>2 DEF Remaining
  <2>. QED BY <1>7, <2>1, <2>2 DEF AbsLeft
<1>11. AbsDue' = [AbsDue EXCEPT ![t] = @ \ {p.addr}] /\ p.addr \in AbsDue[t]
  <2>1. {q.addr : q \in todo[t] \ {p}} = {q.addr : q \in todo[t]} \ {p.addr}
    BY DEF ThreadOK
  <2>2. todo'[t] = todo[t] \ {p} /\ \A s \in Thread \ {t} : todo'[s] = todo[s]
    BY <1>1 DEF TypeOK
  <2>. QED BY <1>2, <1>8, <1>9, <2>1, <2>2 DEF AbsDue
<1>12. UNCHANGED <<AbsData, AbsOwn>>
  BY <1>2, <1>8, <1>9 DEF AbsData, AbsOwn
<1>13. UNCHANGED Linked
  BY <1>2 DEF Linked, LinkIndexes, GetLinkByIndex, Address, GetGroupAddrByIndex
<1>. QED BY <1>2, <1>3, <1>10, <1>11, <1>12, <1>13 DEF Relation!BeginGroup

\* A turn of the loop writes an object that is still to be written, once, or none.
LEMMA WalkLinkStep ==
    ASSUME IInv, ~Overlap, NEW t \in Thread, WalkLink(t)
    PROVE  (\E o \in Object : Relation!WriteOne(t, o)) \/ UNCHANGED Relation!vars
<1>. USE DEF IInv
<1>1. /\ UNCHANGED <<gaddrs, links, pc, gobj, data, send, todo, index, end>>
      /\ at' = [at EXCEPT ![t] = @ + 1]
      /\ pc[t] = "walk" /\ at[t] < end[t]
  BY DEF WalkLink
<1>2. /\ at[t] \in Nat /\ end[t] \in Nat /\ end[t] <= Len(links) /\ Len(links) \in Nat
      /\ links \in Seq(Link)
  BY <1>1, RemainingFacts DEF TypeOK
<1>. DEFINE link == links[at[t] + 1]
<1>3. val' = IF link.gaddr = index[t] /\ link.gobj \in Present
             THEN [val EXCEPT ![link.gobj] = data[t]] ELSE val
  <2>1. at[t] < Len(links)
    BY <1>1, <1>2
  <2>. QED BY <2>1 DEF WalkLink, GetLinkByIndex
<1>4. IInv'
  BY StepInv
<1>5. at'[t] = at[t] + 1 /\ \A s \in Thread \ {t} : at'[s] = at[s]
  BY <1>1 DEF TypeOK
<1>6. \A o : o \in Remaining(t) <=>
        /\ o \in Present
        /\ \E j \in 1..end[t] : at[t] < j /\ links[j].gobj = o /\ links[j].gaddr = index[t]
  BY <1>1, RemainingFacts
<1>7. \A o : o \in Remaining(t)' <=>
        /\ o \in Present
        /\ \E j \in 1..end[t] : at[t] + 1 < j /\ links[j].gobj = o /\ links[j].gaddr = index[t]
  BY <1>1, <1>4, <1>5, PositionsNext DEF RemainingPositions
<1>8. at[t] + 1 \in 1..end[t] /\ at[t] < at[t] + 1 /\ at[t] + 1 \in 1..Len(links)
  BY <1>1, <1>2
<1>9. \A j \in 1..end[t] : at[t] < j <=> at[t] + 1 < j \/ j = at[t] + 1
  BY <1>2
<1>10. \A s \in Thread \ {t} : Remaining(s)' = Remaining(s)
  BY <1>1, <1>5 DEF Remaining, LinkIndexes, GetLinkByIndex
<1>11. UNCHANGED <<Linked, AbsData, AbsOwn, AbsDue>>
  BY <1>1 DEF Linked, LinkIndexes, GetLinkByIndex, Address, GetGroupAddrByIndex, AbsData, AbsOwn, AbsDue
<1>12. CASE link.gaddr = index[t] /\ link.gobj \in Present
  <2>1. link.gobj \in Remaining(t)
    BY <1>6, <1>8, <1>12
  <2>2. link.gobj \notin Remaining(t)'
    <3>. SUFFICES ASSUME NEW j \in 1..end[t], at[t] + 1 < j, links[j].gobj = link.gobj,
                         links[j].gaddr = index[t]
                  PROVE  FALSE
      BY <1>7
    <3>1. j \in 1..Len(links)
      BY <1>2
    <3>2. links[j] \in Link /\ link \in Link
      BY <1>2, <1>8, <3>1, ElementOfSeq
    <3>3. links[j] = link
      BY <1>12, <3>2 DEF Link
    <3>4. j = at[t] + 1
      BY <1>8, <3>1, <3>3 DEF NoRepeats
    <3>. QED BY <1>2, <3>4
  <2>3. \A o : o # link.gobj => (o \in Remaining(t) <=> o \in Remaining(t)')
    BY <1>6, <1>7, <1>9
  <2>4. Remaining(t)' = Remaining(t) \ {link.gobj}
    BY <2>2, <2>3
  <2>5. AbsLeft' = [AbsLeft EXCEPT ![t] = @ \ {link.gobj}] /\ link.gobj \in AbsLeft[t]
    BY <1>10, <2>1, <2>4 DEF AbsLeft
  <2>6. AbsData[t] = data[t]
    BY <1>1 DEF AbsData
  <2>7. link.gobj \in Object
    BY <1>12, ObjectAssumption
  <2>. QED BY <1>3, <1>11, <1>12, <2>5, <2>6, <2>7 DEF Relation!WriteOne
<1>13. CASE ~(link.gaddr = index[t] /\ link.gobj \in Present)
  <2>1. \A o : o \in Remaining(t) <=> o \in Remaining(t)'
    BY <1>6, <1>7, <1>9, <1>13
  <2>2. Remaining(t)' = Remaining(t)
    BY <2>1
  <2>3. AbsLeft' = AbsLeft
    BY <1>10, <2>2 DEF AbsLeft
  <2>4. val' = val
    BY <1>3, <1>13
  <2>. QED BY <1>11, <2>3, <2>4 DEF Relation!vars
<1>. QED BY <1>12, <1>13

\* The other steps of a thread: it begins, looks its object's groups up, ends.
LEMMA ThreadStep ==
    ASSUME IInv, ~Overlap, NEW t \in Thread,
           \/ t = Listener /\ \E o \in Object, g \in GAddr : Link_Write_Remove(o, g)
           \/ t = Listener /\ \E g \in GAddr, v \in Value : GroupValue_Write(g, v)
           \/ t = Listener /\ RemoveDone
           \/ t \in Setters /\ Setting(t)
           \/ WalkEnd(t) \/ WriteDone(t)
    PROVE  \/ UNCHANGED Relation!vars
           \/ \E g \in GAddr, v \in Value : Relation!Receive(t, g, v)
           \/ \E o \in Object, v \in Value, spread \in BOOLEAN : Relation!Set(t, o, v, spread)
           \/ Relation!FindGroups(t)
           \/ Relation!Finish(t)
<1>. USE DEF IInv
<1>0. /\ Listener \in Thread /\ Listener \notin Setters /\ Present \subseteq Object
      /\ NoObject \notin Object /\ NoValue \notin Value
  BY ThreadAssumption, ObjectAssumption, ValueAssumption DEF Thread
<1>1. /\ UNCHANGED <<gaddrs, links>>
      /\ \A s \in Thread \ {t} : /\ pc'[s] = pc[s] /\ gobj'[s] = gobj[s] /\ data'[s] = data[s]
                                /\ todo'[s] = todo[s] /\ index'[s] = index[s]
                                /\ at'[s] = at[s] /\ end'[s] = end[s]
  BY <1>0 DEF TypeOK, Link_Write_Remove, GroupValue_Write, RemoveDone, Setting, SetBegin, SetOwn,
     SetLook, WalkEnd, WriteDone
<1>2. UNCHANGED Linked
  BY <1>1 DEF Linked, LinkIndexes, GetLinkByIndex, Address, GetGroupAddrByIndex
<1>3. \A s \in Thread \ {t} : Remaining(s)' = Remaining(s)
  <2>. SUFFICES ASSUME NEW s \in Thread \ {t} PROVE Remaining(s)' = Remaining(s)
    OBVIOUS
  <2>1. /\ pc'[s] = pc[s] /\ index'[s] = index[s] /\ at'[s] = at[s] /\ end'[s] = end[s]
        /\ links' = links
    BY <1>1
  <2>. QED BY <2>1 DEF Remaining, LinkIndexes, GetLinkByIndex
<1>4. Remaining(t) = {} /\ Remaining(t)' = {}
  <2>1. CASE WalkEnd(t)
    <3>1. pc[t] = "walk" /\ at[t] >= end[t] /\ pc'[t] = "next"
      BY <2>1 DEF WalkEnd, TypeOK
    <3>2. /\ at[t] \in Nat /\ end[t] \in Nat
          /\ \A o : o \in Remaining(t) <=>
               /\ o \in Present
               /\ \E j \in 1..end[t] : at[t] < j /\ links[j].gobj = o /\ links[j].gaddr = index[t]
      BY <3>1, RemainingFacts
    <3>3. Remaining(t) = {}
      BY <3>1, <3>2
    <3>4. Remaining(t)' = {}
      BY <3>1 DEF Remaining
    <3>. QED BY <3>3, <3>4
  <2>2. CASE ~WalkEnd(t)
    <3>1. pc[t] # "walk" /\ pc'[t] # "walk"
      BY <2>2 DEF TypeOK, Link_Write_Remove, GroupValue_Write, RemoveDone, Setting, SetBegin, SetOwn,
         SetLook, WriteDone
    <3>. QED BY <3>1 DEF Remaining
  <2>. QED BY <2>1, <2>2
<1>5. UNCHANGED AbsLeft /\ AbsLeft[t] = {}
  BY <1>3, <1>4 DEF AbsLeft
<1>6. CASE \E o \in Object, g \in GAddr : Link_Write_Remove(o, g)
  <2>1. t = Listener
    BY <1>0, <1>6 DEF Link_Write_Remove, Setting, SetBegin, SetOwn, SetLook, WalkEnd, WriteDone,
       TypeOK, ThreadOK
  <2>2. /\ pc[t] = "idle" /\ pc'[t] = "remove" /\ todo[t] = {} /\ data'[t] = data[t]
        /\ val' = val
    BY <1>6, <2>1 DEF Link_Write_Remove, TypeOK, ThreadOK
  <2>. QED BY <1>1, <1>2, <1>5, <2>2 DEF Relation!vars, AbsData, AbsOwn, AbsDue
<1>7. CASE t = Listener /\ \E g \in GAddr, v \in Value : GroupValue_Write(g, v)
  <2>1. PICK g \in GAddr, v \in Value : GroupValue_Write(g, v)
    BY <1>7
  <2>2. /\ pc[t] = "idle" /\ pc'[t] = "next" /\ data[t] = NoValue /\ data'[t] = v /\ val' = val
        /\ todo'[t] = {[place |-> 0, addr |-> g]}
    BY <1>7, <2>1 DEF GroupValue_Write, TypeOK, ThreadOK
  <2>3. {p.addr : p \in {[place |-> 0, addr |-> g]}} = {g}
    OBVIOUS
  <2>4. AbsDue' = [AbsDue EXCEPT ![t] = {g}]
    BY <1>1, <2>2, <2>3 DEF AbsDue
  <2>5. AbsData' = [AbsData EXCEPT ![t] = v] /\ AbsData[t] = NoValue /\ AbsOwn' = AbsOwn
    BY <1>1, <2>2 DEF AbsData, AbsOwn
  <2>6. Relation!Receive(t, g, v)
    BY <1>2, <1>5, <2>2, <2>4, <2>5 DEF Relation!Receive
  <2>. QED BY <2>6
<1>8. CASE t = Listener /\ RemoveDone
  <2>1. /\ pc[t] = "remove" /\ pc'[t] = "idle" /\ data'[t] = data[t] /\ val' = val /\ todo'[t] = {}
    BY <1>8 DEF RemoveDone, TypeOK
  <2>. QED BY <1>1, <1>2, <1>5, <2>1 DEF Relation!vars, AbsData, AbsOwn, AbsDue
<1>9. CASE \E o \in Object, v \in Value, only \in BOOLEAN : SetBegin(t, o, v, only)
  <2>1. /\ pc[t] = "idle" /\ pc'[t] = "set" /\ data[t] = NoValue /\ val' = val /\ todo' = todo
    BY <1>9 DEF SetBegin, TypeOK, ThreadOK
  <2>. QED BY <1>1, <1>2, <1>5, <2>1 DEF Relation!vars, AbsData, AbsOwn, AbsDue
<1>10. CASE SetOwn(t)
  <2>1. /\ pc[t] = "set" /\ gobj[t] \in Present /\ data[t] \in Value /\ send[t] \in BOOLEAN
        /\ val' = [val EXCEPT ![gobj[t]] = data[t]] /\ todo' = todo
    BY <1>10 DEF SetOwn, TypeOK, ThreadOK
  <2>2. AbsData[t] = NoValue
    BY <2>1 DEF AbsData
  <2>3. AbsDue' = AbsDue
    BY <1>1, <1>10, <2>1 DEF AbsDue, SetOwn, TypeOK
  <2>4. CASE send[t]
    <3>1. pc'[t] = "look" /\ gobj'[t] = gobj[t] /\ data'[t] = data[t]
      BY <1>10, <2>4 DEF SetOwn, TypeOK
    <3>2. AbsData' = [AbsData EXCEPT ![t] = data[t]] /\ AbsOwn' = [AbsOwn EXCEPT ![t] = gobj[t]]
      BY <1>1, <3>1 DEF AbsData, AbsOwn
    <3>. QED BY <1>0, <1>2, <1>5, <2>1, <2>2, <2>3, <2>4, <3>2 DEF Relation!Set
  <2>5. CASE ~send[t]
    <3>1. pc'[t] = "idle" /\ data'[t] = NoValue
      BY <1>10, <2>5 DEF SetOwn, TypeOK
    <3>2. AbsData' = AbsData /\ AbsOwn' = AbsOwn
      BY <1>1, <2>1, <3>1 DEF AbsData, AbsOwn
    <3>. QED BY <1>0, <1>2, <1>5, <2>1, <2>2, <2>3, <2>5, <3>2 DEF Relation!Set
  <2>. QED BY <2>1, <2>4, <2>5
<1>11. CASE SetLook(t)
  <2>1. /\ pc[t] = "look" /\ pc'[t] = "next" /\ gobj[t] \in Present /\ data'[t] = data[t]
        /\ todo'[t] = GetGaddrsOfGobjs(gobj[t]) /\ val' = val
    BY <1>0, <1>11 DEF SetLook, TypeOK, ThreadOK
  <2>2. AbsDue' = [AbsDue EXCEPT ![t] = Relation!Groups(gobj[t])]
    <3>1. {p.addr : p \in GetGaddrsOfGobjs(gobj[t])} = Relation!Groups(gobj[t])
      BY <2>1, GroupsFound
    <3>. QED BY <1>1, <2>1, <3>1, Zenon DEF AbsDue
  <2>3. AbsOwn[t] = gobj[t] /\ AbsOwn' = [AbsOwn EXCEPT ![t] = NoObject] /\ AbsData' = AbsData
    <3>1. AbsOwn[t] = gobj[t] /\ AbsOwn' = [AbsOwn EXCEPT ![t] = NoObject]
      BY <1>1, <2>1 DEF AbsOwn
    <3>2. AbsData' = AbsData
      BY <1>1, <2>1 DEF AbsData
    <3>. QED BY <3>1, <3>2
  <2>4. gobj[t] # NoObject
    BY <1>0, <2>1
  <2>. QED BY <1>2, <1>5, <2>1, <2>2, <2>3, <2>4 DEF Relation!FindGroups
<1>12. CASE WalkEnd(t)
  <2>1. /\ pc[t] = "walk" /\ pc'[t] = "next" /\ data' = data /\ todo' = todo /\ val' = val
    BY <1>12 DEF WalkEnd, TypeOK
  <2>. QED BY <1>1, <1>2, <1>5, <2>1 DEF Relation!vars, AbsData, AbsOwn, AbsDue
<1>13. CASE WriteDone(t)
  <2>1. /\ pc[t] = "next" /\ pc'[t] = "idle" /\ data[t] # NoValue /\ data'[t] = NoValue
        /\ todo[t] = {} /\ todo' = todo /\ val' = val
    BY <1>13 DEF WriteDone, TypeOK, ThreadOK
  <2>2. AbsData[t] # NoValue /\ AbsData' = [AbsData EXCEPT ![t] = NoValue]
    BY <1>1, <2>1 DEF AbsData
  <2>3. AbsOwn[t] = NoObject /\ AbsDue[t] = {} /\ UNCHANGED <<AbsOwn, AbsDue>>
    BY <1>1, <2>1 DEF AbsOwn, AbsDue
  <2>. QED BY <1>2, <1>5, <2>1, <2>2, <2>3 DEF Relation!Finish
<1>. QED
  BY <1>6, <1>7, <1>8, <1>9, <1>10, <1>11, <1>12, <1>13 DEF Setting

LEMMA RefStep == ~Overlap /\ IInv /\ [Next]_vars => [Relation!Next]_(Relation!vars)
<1>. SUFFICES ASSUME ~Overlap, IInv, [Next]_vars PROVE [Relation!Next]_(Relation!vars)
  OBVIOUS
<1>0. Listener \in Thread /\ Setters \subseteq Thread
  BY DEF Thread
<1>1. ASSUME NEW o \in Object, NEW g \in GAddr, Link_Write_Add(o, g) PROVE Relation!Next
  BY <1>1, RefAdd DEF Relation!Next
<1>2. CASE RemoveOne
  BY <1>2, RefRemove DEF Relation!Next
<1>3. ASSUME NEW t \in Thread, WalkBegin(t) PROVE Relation!Next
  BY <1>3, BeginGroupStep DEF Relation!Next
<1>4. ASSUME NEW t \in Thread, WalkLink(t) PROVE [Relation!Next]_(Relation!vars)
  BY <1>4, WalkLinkStep DEF Relation!Next
<1>5. ASSUME NEW t \in Thread,
             \/ t = Listener /\ \E o \in Object, g \in GAddr : Link_Write_Remove(o, g)
             \/ t = Listener /\ \E g \in GAddr, v \in Value : GroupValue_Write(g, v)
             \/ t = Listener /\ RemoveDone
             \/ t \in Setters /\ Setting(t)
             \/ WalkEnd(t) \/ WriteDone(t)
      PROVE  [Relation!Next]_(Relation!vars)
  BY <1>5, ThreadStep DEF Relation!Next
<1>6. CASE UNCHANGED vars
  BY <1>6 DEF vars, threadVars, Relation!vars, Linked, AbsData, AbsOwn, AbsDue, AbsLeft, Remaining,
     LinkIndexes, GetLinkByIndex, Address, GetGroupAddrByIndex
<1>. QED
  BY <1>0, <1>1, <1>2, <1>3, <1>4, <1>5, <1>6 DEF Next, Requests

\* The tables implement the relation as long as Link_Write removes no link while an
\* application goes over them.
THEOREM Refinement == ASSUME ~Overlap PROVE Spec => ImplementsLinkRelation
<1>1. Init => Relation!Init
  BY RefInit
<1>2. IInv /\ [Next]_vars => [Relation!Next]_(Relation!vars)
  BY RefStep
<1>. QED BY <1>1, <1>2, Invariance, PTL DEF Spec, ImplementsLinkRelation, Relation!Spec
-----------------------------------------------------------------------------
(* The answers to reads.                                                   *)

\* First is one of the indexes, and the lowest.
LEMMA FirstOf ==
    ASSUME NEW S \in SUBSET Nat, S # {}
    PROVE  First(S) \in S /\ \A j \in S : First(S) <= j
<1>1. First(S) = Min(S)
  BY DEF First, Min
<1>. QED BY <1>1, MinOfSet

\* Links with one object and one address are one link, for the address has one index.
LEMMA OneLink ==
    ASSUME IInv, NEW i \in LinkIndexes, NEW j \in LinkIndexes,
           GetLinkByIndex(i).gobj = GetLinkByIndex(j).gobj, Address(i) = Address(j)
    PROVE  i = j
<1>1. /\ i \in Nat /\ i + 1 \in 1..Len(links) /\ links[i + 1] \in Link
      /\ j \in Nat /\ j + 1 \in 1..Len(links) /\ links[j + 1] \in Link
      /\ GetLinkByIndex(i) = links[i + 1] /\ GetLinkByIndex(j) = links[j + 1]
  BY LinkIndexFacts DEF IInv
<1>2. /\ links[i + 1].gaddr \in Nat /\ links[i + 1].gaddr < Len(gaddrs)
      /\ links[j + 1].gaddr \in Nat /\ links[j + 1].gaddr < Len(gaddrs)
  BY <1>1 DEF IInv, LinksInRange, Link
<1>3. gaddrs[links[i + 1].gaddr + 1] = gaddrs[links[j + 1].gaddr + 1]
  BY <1>1 DEF Address, GetGroupAddrByIndex
<1>4. Len(gaddrs) \in Nat
  BY DEF IInv, TypeOK
<1>5. links[i + 1].gaddr + 1 \in 1..Len(gaddrs) /\ links[j + 1].gaddr + 1 \in 1..Len(gaddrs)
  BY <1>2, <1>4
<1>6. links[i + 1].gaddr + 1 = links[j + 1].gaddr + 1
  BY <1>3, <1>5 DEF IInv, NoRepeats
<1>7. links[i + 1].gaddr = links[j + 1].gaddr
  BY <1>2, <1>6
<1>8. links[i + 1] = links[j + 1]
  BY <1>1, <1>7 DEF Link
<1>9. i + 1 = j + 1
  BY <1>1, <1>8 DEF IInv, NoRepeats
<1>. QED BY <1>1, <1>9

\* GroupValue_Read.
LEMMA GroupAnswer ==
    ASSUME IInv, NEW g \in GAddr, GroupValue_Response(g) # NoValue
    PROVE  \E o \in Present : <<o, g>> \in Linked /\ GroupValue_Response(g) = val[o]
<1>. DEFINE of == {i \in LinkIndexes : Indexes(g) # {} /\ GetLinkByIndex(i).gaddr = First(Indexes(g))}
            k == First(of)
            o == GetLinkByIndex(k).gobj
<1>1. of # {} /\ o \in Present /\ GroupValue_Response(g) = val[o]
  BY DEF GroupValue_Response
<1>2. k \in LinkIndexes /\ Indexes(g) # {} /\ GetLinkByIndex(k).gaddr = First(Indexes(g))
  <2>1. of \in SUBSET Nat
    BY LinkIndexFacts DEF IInv
  <2>2. k \in of
    BY <1>1, <2>1, FirstOf
  <2>. QED BY <2>2
<1>3. gaddrs[First(Indexes(g)) + 1] = g
  BY <1>2, IndexUnique DEF IInv
<1>4. Address(k) = g
  BY <1>2, <1>3 DEF Address, GetGroupAddrByIndex
<1>. HIDE DEF of, k
<1>5. <<o, g>> \in Linked
  BY <1>2, <1>4 DEF Linked
<1>. QED BY <1>1, <1>5

\* Link_Read: the addresses are the object's; when they fit, fewer than a page of links comes
\* before each of the object's links, because distinct links have distinct addresses.
LEMMA LinkAnswer ==
    ASSUME IInv, NEW o \in Object
    PROVE  LET own == {g \in GAddr : <<o, g>> \in Linked} IN
           /\ \A start \in 0..(StartMod - 1) : Link_Response(o, start) \subseteq own
           /\ Cardinality(own) <= PageSize => Link_Response(o, 0) = own
<1>. DEFINE own == {g \in GAddr : <<o, g>> \in Linked}
            mine == {i \in LinkIndexes : GetLinkByIndex(i).gobj = o}
            before(j) == {k \in mine : k < j}
<1>1. StartMod \in Nat \ {0} /\ PageSize \in Nat /\ Len(links) \in Nat
  BY BoundAssumption DEF IInv, TypeOK
<1>2. ASSUME NEW i \in mine PROVE Address(i) \in own
  <2>1. /\ i + 1 \in 1..Len(links) /\ GetLinkByIndex(i) = links[i + 1] /\ links[i + 1] \in Link
    BY LinkIndexFacts DEF IInv
  <2>2. links[i + 1].gaddr + 1 \in 1..Len(gaddrs)
    <3>1. Len(gaddrs) \in Nat /\ links[i + 1].gaddr \in Nat /\ links[i + 1].gaddr < Len(gaddrs)
      BY <2>1 DEF IInv, TypeOK, LinksInRange, Link
    <3>. QED BY <3>1
  <2>3. gaddrs[links[i + 1].gaddr + 1] \in GAddr
    BY <2>2, ElementOfSeq DEF IInv, TypeOK
  <2>4. Address(i) \in GAddr
    BY <2>1, <2>3 DEF Address, GetGroupAddrByIndex
  <2>5. <<o, Address(i)>> \in Linked
    BY DEF Linked
  <2>. QED BY <2>4, <2>5
<1>3. ASSUME NEW start \in 0..(StartMod - 1) PROVE Link_Response(o, start) \subseteq own
  <2>1. Link_Response(o, start) \subseteq {Address(i) : i \in mine}
    BY DEF Link_Response
  <2>. HIDE DEF own, mine
  <2>. QED BY <1>2, <2>1
<1>4. ASSUME NEW g \in own PROVE \E i \in mine : Address(i) = g
  BY DEF Linked
<1>5. IsFiniteSet(mine) /\ mine \subseteq Nat
  <2>1. mine \subseteq 0..Len(links)
    BY DEF LinkIndexes
  <2>2. IsFiniteSet(0..Len(links))
    BY <1>1, FS_Interval
  <2>. HIDE DEF mine
  <2>3. IsFiniteSet(mine)
    BY <2>1, <2>2, FS_Subset
  <2>4. mine \subseteq Nat
    BY <1>1, <2>1
  <2>. QED BY <2>3, <2>4
<1>6. IsFiniteSet(own) /\ Cardinality(own) \in Nat
  <2>. HIDE DEF own, mine
  <2>. DEFINE f == [i \in mine |-> Address(i)]
  <2>1. f \in Surjection(mine, own)
    BY <1>2, <1>4 DEF Surjection
  <2>. QED BY <1>5, <2>1, FS_Surjection, FS_CardinalityType
<1>7. ASSUME NEW j \in mine PROVE Cardinality(before(j)) < Cardinality(own)
  <2>. DEFINE f == [k \in before(j) |-> Address(k)]
              rest == own \ {Address(j)}
  <2>1. \A k \in before(j) : k \in mine /\ k # j
    BY <1>5
  <2>2. \A k \in before(j) : Address(k) \in rest
    <3>. SUFFICES ASSUME NEW k \in before(j) PROVE Address(k) \in rest
      OBVIOUS
    <3>1. k \in mine /\ k # j
      BY <2>1
    <3>2. Address(k) # Address(j)
      BY <3>1, OneLink
    <3>. QED BY <1>2, <3>1, <3>2
  <2>3. \A k, m \in before(j) : Address(k) = Address(m) => k = m
    BY OneLink
  <2>4. Address(j) \in own
    BY <1>2
  <2>. HIDE DEF own, mine, before
  <2>5. IsFiniteSet(rest) /\ Cardinality(rest) = Cardinality(own) - 1
    BY <1>6, <2>4, FS_RemoveElement
  <2>. HIDE DEF rest
  <2>6. f \in Injection(before(j), rest)
    <3>1. f \in [before(j) -> rest]
      BY <2>2
    <3>2. \A k, m \in before(j) : f[k] = f[m] => k = m
      BY <2>3
    <3>. HIDE DEF f
    <3>. QED BY <3>1, <3>2 DEF Injection, IsInjective
  <2>7. Cardinality(before(j)) <= Cardinality(rest) /\ IsFiniteSet(before(j))
    BY <2>5, <2>6, FS_Injection
  <2>8. Cardinality(before(j)) \in Nat
    BY <2>7, FS_CardinalityType
  <2>. QED BY <1>6, <2>5, <2>7, <2>8
<1>8. ASSUME Cardinality(own) <= PageSize PROVE Link_Response(o, 0) = own
  <2>1. 0 % StartMod = 0
    BY <1>1
  <2>2. \A i \in LinkIndexes : GetLinkByIndex(i).gaddr >= 0
    BY LinkIndexFacts DEF IInv, Link
  <2>3. {i \in LinkIndexes : /\ GetLinkByIndex(i).gobj = o
                             /\ GetLinkByIndex(i).gaddr >= 0 % StartMod} = mine
    BY <2>1, <2>2
  <2>4. Link_Response(o, 0) = {Address(i) : i \in {j \in mine : Cardinality(before(j)) < PageSize}}
    BY <2>3 DEF Link_Response
  <2>. HIDE DEF mine, before, own
  <2>5. \A j \in mine : Cardinality(before(j)) < PageSize
    <3>. SUFFICES ASSUME NEW j \in mine PROVE Cardinality(before(j)) < PageSize
      OBVIOUS
    <3>1. before(j) \subseteq mine
      BY DEF before
    <3>2. Cardinality(before(j)) \in Nat
      BY <1>5, <3>1, FS_Subset, FS_CardinalityType
    <3>. QED BY <1>1, <1>6, <1>7, <1>8, <3>2
  <2>6. Link_Response(o, 0) = {Address(i) : i \in mine}
    BY <2>4, <2>5
  <2>. QED BY <1>2, <1>4, <2>6
<1>. QED BY <1>3, <1>8

\* GroupValue_Read is answered with the value of an object of the group, and Link_Read with
\* addresses of the object, none of them skipped when they fit (APDU_GroupValue_Read::Response,
\* APDU_Link_Read::Response).
THEOREM AnswersTheorem == Spec => []AnswersAgree
<1>1. IInv => AnswersAgree
  BY GroupAnswer, LinkAnswer DEF AnswersAgree
<1>. QED BY <1>1, Invariance, PTL

\* The file of a device whose clients only name group objects it has is one it will take:
\* Link_Write itself never breaks the tables (DeviceImpl_TXT::Init, CheckValidity).
THEOREM FileTheorem == ASSUME Object \subseteq Present PROVE Spec => []FileReadable
<1>1. ASSUME IInv PROVE CheckValidity
  <2>1. ASSUME NEW g \in GAddr PROVE Cardinality(Indexes(g)) <= 1
    <3>1. CASE Indexes(g) = {}
      BY <3>1, FS_EmptySet
    <3>2. CASE Indexes(g) # {}
      <4>1. Len(gaddrs) \in Nat
        BY <1>1 DEF IInv, TypeOK
      <4>2. \A i \in Indexes(g) : i = First(Indexes(g))
        <5>. DEFINE k == First(Indexes(g))
        <5>1. \A i \in Nat : i < Len(gaddrs) /\ gaddrs[i + 1] = g => i = k
          BY <1>1, <3>2, IndexUnique DEF IInv
        <5>2. \A i \in Indexes(g) : i \in Nat /\ i < Len(gaddrs) /\ gaddrs[i + 1] = g
          BY <4>1 DEF Indexes, GetGroupAddrByIndex
        <5>. HIDE DEF k
        <5>. QED BY <5>1, <5>2 DEF k
      <4>3. Indexes(g) = {First(Indexes(g))}
        BY <3>2, <4>2
      <4>4. Cardinality(Indexes(g)) = 1
        BY <4>3, FS_Singleton
      <4>. QED BY <4>4
    <3>. QED BY <3>1, <3>2
  <2>2. ASSUME NEW i \in LinkIndexes, NEW j \in LinkIndexes, GetLinkByIndex(i) = GetLinkByIndex(j)
        PROVE  i = j
    BY <1>1, <2>2, OneLink DEF Address
  <2>3. ASSUME NEW i \in LinkIndexes
        PROVE  GetLinkByIndex(i).gobj \in Present /\ GetLinkByIndex(i).gaddr < Len(gaddrs)
    <3>1. /\ i + 1 \in 1..Len(links) /\ GetLinkByIndex(i) = links[i + 1]
          /\ GetLinkByIndex(i) \in Link
      BY <1>1, LinkIndexFacts DEF IInv
    <3>2. GetLinkByIndex(i).gaddr < Len(gaddrs)
      BY <1>1, <3>1 DEF IInv, LinksInRange
    <3>. QED BY <3>1, <3>2 DEF Link
  <2>. QED BY <2>1, <2>2, <2>3 DEF CheckValidity
<1>2. IInv => FileReadable
  BY <1>1 DEF FileReadable
<1>. QED BY <1>2, Invariance, PTL
=============================================================================
