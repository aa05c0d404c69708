-------------------------- MODULE Registry_proofs --------------------------
(***************************************************************************)
(* Proofs about Registry, for every number of devices, every content and   *)
(* every set of walkers: the inductive invariant IInv, the safety of walks *)
(* that nobody disturbs and what they see, and the refinement of           *)
(* DeviceStore.                                                            *)
(***************************************************************************)
EXTENDS Registry, ListLemmas

-----------------------------------------------------------------------------
(* The cursor and the numbers of new devices.                              *)

\* The places of an iterator: a device or the end of the map.
LEMMA Places ==
    /\ MaxId \in Nat /\ MaxId >= 1
    /\ Special \in Id /\ Id \subseteq Nat \ {0}
    /\ End \in Nat /\ End \notin Id /\ Dangling \notin Id /\ Dangling # End
    /\ Absent \notin Id
    /\ Absent \notin Content /\ Broken \notin Content /\ Broken # Absent /\ Empty \in Content
    /\ Template \subseteq Content
BY RegistryAssumption, SMT DEF Special, Id, End, Dangling

\* The first device of a part of the map, or the end.
LEMMA AtPlace ==
    ASSUME NEW S \in SUBSET Id
    PROVE  At(S) \in S \cup {End} /\ (S # {} => At(S) \in S)
BY MinOfSet, Places DEF At

\* The number a new device gets is not in use.
LEMMA FreeNumber ==
    ASSUME TypeOK
    PROVE  /\ NextAvaID \in Nat /\ NextAvaID >= m_next_ava_id /\ NextAvaID \notin DOMAIN m_devs
           /\ NextAvaID <= MaxId => NextAvaID \in 1..MaxId /\ NextAvaID \in Id
<1> DEFINE S == {i \in m_next_ava_id..End : i \notin DOMAIN m_devs}
<1>1. m_next_ava_id \in 1..MaxId /\ DOMAIN m_devs \subseteq Id BY DEF TypeOK
<1>2. m_next_ava_id \in Nat /\ m_next_ava_id >= 1 /\ m_next_ava_id <= End
  BY <1>1, Places, SMT DEF End
<1>3. S \in SUBSET Nat BY <1>2, Places, SMT
<1>4. End \in S BY <1>1, <1>2, Places, SMT
<1>5. NextAvaID \in S
  <2>1. Min(S) \in S BY <1>3, <1>4, MinOfSet
  <2> QED BY <2>1 DEF NextAvaID
<1> QED BY <1>2, <1>5, Places, SMT DEF Id, Special

\* The map that has just been made has no devices.
LEMMA NoDevices == DOMAIN <<>> = {}
OBVIOUS

-----------------------------------------------------------------------------
(* Init.                                                                   *)

\* The invariant holds before the first start.
LEMMA InitIInv == Init => StateInv
<1> SUFFICES ASSUME Init PROVE StateInv OBVIOUS
<1>1. TypeOK BY Places, NoDevices, SMT DEF Init, TypeOK, Everywhere
<1>2. PhaseInv BY DEF Init, PhaseInv, Everywhere
<1>3. FileInv BY DEF Init, FileInv
<1>4. WalkInv BY DEF Init, WalkInv, Everywhere
<1> QED BY <1>1, <1>2, <1>3, <1>4 DEF StateInv

\* Whatever ends the process: nothing is left but the files.
LEMMA GoneIInv ==
    ASSUME StateInv, Gone, file' \in [Id -> Content \cup {Broken, Absent}]
    PROVE  StateInv'
<1>1. TypeOK' BY Places, NoDevices, SMT DEF Gone, TypeOK, Everywhere
<1>2. PhaseInv' BY DEF Gone, PhaseInv, Everywhere
<1>3. FileInv' BY DEF Gone, FileInv
<1>4. WalkInv' BY DEF Gone, WalkInv, Everywhere
<1> QED BY <1>1, <1>2, <1>3, <1>4 DEF StateInv

\* The invariant is about the state, and a step that changes nothing keeps it.
LEMMA StutterIInv == ASSUME StateInv, UNCHANGED vars PROVE StateInv'
<1>1. TypeOK' BY DEF StateInv, TypeOK, vars
<1>2. PhaseInv' BY DEF StateInv, PhaseInv, vars
<1>3. FileInv' BY DEF StateInv, FileInv, vars
<1>4. WalkInv' BY DEF StateInv, WalkInv, vars
<1> QED BY <1>1, <1>2, <1>3, <1>4 DEF StateInv

-----------------------------------------------------------------------------
(* Start and stop.                                                         *)

\* All files are yet to be read; the special device has one.
LEMMA StartBeginIInv == ASSUME StateInv, StartBegin PROVE StateInv'
<1> USE DEF StartBegin
<1>0. TypeOK /\ PhaseInv /\ Special \in Id BY Places DEF StateInv
<1>1. TypeOK'
  <2>1. file' \in [Id -> Content \cup {Broken, Absent}] BY <1>0, Places DEF TypeOK
  <2>2. todo' \subseteq Id /\ open' = Absent /\ phase' = "starting"
    BY <1>0 DEF PhaseInv
  <2> QED BY <1>0, <2>1, <2>2 DEF TypeOK, walks
<1>2. PhaseInv' BY <1>0, Places DEF PhaseInv, walks
<1>3. FileInv'
  <2>1. file'[Special] # Absent BY <1>0, Places DEF TypeOK
  <2>2. {j \in Id \ todo' : file'[j] # Absent} = {} OBVIOUS
  <2>3. m_devs' = <<>> BY <1>0 DEF PhaseInv
  <2>4. open' = Absent BY <1>0 DEF PhaseInv
  <2>5. m_devs' = [i \in {j \in Id \ todo' : file'[j] # Absent} |-> file'[i]] BY <2>2, <2>3
  <2> QED BY <2>1, <2>4, <2>5 DEF FileInv
<1>4. WalkInv' BY <1>0 DEF PhaseInv, WalkInv, walks
<1> QED BY <1>1, <1>2, <1>3, <1>4 DEF StateInv

\* A file that is read becomes a device and is struck off; one that cannot be ends the process.
LEMMA StartReadIInv == ASSUME StateInv, NEW i \in Id, StartRead(i) PROVE StateInv'
<1>0. TypeOK /\ PhaseInv /\ FileInv BY DEF StateInv
<1>1. CASE file[i] = Broken
  <2>1. Gone /\ UNCHANGED file BY <1>1 DEF StartRead
  <2> QED BY <1>0, <2>1, GoneIInv DEF TypeOK
<1>2. CASE file[i] # Broken
  <2> DEFINE read(T) == {j \in Id \ T : file[j] # Absent}
  <2>0. /\ phase = "starting" /\ i \in todo
        /\ m_devs' = Including(i, file[i]) /\ todo' = todo \ {i}
        /\ UNCHANGED <<phase, m_next_ava_id, m_ite4nextdev, file, open, lost, walks>>
    BY <1>2 DEF StartRead
  <2>1. m_devs = [j \in read(todo) |-> file[j]] /\ file[Special] # Absent BY <1>0, <2>0 DEF FileInv
  <2>2. TypeOK'
    <3>0. m_devs' = [j \in DOMAIN m_devs \cup {i} |-> IF j = i THEN file[i] ELSE m_devs[j]]
      BY <2>0 DEF Including
    <3>1. DOMAIN m_devs' = DOMAIN m_devs \cup {i} BY <3>0
    <3>2. \A j \in DOMAIN m_devs' : m_devs'[j] = IF j = i THEN file[i] ELSE m_devs[j] BY <3>0
    <3>3. file[i] \in Content \cup {Absent} /\ file[i] # Absent
      <4>1. file[i] \in Content \cup {Broken, Absent} BY <1>0 DEF TypeOK
      <4>2. file[i] # Absent BY <2>0, <1>0 DEF FileInv, TypeOK
      <4> QED BY <4>1, <4>2, <1>2
    <3>4. DOMAIN m_devs' \subseteq Id /\ \A j \in DOMAIN m_devs' : m_devs'[j] \in Content
      BY <1>0, <3>1, <3>2, <3>3 DEF TypeOK
    <3>5. open' \in todo' \cup {Absent} BY <1>0, <2>0, Places DEF PhaseInv
    <3> QED BY <1>0, <2>0, <3>1, <3>4, <3>5 DEF TypeOK, walks
  <2>3. PhaseInv' BY <1>0, <2>0, Places DEF PhaseInv, walks
  <2>4. FileInv'
    <3>1. read(todo') = read(todo) \cup {i} BY <1>0, <2>0 DEF FileInv
    <3>2. m_devs' = [j \in DOMAIN m_devs \cup {i} |-> IF j = i THEN file[i] ELSE m_devs[j]]
      BY <2>0 DEF Including
    <3>3. m_devs' = [j \in read(todo') |-> file[j]] BY <2>1, <3>1, <3>2
    <3> QED BY <1>0, <2>0, <2>1, <3>3 DEF FileInv, PhaseInv
  <2>5. WalkInv' BY <1>0, <2>0 DEF PhaseInv, WalkInv, walks
  <2> QED BY <2>2, <2>3, <2>4, <2>5 DEF StateInv
<1> QED BY <1>1, <1>2

\* When every file has become a device, none is broken, and the cursor is set to the first.
LEMMA StartEndIInv == ASSUME StateInv, StartEnd PROVE StateInv'
<1>0. TypeOK /\ PhaseInv /\ FileInv BY DEF StateInv
<1>1. /\ phase = "starting" /\ todo = {} /\ phase' = "up" /\ m_ite4nextdev' = Begin
      /\ UNCHANGED <<m_devs, m_next_ava_id, file, todo, open, lost, walks>>
  BY DEF StartEnd
<1>2. Begin \in DOMAIN m_devs \cup {End} BY <1>0, AtPlace DEF TypeOK, Begin
<1>3. TypeOK' BY <1>0, <1>1, <1>2 DEF TypeOK, walks
<1>4. PhaseInv' BY <1>0, <1>1 DEF PhaseInv, walks
<1>5. FileInv'
  <2>1. \A i \in Id : file[i] # Broken
    <3> SUFFICES ASSUME NEW i \in Id, file[i] = Broken PROVE FALSE OBVIOUS
    <3>1. i \in DOMAIN m_devs /\ m_devs[i] = Broken BY <1>0, <1>1, Places DEF FileInv
    <3> QED BY <1>0, <3>1, Places DEF TypeOK
  <2> QED BY <1>0, <1>1, <2>1 DEF FileInv, PhaseInv
<1>6. WalkInv' BY <1>0, <1>1 DEF PhaseInv, WalkInv, walks
<1> QED BY <1>3, <1>4, <1>5, <1>6 DEF StateInv

\* A stop that begins changes the phase only.
LEMMA StopBeginIInv == ASSUME StateInv, StopBegin PROVE StateInv'
<1>0. TypeOK /\ PhaseInv /\ FileInv /\ WalkInv BY DEF StateInv
<1>1. /\ phase = "up" /\ phase' = "stopping"
      /\ UNCHANGED <<m_devs, m_next_ava_id, m_ite4nextdev, file, todo, open, lost, walks>>
  BY DEF StopBegin
<1>2. TypeOK' BY <1>0, <1>1 DEF TypeOK, walks
<1>3. PhaseInv' BY <1>0, <1>1 DEF PhaseInv, walks
<1>4. FileInv' BY <1>0, <1>1 DEF FileInv, PhaseInv
<1>5. WalkInv' BY <1>0, <1>1 DEF WalkInv, walks
<1> QED BY <1>2, <1>3, <1>4, <1>5 DEF StateInv

\* The threads have ended and every device is to be written back.
LEMMA StopJoinIInv == ASSUME StateInv, StopJoin PROVE StateInv'
<1>0. TypeOK /\ PhaseInv /\ FileInv /\ WalkInv BY DEF StateInv
<1>1. /\ phase = "stopping" /\ phase' = "saving" /\ todo' = DOMAIN m_devs
      /\ \A w \in Walker \ {App} : pc[w] = "idle"
      /\ UNCHANGED <<m_devs, m_next_ava_id, m_ite4nextdev, file, open, lost, walks>>
  BY DEF StopJoin
<1>2. TypeOK'
  <2>1. open' \in todo' \cup {Absent} /\ todo' \subseteq Id BY <1>0, <1>1 DEF PhaseInv, TypeOK
  <2> QED BY <1>0, <1>1, <2>1 DEF TypeOK, walks
<1>3. PhaseInv' BY <1>0, <1>1 DEF PhaseInv, walks
<1>4. FileInv' BY <1>0, <1>1 DEF FileInv, PhaseInv
<1>5. WalkInv' BY <1>0, <1>1 DEF WalkInv, walks
<1> QED BY <1>2, <1>3, <1>4, <1>5 DEF StateInv

\* The file that is opened is empty, and its device still to be written; one that cannot be is lost.
LEMMA SaveOpenIInv == ASSUME StateInv, SaveOpen PROVE StateInv'
<1>0. TypeOK /\ PhaseInv /\ FileInv /\ WalkInv BY DEF StateInv
<1> DEFINE i == Min(todo)
<1>1. i \in todo /\ i \in Id
  <2>1. todo \in SUBSET Nat /\ todo # {} BY <1>0, Places DEF TypeOK, SaveOpen
  <2> QED BY <1>0, <2>1, MinOfSet DEF TypeOK
<1>2. /\ phase = "saving" /\ open = Absent
      /\ UNCHANGED <<phase, m_devs, m_next_ava_id, m_ite4nextdev, walks>>
      /\ \/ open' = i /\ file' = [file EXCEPT ![i] = Empty] /\ UNCHANGED <<todo, lost>>
         \/ lost' = lost \cup {i} /\ todo' = todo \ {i} /\ UNCHANGED <<open, file>>
  BY DEF SaveOpen
<1> HIDE DEF i
<1>3. TypeOK'
  <2>1. /\ file' \in [Id -> Content \cup {Broken, Absent}] /\ todo' \subseteq Id
        /\ open' \in todo' \cup {Absent} /\ lost' \subseteq Id
    <3>1. CASE open' = i /\ file' = [file EXCEPT ![i] = Empty] /\ UNCHANGED <<todo, lost>>
      <4>1. file' \in [Id -> Content \cup {Broken, Absent}] BY <1>0, <1>1, <3>1, Places DEF TypeOK
      <4> QED BY <1>0, <1>1, <3>1, <4>1 DEF TypeOK
    <3>2. CASE lost' = lost \cup {i} /\ todo' = todo \ {i} /\ UNCHANGED <<open, file>>
      BY <1>0, <1>1, <1>2, <3>2 DEF TypeOK
    <3> QED BY <1>2, <3>1, <3>2
  <2> QED BY <1>0, <1>2, <2>1 DEF TypeOK, walks
<1>4. PhaseInv' BY <1>0, <1>2 DEF PhaseInv, walks
<1>5. FileInv'
  <2>1. \A j \in Id : file'[j] # Broken BY <1>0, <1>1, <1>2, Places DEF FileInv, TypeOK
  <2>2. todo' \subseteq DOMAIN m_devs' BY <1>0, <1>2 DEF FileInv
  <2>3. \A j \in DOMAIN m_devs' \ (lost' \cup todo') : file'[j] = m_devs'[j]
    BY <1>0, <1>1, <1>2 DEF FileInv, TypeOK
  <2>4. open' # Absent => file'[open'] = Empty BY <1>0, <1>1, <1>2 DEF FileInv, TypeOK
  <2> QED BY <1>2, <2>1, <2>2, <2>3, <2>4 DEF FileInv
<1>6. WalkInv' BY <1>0, <1>2 DEF WalkInv, walks
<1> QED BY <1>3, <1>4, <1>5, <1>6 DEF StateInv

\* The device whose file is written is in its file from then on.
LEMMA SaveWriteIInv == ASSUME StateInv, SaveWrite PROVE StateInv'
<1>0. TypeOK /\ PhaseInv /\ FileInv /\ WalkInv BY DEF StateInv
<1>1. /\ open # Absent /\ open' = Absent
      /\ file' = [file EXCEPT ![open] = m_devs[open]] /\ todo' = todo \ {open}
      /\ UNCHANGED <<phase, m_devs, m_next_ava_id, m_ite4nextdev, lost, walks>>
  BY DEF SaveWrite
<1>2. phase = "saving" /\ open \in todo /\ open \in Id /\ open \in DOMAIN m_devs
  BY <1>0, <1>1 DEF PhaseInv, TypeOK, FileInv
<1>3. m_devs[open] \in Content /\ m_devs[open] # Broken BY <1>0, <1>2, Places DEF TypeOK
<1>4. TypeOK'
  <2>1. file' \in [Id -> Content \cup {Broken, Absent}] BY <1>0, <1>1, <1>2, <1>3 DEF TypeOK
  <2>2. todo' \subseteq Id BY <1>0, <1>1 DEF TypeOK
  <2> QED BY <1>0, <1>1, <2>1, <2>2 DEF TypeOK, walks
<1>5. PhaseInv' BY <1>0, <1>1, <1>2 DEF PhaseInv, walks
<1>6. FileInv'
  <2>1. \A j \in Id : file'[j] # Broken BY <1>0, <1>1, <1>2, <1>3 DEF FileInv, TypeOK
  <2>2. todo' \subseteq DOMAIN m_devs' BY <1>0, <1>1, <1>2 DEF FileInv
  <2>3. \A j \in DOMAIN m_devs' \ (lost' \cup todo') : file'[j] = m_devs'[j]
    BY <1>0, <1>1, <1>2 DEF FileInv, TypeOK
  <2> QED BY <1>1, <1>2, <2>1, <2>2, <2>3 DEF FileInv
<1>7. WalkInv' BY <1>0, <1>1 DEF WalkInv, walks
<1> QED BY <1>4, <1>5, <1>6, <1>7 DEF StateInv

\* An orderly end leaves nothing but the files.
LEMMA StopEndIInv == ASSUME StateInv, StopEnd PROVE StateInv'
BY GoneIInv DEF StopEnd, StateInv, TypeOK

\* A crash leaves nothing but the files, and what it makes of the open one is a content or broken.
LEMMA CrashIInv == ASSUME StateInv, Crash PROVE StateInv'
<1>1. file' \in [Id -> Content \cup {Broken, Absent}] BY Places DEF Crash, StateInv, TypeOK
<1> QED BY <1>1, GoneIInv DEF Crash

-----------------------------------------------------------------------------
(* make_dev, remove_dev, the changes of a device.                          *)

\* What all of them have in common: walks on their way are disturbed, so that nothing is claimed
\* of them any more.
LEMMA DisturbedWalks ==
    ASSUME StateInv, pc' = pc, seen' = Disturbed(Walker)
    PROVE  /\ \A w \in Walker : pc'[w] # "idle" => seen'[w] = Absent
           /\ seen' \in [Walker -> {Absent} \cup Seq(Id)]
           /\ WalkInv'
<1>1. \A w \in Walker : seen'[w] = IF pc[w] # "idle" THEN Absent ELSE seen[w] BY DEF Disturbed
<1>2. \A w \in Walker : pc'[w] # "idle" => seen'[w] = Absent BY <1>1
<1>3. WalkInv' BY <1>2 DEF WalkInv
<1>4. seen' \in [Walker -> {Absent} \cup Seq(Id)] BY DEF StateInv, TypeOK, Disturbed
<1> QED BY <1>2, <1>3, <1>4

\* A device enters the map, under a number that is not in use.
LEMMA EnteredIInv ==
    ASSUME StateInv, phase = "up", NextAvaID <= MaxId, NEW c \in Content, Entered(NextAvaID, c),
           UNCHANGED <<phase, m_ite4nextdev, todo, open, lost, pc, dev, wanted>>,
           file' \in [Id -> Content \cup {Broken, Absent}], \A i \in Id : file'[i] # Broken
    PROVE  StateInv'
<1>0. TypeOK /\ PhaseInv /\ FileInv BY DEF StateInv
<1>1. NextAvaID \in 1..MaxId /\ NextAvaID \in Id BY <1>0, FreeNumber
<1>2. /\ m_devs' = [j \in DOMAIN m_devs \cup {NextAvaID} |-> IF j = NextAvaID THEN c ELSE m_devs[j]]
      /\ m_next_ava_id' = NextAvaID /\ seen' = Disturbed(Walker)
  BY DEF Entered, Including
<1>3. TypeOK'
  <2>1. DOMAIN m_devs \subseteq DOMAIN m_devs' /\ DOMAIN m_devs' \subseteq Id
    BY <1>0, <1>1, <1>2 DEF TypeOK
  <2>2. \A i \in DOMAIN m_devs' : m_devs'[i] \in Content BY <1>0, <1>2 DEF TypeOK
  <2>3. m_ite4nextdev' \in DOMAIN m_devs' \cup {End, Dangling} BY <1>0, <2>1 DEF TypeOK
  <2>4. dev' \in [Walker -> DOMAIN m_devs' \cup {End, Dangling}] BY <1>0, <2>1 DEF TypeOK
  <2>5. seen' \in [Walker -> {Absent} \cup Seq(Id)] BY <1>2, DisturbedWalks
  <2> QED BY <1>0, <1>1, <1>2, <2>1, <2>2, <2>3, <2>4, <2>5 DEF TypeOK
<1>4. PhaseInv' BY <1>0 DEF PhaseInv
<1>5. FileInv' BY <1>0 DEF FileInv, PhaseInv
<1>6. WalkInv' BY <1>2, DisturbedWalks
<1> QED BY <1>3, <1>4, <1>5, <1>6 DEF StateInv

\* A device made from a template changes no file.
LEMMA MakeFromTemplateIInv == ASSUME StateInv, NEW c \in Template, MakeFromTemplate(c) PROVE StateInv'
<1>1. c \in Content BY Places
<1>2. file' \in [Id -> Content \cup {Broken, Absent}] /\ \A i \in Id : file'[i] # Broken
  BY DEF MakeFromTemplate, StateInv, TypeOK, FileInv
<1> QED BY <1>1, <1>2, EnteredIInv DEF MakeFromTemplate

\* A device made without a template is what its file holds, which is not broken.
LEMMA MakePlainIInv == ASSUME StateInv, MakePlain PROVE StateInv'
<1>0. TypeOK /\ FileInv BY DEF StateInv
<1>1. NextAvaID \in Id BY <1>0, FreeNumber DEF MakePlain
<1>2. /\ phase = "up"
      /\ file' = [file EXCEPT ![NextAvaID] = IF file[NextAvaID] = Absent THEN Empty ELSE file[NextAvaID]]
  BY DEF MakePlain
<1>3. file[NextAvaID] \in Content \cup {Absent} BY <1>0, <1>1, <1>2 DEF TypeOK, FileInv
<1>4. file' \in [Id -> Content \cup {Broken, Absent}]
  BY <1>0, <1>1, <1>2, <1>3, Places DEF TypeOK
<1>5. file'[NextAvaID] \in Content /\ \A i \in Id : file'[i] # Broken
  BY <1>0, <1>1, <1>2, <1>3, Places DEF TypeOK, FileInv
<1> QED BY <1>4, <1>5, EnteredIInv DEF MakePlain

\* An iterator at a removed device dangles and the walks know nothing; what stays of its file can be read.
LEMMA RemoveDevIInv == ASSUME StateInv, NEW i \in Id, RemoveDev(i) PROVE StateInv'
<1>0. TypeOK /\ PhaseInv /\ FileInv BY DEF StateInv
<1>1. /\ phase = "up" /\ i \in DOMAIN m_devs
      /\ m_devs' = [j \in DOMAIN m_devs \ {i} |-> m_devs[j]]
      /\ m_ite4nextdev' = IF m_ite4nextdev = i THEN Dangling ELSE m_ite4nextdev
      /\ dev' = [w \in Walker |-> IF dev[w] = i THEN Dangling ELSE dev[w]]
      /\ seen' = Disturbed(Walker)
      /\ UNCHANGED <<phase, m_next_ava_id, todo, open, lost, pc, wanted>>
  BY DEF RemoveDev, Without
<1>2. \E c \in {Absent, file[i], m_devs[i]} : file' = [file EXCEPT ![i] = c] BY DEF RemoveDev
<1>3. m_devs[i] \in Content /\ file[i] \in Content \cup {Absent} /\ m_devs[i] # Broken
  BY <1>0, <1>1, Places DEF TypeOK, FileInv
<1>4. file' \in [Id -> Content \cup {Broken, Absent}] /\ \A j \in Id : file'[j] # Broken
  BY <1>0, <1>1, <1>2, <1>3, Places DEF TypeOK, FileInv
<1>5. TypeOK'
  <2>1. DOMAIN m_devs' = DOMAIN m_devs \ {i} /\ DOMAIN m_devs' \subseteq Id BY <1>0, <1>1 DEF TypeOK
  <2>2. \A j \in DOMAIN m_devs' : m_devs'[j] \in Content BY <1>0, <1>1 DEF TypeOK
  <2>3. m_ite4nextdev' \in DOMAIN m_devs' \cup {End, Dangling} BY <1>0, <1>1, <2>1 DEF TypeOK
  <2>4. dev' \in [Walker -> DOMAIN m_devs' \cup {End, Dangling}] BY <1>0, <1>1, <2>1 DEF TypeOK
  <2>5. seen' \in [Walker -> {Absent} \cup Seq(Id)] BY <1>1, DisturbedWalks
  <2> QED BY <1>0, <1>1, <1>4, <2>1, <2>2, <2>3, <2>4, <2>5 DEF TypeOK
<1>6. PhaseInv' BY <1>0, <1>1 DEF PhaseInv
<1>7. FileInv' BY <1>0, <1>1, <1>4 DEF FileInv, PhaseInv
<1>8. WalkInv' BY <1>1, DisturbedWalks
<1> QED BY <1>5, <1>6, <1>7, <1>8 DEF StateInv

\* A change of a device leaves the set of devices as it is.
LEMMA ChangeIInv == ASSUME StateInv, NEW i \in Id, NEW c \in Content, Change(i, c) PROVE StateInv'
<1>0. TypeOK /\ PhaseInv /\ FileInv BY DEF StateInv
<1>1. /\ phase \in {"up", "stopping"} /\ i \in DOMAIN m_devs
      /\ m_devs' = [m_devs EXCEPT ![i] = c] /\ seen' = Disturbed(Walker)
      /\ UNCHANGED <<phase, m_next_ava_id, m_ite4nextdev, file, todo, open, lost, pc, dev, wanted>>
  BY DEF Change
<1>2. TypeOK'
  <2>1. DOMAIN m_devs' = DOMAIN m_devs /\ \A j \in DOMAIN m_devs' : m_devs'[j] \in Content
    BY <1>0, <1>1 DEF TypeOK
  <2>2. seen' \in [Walker -> {Absent} \cup Seq(Id)] BY <1>1, DisturbedWalks
  <2> QED BY <1>0, <1>1, <2>1, <2>2 DEF TypeOK
<1>3. PhaseInv' BY <1>0, <1>1 DEF PhaseInv
<1>4. FileInv' BY <1>0, <1>1 DEF FileInv, PhaseInv
<1>5. WalkInv' BY <1>1, DisturbedWalks
<1> QED BY <1>2, <1>3, <1>4, <1>5 DEF StateInv

-----------------------------------------------------------------------------
(* Walks.                                                                  *)

\* A walk begins at the first device; it is undisturbed if nobody else walks.
LEMMA WalkBeginIInv ==
    ASSUME StateInv, NEW w \in Walker, NEW c \in Wants(w), WalkBegin(w, c)
    PROVE  StateInv'
<1>0. TypeOK /\ PhaseInv /\ FileInv /\ WalkInv BY DEF StateInv
<1>1. CASE phase = "starting" BY <1>0, <1>1, GoneIInv DEF WalkBegin, TypeOK
<1>2. CASE phase # "starting"
  <2> DEFINE alone == \A v \in Walker : pc[v] = "idle"
  <2>1. /\ pc[w] = "idle" /\ phase \in Runs(w) /\ m_ite4nextdev' = Begin
        /\ pc' = [pc EXCEPT ![w] = "take"] /\ wanted' = [wanted EXCEPT ![w] = c]
        /\ seen' = [Disturbed(Walker) EXCEPT ![w] = IF alone THEN <<>> ELSE Absent]
        /\ UNCHANGED <<phase, m_devs, m_next_ava_id, file, todo, open, lost, dev>>
    BY <1>2 DEF WalkBegin, store
  <2>2. phase \in {"up", "stopping"} BY <1>2, <2>1 DEF Runs
  <2>3. Begin \in DOMAIN m_devs \cup {End} /\ (DOMAIN m_devs # {} => Begin \in DOMAIN m_devs)
    BY <1>0, AtPlace DEF TypeOK, Begin
  <2>4. c \in Content \cup {Absent} BY DEF Wants
  <2>5. \A v \in Walker : seen'[v] = IF v = w THEN (IF alone THEN <<>> ELSE Absent)
                                     ELSE IF pc[v] # "idle" THEN Absent ELSE seen[v]
    BY <2>1 DEF Disturbed
  <2>6. TypeOK'
    <3>1. pc' \in [Walker -> {"idle", "take", "advance", "use", "test"}] BY <1>0, <2>1 DEF TypeOK
    <3>2. wanted' \in [Walker -> Content \cup {Absent}] BY <1>0, <2>1, <2>4 DEF TypeOK
    <3>3. seen' \in [Walker -> {Absent} \cup Seq(Id)]
      <4>1. <<>> \in Seq(Id) OBVIOUS
      <4>2. Disturbed(Walker) \in [Walker -> {Absent} \cup Seq(Id)] BY <1>0 DEF TypeOK, Disturbed
      <4>3. (IF alone THEN <<>> ELSE Absent) \in {Absent} \cup Seq(Id) BY <4>1
      <4> HIDE DEF alone
      <4> QED BY <2>1, <4>2, <4>3
    <3> QED BY <1>0, <2>1, <2>2, <2>3, <3>1, <3>2, <3>3 DEF TypeOK
  <2>7. PhaseInv' BY <1>0, <2>1, <2>2 DEF PhaseInv
  <2>8. FileInv' BY <1>0, <2>1 DEF FileInv
  <2>9. WalkInv'
    <3> SUFFICES ASSUME NEW v \in Walker, pc'[v] # "idle", seen'[v] # Absent
                 PROVE  /\ \A u \in Walker \ {v} : pc'[u] = "idle"
                        /\ DOMAIN m_devs' # {} =>
                             /\ \/ m_ite4nextdev' \in DOMAIN m_devs'
                                \/ pc'[v] \in {"use", "test"} /\ m_ite4nextdev' = End
                             /\ pc'[v] = "advance" => dev'[v] = m_ite4nextdev'
                             /\ pc'[v] = "use" => dev'[v] \in DOMAIN m_devs'
      BY DEF WalkInv
    <3>1. v = w BY <1>0, <2>1, <2>5 DEF TypeOK
    <3>2. alone BY <2>5, <3>1
    <3>3. \A u \in Walker : pc'[u] = IF u = w THEN "take" ELSE pc[u] BY <1>0, <2>1 DEF TypeOK
    <3> HIDE DEF alone
    <3>4. \A u \in Walker \ {v} : pc'[u] = "idle" BY <3>1, <3>2, <3>3 DEF alone
    <3> QED BY <2>1, <2>3, <3>1, <3>3, <3>4
  <2> QED BY <2>6, <2>7, <2>8, <2>9 DEF StateInv
<1> QED BY <1>1, <1>2

\* The iterator a walk takes is where the cursor is.
LEMMA WalkTakeIInv == ASSUME StateInv, NEW w \in Walker, WalkTake(w) PROVE StateInv'
<1>0. TypeOK /\ PhaseInv /\ FileInv /\ WalkInv BY DEF StateInv
<1>1. /\ pc[w] = "take" /\ pc' = [pc EXCEPT ![w] = "advance"]
      /\ dev' = [dev EXCEPT ![w] = m_ite4nextdev]
      /\ UNCHANGED <<phase, m_devs, m_next_ava_id, file, todo, open, lost, m_ite4nextdev, wanted, seen>>
  BY DEF WalkTake, store
<1>2. \A v \in Walker : /\ pc'[v] = IF v = w THEN "advance" ELSE pc[v]
                        /\ dev'[v] = IF v = w THEN m_ite4nextdev ELSE dev[v]
  BY <1>0, <1>1 DEF TypeOK
<1>3. TypeOK'
  <2>1. pc' \in [Walker -> {"idle", "take", "advance", "use", "test"}]
        /\ dev' \in [Walker -> DOMAIN m_devs \cup {End, Dangling}]
    BY <1>0, <1>1 DEF TypeOK
  <2>2. phase' = "saving" => \A v \in Walker \ {App} : pc'[v] = "idle" BY <1>0, <1>1, <1>2 DEF TypeOK
  <2> QED BY <1>0, <1>1, <2>1, <2>2 DEF TypeOK
<1>4. PhaseInv' BY <1>0, <1>1, <1>2 DEF PhaseInv
<1>5. FileInv' BY <1>0, <1>1 DEF FileInv
<1>6. WalkInv' BY <1>0, <1>1, <1>2 DEF WalkInv
<1> QED BY <1>3, <1>4, <1>5, <1>6 DEF StateInv

\* Behind a device there is another one or the end.
LEMMA WalkAdvanceIInv == ASSUME StateInv, NEW w \in Walker, WalkAdvance(w) PROVE StateInv'
<1>0. TypeOK /\ PhaseInv /\ FileInv /\ WalkInv BY DEF StateInv
<1>1. CASE dev[w] \in {End, Dangling} BY <1>0, <1>1, GoneIInv DEF WalkAdvance, TypeOK
<1>2. CASE dev[w] \notin {End, Dangling}
  <2>1. /\ pc[w] = "advance" /\ pc' = [pc EXCEPT ![w] = "use"]
        /\ m_ite4nextdev' = Successor(dev[w])
        /\ UNCHANGED <<phase, m_devs, m_next_ava_id, file, todo, open, lost, dev, wanted, seen>>
    BY <1>2 DEF WalkAdvance, store
  <2>2. \A v \in Walker : pc'[v] = IF v = w THEN "use" ELSE pc[v] BY <1>0, <2>1 DEF TypeOK
  <2>3. dev[w] \in DOMAIN m_devs BY <1>0, <1>2 DEF TypeOK
  <2>4. m_ite4nextdev' \in DOMAIN m_devs \cup {End}
    <3>1. {j \in DOMAIN m_devs : j > dev[w]} \in SUBSET Id BY <1>0 DEF TypeOK
    <3> QED BY <2>1, <3>1, AtPlace DEF Successor
  <2>5. TypeOK'
    <3>1. pc' \in [Walker -> {"idle", "take", "advance", "use", "test"}] BY <1>0, <2>1 DEF TypeOK
    <3>2. phase' = "saving" => \A v \in Walker \ {App} : pc'[v] = "idle" BY <1>0, <2>1, <2>2 DEF TypeOK
    <3> QED BY <1>0, <2>1, <2>4, <3>1, <3>2 DEF TypeOK
  <2>6. PhaseInv' BY <1>0, <2>1, <2>2 DEF PhaseInv
  <2>7. FileInv' BY <1>0, <2>1 DEF FileInv
  <2>8. WalkInv' BY <1>0, <2>1, <2>2, <2>3, <2>4 DEF WalkInv
  <2> QED BY <2>5, <2>6, <2>7, <2>8 DEF StateInv
<1> QED BY <1>1, <1>2

\* A walk that ends leaves the others as they are.
LEMMA EndedWalk ==
    ASSUME StateInv, NEW w \in Walker, Ended(w), UNCHANGED store,
           m_ite4nextdev' = m_ite4nextdev \/ m_ite4nextdev' \in DOMAIN m_devs \cup {End}, pc[w] # "idle"
    PROVE  StateInv'
<1>0. TypeOK /\ PhaseInv /\ FileInv /\ WalkInv BY DEF StateInv
<1>1. /\ pc' = [pc EXCEPT ![w] = "idle"] /\ dev' = [dev EXCEPT ![w] = End]
      /\ wanted' = [wanted EXCEPT ![w] = Absent] /\ seen' = [seen EXCEPT ![w] = <<>>]
      /\ UNCHANGED <<phase, m_devs, m_next_ava_id, file, todo, open, lost>>
  BY DEF Ended, store
<1>2. \A v \in Walker : pc'[v] = IF v = w THEN "idle" ELSE pc[v] BY <1>0, <1>1 DEF TypeOK
<1>3. \A v \in Walker \ {w} : dev'[v] = dev[v] /\ wanted'[v] = wanted[v] BY <1>0, <1>1 DEF TypeOK
<1>4. TypeOK'
  <2>1. pc' \in [Walker -> {"idle", "take", "advance", "use", "test"}]
        /\ dev' \in [Walker -> DOMAIN m_devs \cup {End, Dangling}]
    BY <1>0, <1>1 DEF TypeOK
  <2>2. phase' = "saving" => \A v \in Walker \ {App} : pc'[v] = "idle" BY <1>0, <1>1, <1>2 DEF TypeOK
  <2>3. m_ite4nextdev' \in DOMAIN m_devs \cup {End, Dangling} BY <1>0 DEF TypeOK
  <2>4. wanted' \in [Walker -> Content \cup {Absent}] BY <1>0, <1>1 DEF TypeOK
  <2>5. seen' \in [Walker -> {Absent} \cup Seq(Id)]
    <3>1. <<>> \in Seq(Id) OBVIOUS
    <3> QED BY <1>0, <1>1, <3>1 DEF TypeOK
  <2> QED BY <1>0, <1>1, <2>1, <2>2, <2>3, <2>4, <2>5 DEF TypeOK
<1>5. PhaseInv' BY <1>0, <1>1, <1>2 DEF PhaseInv
<1>6. FileInv' BY <1>0, <1>1 DEF FileInv
<1>7. WalkInv' BY <1>0, <1>1, <1>2, <1>3 DEF WalkInv
<1> QED BY <1>4, <1>5, <1>6, <1>7 DEF StateInv

\* A device that is used is recorded, or ends the walk, or has been deleted.
LEMMA WalkUseIInv == ASSUME StateInv, NEW w \in Walker, WalkUse(w) PROVE StateInv'
<1>0. TypeOK /\ PhaseInv /\ FileInv /\ WalkInv BY DEF StateInv
<1>1. CASE ~Alive(dev[w]) BY <1>0, <1>1, GoneIInv DEF WalkUse, TypeOK
<1>2. CASE Alive(dev[w]) /\ m_devs[dev[w]] = wanted[w]
  BY <1>2, EndedWalk DEF WalkUse
<1>3. CASE Alive(dev[w]) /\ m_devs[dev[w]] # wanted[w]
  <2>1. /\ pc[w] = "use" /\ pc' = [pc EXCEPT ![w] = "test"] /\ dev' = [dev EXCEPT ![w] = End]
        /\ seen' = [seen EXCEPT ![w] = IF seen[w] = Absent THEN seen[w] ELSE Append(seen[w], dev[w])]
        /\ UNCHANGED <<phase, m_devs, m_next_ava_id, file, todo, open, lost, m_ite4nextdev, wanted>>
    BY <1>3 DEF WalkUse, store
  <2>2. \A v \in Walker : /\ pc'[v] = IF v = w THEN "test" ELSE pc[v]
                          /\ v # w => dev'[v] = dev[v] /\ seen'[v] = seen[v]
                          /\ seen'[v] # Absent => seen[v] # Absent
    BY <1>0, <2>1 DEF TypeOK
  <2>3. dev[w] \in Id BY <1>0, <1>3 DEF Alive, TypeOK
  <2>4. TypeOK'
    <3>1. pc' \in [Walker -> {"idle", "take", "advance", "use", "test"}]
          /\ dev' \in [Walker -> DOMAIN m_devs \cup {End, Dangling}]
      BY <1>0, <2>1 DEF TypeOK
    <3>2. phase' = "saving" => \A v \in Walker \ {App} : pc'[v] = "idle" BY <1>0, <2>1, <2>2 DEF TypeOK
    <3>3. seen' \in [Walker -> {Absent} \cup Seq(Id)]
      <4>1. seen[w] \in {Absent} \cup Seq(Id) BY <1>0 DEF TypeOK
      <4>2. seen[w] # Absent => Append(seen[w], dev[w]) \in Seq(Id) BY <2>3, <4>1
      <4> DEFINE more == IF seen[w] = Absent THEN seen[w] ELSE Append(seen[w], dev[w])
      <4>3. more \in {Absent} \cup Seq(Id) BY <4>1, <4>2
      <4>4. seen' = [seen EXCEPT ![w] = more] BY <2>1
      <4> HIDE DEF more
      <4> QED BY <1>0, <4>3, <4>4 DEF TypeOK
    <3> QED BY <1>0, <2>1, <3>1, <3>2, <3>3 DEF TypeOK
  <2>5. PhaseInv' BY <1>0, <2>1, <2>2 DEF PhaseInv
  <2>6. FileInv' BY <1>0, <2>1 DEF FileInv
  <2>7. WalkInv' BY <1>0, <2>1, <2>2 DEF WalkInv
  <2> QED BY <2>4, <2>5, <2>6, <2>7 DEF StateInv
<1> QED BY <1>1, <1>2, <1>3

\* A walk goes on where the cursor is, or ends with the cursor at the beginning.
LEMMA WalkTestIInv == ASSUME StateInv, NEW w \in Walker, WalkTest(w) PROVE StateInv'
<1>0. TypeOK /\ PhaseInv /\ FileInv /\ WalkInv BY DEF StateInv
<1>1. CASE m_ite4nextdev = End
  <2>1. Begin \in DOMAIN m_devs \cup {End} BY <1>0, AtPlace DEF TypeOK, Begin
  <2> QED BY <1>1, <2>1, EndedWalk DEF WalkTest
<1>2. CASE m_ite4nextdev # End
  <2>1. /\ pc[w] = "test" /\ pc' = [pc EXCEPT ![w] = "take"]
        /\ UNCHANGED <<phase, m_devs, m_next_ava_id, file, todo, open, lost, m_ite4nextdev, dev, wanted, seen>>
    BY <1>2 DEF WalkTest, store
  <2>2. \A v \in Walker : pc'[v] = IF v = w THEN "take" ELSE pc[v] BY <1>0, <2>1 DEF TypeOK
  <2>3. TypeOK'
    <3>1. pc' \in [Walker -> {"idle", "take", "advance", "use", "test"}] BY <1>0, <2>1 DEF TypeOK
    <3>2. phase' = "saving" => \A v \in Walker \ {App} : pc'[v] = "idle" BY <1>0, <2>1, <2>2 DEF TypeOK
    <3> QED BY <1>0, <2>1, <3>1, <3>2 DEF TypeOK
  <2>4. PhaseInv' BY <1>0, <2>1, <2>2 DEF PhaseInv
  <2>5. FileInv' BY <1>0, <2>1 DEF FileInv
  <2>6. WalkInv' BY <1>0, <1>2, <2>1, <2>2 DEF WalkInv
  <2> QED BY <2>3, <2>4, <2>5, <2>6 DEF StateInv
<1> QED BY <1>1, <1>2

-----------------------------------------------------------------------------
(* What an undisturbed walk has seen.                                      *)

\* The devices before the successor of one are those before it and itself.
LEMMA BeforeSuccessor ==
    ASSUME TypeOK, NEW d \in DOMAIN m_devs
    PROVE  /\ Before(Successor(d)) = Before(d) \cup {d} /\ d \in Nat
           /\ \A j \in Before(d) : j \in Nat /\ j < d
<1> DEFINE S == {j \in DOMAIN m_devs : j > d}
<1>1. /\ DOMAIN m_devs \subseteq Nat /\ \A j \in DOMAIN m_devs : j < End
      /\ S \in SUBSET Nat /\ End \in Nat /\ d \in Nat
  BY Places, SMT DEF TypeOK, Id, End, Special
<1>2. \A j \in DOMAIN m_devs : j < Successor(d) <=> j <= d
  <2>1. CASE S = {}
    <3>1. Successor(d) = End BY <2>1 DEF Successor, At
    <3>2. \A j \in DOMAIN m_devs : j <= d BY <1>1, <2>1
    <3> QED BY <1>1, <3>1, <3>2
  <2>2. CASE S # {}
    <3>1. Successor(d) = Min(S) BY <2>2 DEF Successor, At
    <3> DEFINE m == Min(S)
    <3>2. m \in S /\ \A y \in S : m <= y BY <1>1, <2>2, MinOfSet
    <3> HIDE DEF m
    <3>3. m \in Nat /\ m > d BY <1>1, <3>2
    <3>4. \A j \in DOMAIN m_devs : j > d => m <= j BY <3>2
    <3>5. \A j \in DOMAIN m_devs : j < m <=> j <= d BY <1>1, <3>3, <3>4
    <3> QED BY <3>1, <3>5 DEF m
  <2> QED BY <2>1, <2>2
<1>3. \A j \in DOMAIN m_devs : j <= d <=> j < d \/ j = d BY <1>1
<1> QED BY <1>1, <1>2, <1>3 DEF Before

\* Nothing comes before the first device, and nothing behind the end.
LEMMA BeforeEnds == ASSUME TypeOK PROVE Before(Begin) = {} /\ Before(End) = DOMAIN m_devs
<1>1. DOMAIN m_devs \in SUBSET Nat /\ End \in Nat /\ \A j \in DOMAIN m_devs : j < End
  BY Places, SMT DEF TypeOK, Id, End, Special
<1>2. Before(Begin) = {}
  <2>1. CASE DOMAIN m_devs = {} BY <2>1 DEF Before
  <2>2. CASE DOMAIN m_devs # {}
    <3>1. Begin = Min(DOMAIN m_devs) BY <2>2 DEF Begin, At
    <3>2. Begin \in Nat /\ \A j \in DOMAIN m_devs : Begin <= j BY <1>1, <2>2, <3>1, MinOfSet
    <3>3. \A j \in DOMAIN m_devs : ~(j < Begin) BY <1>1, <3>2
    <3> QED BY <3>3 DEF Before
  <2> QED BY <2>1, <2>2
<1> QED BY <1>1, <1>2 DEF Before

\* A device behind all that have been seen may be added.
LEMMA SeenMore ==
    ASSUME NEW s \in Seq(Id), Ascending(s), NEW d \in Nat, \A i \in ToSet(s) : i \in Nat /\ i < d
    PROVE  Ascending(Append(s, d)) /\ ToSet(Append(s, d)) = ToSet(s) \cup {d}
<1> DEFINE t == Append(s, d)
<1>1. /\ DOMAIN t = 1..Len(s) + 1 /\ t[Len(s) + 1] = d /\ \A i \in 1..Len(s) : t[i] = s[i]
  BY Pushed
<1>2. DOMAIN s = 1..Len(s) /\ Len(s) \in Nat OBVIOUS
<1> HIDE DEF t
<1>3. \A i \in 1..Len(s) + 1 : i \in 1..Len(s) \/ i = Len(s) + 1 BY <1>2
<1>4. Len(s) + 1 \in DOMAIN t /\ \A i \in 1..Len(s) : i \in DOMAIN t BY <1>1, <1>2
<1>5. ToSet(t) = ToSet(s) \cup {d} BY <1>1, <1>2, <1>3, <1>4 DEF ToSet
<1>6. Ascending(t)
  <2> SUFFICES ASSUME NEW i \in 1..Len(s) + 1, NEW j \in 1..Len(s) + 1, i < j PROVE t[i] < t[j]
    BY <1>1 DEF Ascending
  <2>1. i \in 1..Len(s) /\ t[i] = s[i] BY <1>1, <1>2
  <2>2. CASE j \in 1..Len(s) BY <1>1, <1>2, <2>1, <2>2 DEF Ascending
  <2>3. CASE j = Len(s) + 1
    <3>1. s[i] \in ToSet(s) BY <1>2, <2>1 DEF ToSet
    <3> QED BY <1>1, <2>1, <2>3, <3>1
  <2> QED BY <1>3, <2>2, <2>3
<1> QED BY <1>5, <1>6 DEF t

\* When nobody walks, or every walk on its way is disturbed, nothing is claimed.
LEMMA NothingSeen ==
    ASSUME \A w \in Walker : pc'[w] = "idle" \/ seen'[w] = Absent PROVE SeenInv'
BY DEF SeenInv

\* The steps of the threads that do not walk.
LEMMA OthersSeen ==
    ASSUME StateInv, SeenInv,
           \/ UNCHANGED <<m_devs, m_ite4nextdev, walks>>
           \/ Gone
           \/ \A w \in Walker : pc[w] = "idle" /\ UNCHANGED walks
           \/ pc' = pc /\ seen' = Disturbed(Walker)
    PROVE  SeenInv'
<1>1. CASE UNCHANGED <<m_devs, m_ite4nextdev, walks>>
  BY <1>1 DEF SeenInv, walks, Before, Place, Successor
<1>2. CASE Gone BY <1>2, NothingSeen DEF Gone, Everywhere
<1>3. CASE \A w \in Walker : pc[w] = "idle" /\ UNCHANGED walks BY <1>3, NothingSeen DEF walks
<1>4. CASE pc' = pc /\ seen' = Disturbed(Walker) BY <1>4, DisturbedWalks, NothingSeen
<1> QED BY <1>1, <1>2, <1>3, <1>4

\* A walk that begins alone is at the first device and has seen nothing.
LEMMA WalkBeginSeen ==
    ASSUME StateInv, SeenInv, NEW w \in Walker, NEW c \in Wants(w), WalkBegin(w, c)
    PROVE  SeenInv'
<1>0. TypeOK BY DEF StateInv
<1>1. CASE phase = "starting" BY <1>1, OthersSeen DEF WalkBegin
<1>2. CASE phase # "starting"
  <2> DEFINE alone == \A v \in Walker : pc[v] = "idle"
  <2>1. /\ pc[w] = "idle" /\ m_ite4nextdev' = Begin /\ m_devs' = m_devs
        /\ pc' = [pc EXCEPT ![w] = "take"]
        /\ seen' = [Disturbed(Walker) EXCEPT ![w] = IF alone THEN <<>> ELSE Absent]
    BY <1>2 DEF WalkBegin, store
  <2>2. \A v \in Walker : seen'[v] = IF v = w THEN (IF alone THEN <<>> ELSE Absent)
                                     ELSE IF pc[v] # "idle" THEN Absent ELSE seen[v]
    BY <2>1 DEF Disturbed
  <2>3. \A v \in Walker : pc'[v] = IF v = w THEN "take" ELSE pc[v] BY <1>0, <2>1 DEF TypeOK
  <2> HIDE DEF alone
  <2>4. Place(w)' = Begin BY <2>1, <2>3 DEF Place
  <2>5. Before(Begin)' = Before(Begin) /\ Before(Begin) = {} BY <1>0, <2>1, BeforeEnds DEF Before, Begin
  <2>6. Before(Place(w))' = {} BY <2>1, <2>4, <2>5 DEF Before
  <2>7. ToSet(<<>>) = {} /\ Ascending(<<>>)
    <3>1. DOMAIN <<>> = {} OBVIOUS
    <3> QED BY <3>1 DEF ToSet, Ascending
  <2> SUFFICES ASSUME NEW v \in Walker, pc'[v] # "idle", seen'[v] # Absent
               PROVE  v = w /\ seen'[v] = <<>>
    BY <2>3, <2>6, <2>7 DEF SeenInv
  <2> QED BY <2>2, <2>3
<1> QED BY <1>1, <1>2

\* What a step of one walk does not touch of another, undisturbed one: there is none.
LEMMA AloneSeen ==
    ASSUME StateInv, NEW w \in Walker, pc[w] # "idle",
           \A v \in Walker \ {w} : pc'[v] = pc[v] /\ seen'[v] = seen[v],
           pc'[w] # "idle" /\ seen'[w] # Absent =>
              /\ ToSet(seen'[w]) = Before(Place(w))' /\ Ascending(seen'[w])
              /\ \A i \in Before(Place(w))' : m_devs'[i] # wanted'[w]
              /\ pc'[w] = "use" => m_ite4nextdev' = Successor(dev[w])'
    PROVE  SeenInv'
<1>1. \A v \in Walker \ {w} : pc'[v] = "idle" \/ seen'[v] = Absent BY DEF StateInv, WalkInv
<1> QED BY <1>1 DEF SeenInv

\* The cursor is where the iterator in hand is.
LEMMA WalkTakeSeen == ASSUME StateInv, SeenInv, NEW w \in Walker, WalkTake(w) PROVE SeenInv'
<1>1. /\ pc[w] = "take" /\ pc' = [pc EXCEPT ![w] = "advance"]
      /\ dev' = [dev EXCEPT ![w] = m_ite4nextdev]
      /\ UNCHANGED <<m_devs, m_ite4nextdev, wanted, seen>>
  BY DEF WalkTake, store
<1>2. /\ \A v \in Walker : pc'[v] = IF v = w THEN "advance" ELSE pc[v]
      /\ dev'[w] = m_ite4nextdev
  BY <1>1 DEF StateInv, TypeOK
<1>3. Place(w)' = Place(w) BY <1>1, <1>2 DEF Place
<1>4. Before(Place(w))' = Before(Place(w)) BY <1>1, <1>3 DEF Before
<1> QED BY <1>1, <1>2, <1>4, AloneSeen DEF SeenInv

\* The cursor is behind the device in hand.
LEMMA WalkAdvanceSeen == ASSUME StateInv, SeenInv, NEW w \in Walker, WalkAdvance(w) PROVE SeenInv'
<1>1. CASE dev[w] \in {End, Dangling} BY <1>1, OthersSeen DEF WalkAdvance
<1>2. CASE dev[w] \notin {End, Dangling}
  <2>1. /\ pc[w] = "advance" /\ pc' = [pc EXCEPT ![w] = "use"]
        /\ m_ite4nextdev' = Successor(dev[w]) /\ UNCHANGED <<m_devs, dev, wanted, seen>>
    BY <1>2 DEF WalkAdvance, store
  <2>2. \A v \in Walker : pc'[v] = IF v = w THEN "use" ELSE pc[v]
    BY <2>1 DEF StateInv, TypeOK
  <2>3. Place(w)' = Place(w) BY <2>1, <2>2 DEF Place
  <2>4. Before(Place(w))' = Before(Place(w)) BY <2>1, <2>3 DEF Before
  <2>5. m_ite4nextdev' = Successor(dev[w])' BY <2>1 DEF Successor
  <2> QED BY <2>1, <2>2, <2>4, <2>5, AloneSeen DEF SeenInv
<1> QED BY <1>1, <1>2

\* A device that is used and not the one wanted has been seen; the cursor is behind it.
LEMMA WalkUseSeen == ASSUME StateInv, SeenInv, NEW w \in Walker, WalkUse(w) PROVE SeenInv'
<1>0. TypeOK BY DEF StateInv
<1>1. CASE ~Alive(dev[w]) BY <1>1, OthersSeen DEF WalkUse
<1>2. CASE Alive(dev[w]) /\ m_devs[dev[w]] = wanted[w]
  <2>1. /\ pc[w] = "use" /\ pc' = [pc EXCEPT ![w] = "idle"] /\ seen' = [seen EXCEPT ![w] = <<>>]
    BY <1>2 DEF WalkUse, Ended
  <2>2. \A v \in Walker \ {w} : pc'[v] = pc[v] /\ seen'[v] = seen[v] BY <1>0, <2>1 DEF TypeOK
  <2>3. pc'[w] = "idle" BY <1>0, <2>1 DEF TypeOK
  <2> QED BY <2>1, <2>2, <2>3, AloneSeen
<1>3. CASE Alive(dev[w]) /\ m_devs[dev[w]] # wanted[w]
  <2> DEFINE d == dev[w]
  <2>1. /\ pc[w] = "use" /\ pc' = [pc EXCEPT ![w] = "test"]
        /\ seen' = [seen EXCEPT ![w] = IF seen[w] = Absent THEN seen[w] ELSE Append(seen[w], d)]
        /\ UNCHANGED <<m_devs, m_ite4nextdev, wanted>>
    BY <1>3 DEF WalkUse, store
  <2>2. \A v \in Walker : /\ pc'[v] = IF v = w THEN "test" ELSE pc[v]
                          /\ v # w => seen'[v] = seen[v]
    BY <1>0, <2>1 DEF TypeOK
  <2>3. d \in DOMAIN m_devs /\ m_devs[d] # wanted[w] BY <1>3 DEF Alive
  <2> HIDE DEF d
  <2>4. ASSUME seen'[w] # Absent
        PROVE  /\ ToSet(seen'[w]) = Before(Place(w))' /\ Ascending(seen'[w])
               /\ \A i \in Before(Place(w))' : m_devs'[i] # wanted'[w]
    <3>1. seen[w] # Absent /\ seen'[w] = Append(seen[w], d) BY <1>0, <2>1, <2>4 DEF TypeOK
    <3>2. seen[w] \in Seq(Id) BY <1>0, <3>1 DEF TypeOK
    <3>3. /\ ToSet(seen[w]) = Before(d) /\ Ascending(seen[w])
          /\ \A i \in Before(d) : m_devs[i] # wanted[w]
          /\ m_ite4nextdev = Successor(d)
      BY <2>1, <3>1 DEF SeenInv, Place, d
    <3>4. Before(Successor(d)) = Before(d) \cup {d} /\ d \in Nat /\ \A j \in Before(d) : j \in Nat /\ j < d
      BY <1>0, <2>3, BeforeSuccessor
    <3>5. Ascending(Append(seen[w], d)) /\ ToSet(Append(seen[w], d)) = Before(d) \cup {d}
      BY <3>2, <3>3, <3>4, SeenMore
    <3>6. Place(w)' = m_ite4nextdev BY <2>1, <2>2 DEF Place
    <3>7. Before(Place(w))' = Before(d) \cup {d} BY <2>1, <3>3, <3>4, <3>6 DEF Before
    <3> QED BY <2>1, <2>3, <3>1, <3>3, <3>5, <3>7
  <2> QED BY <2>1, <2>2, <2>4, AloneSeen
<1> QED BY <1>1, <1>2, <1>3

\* A walk goes on from where the cursor is, or ends.
LEMMA WalkTestSeen == ASSUME StateInv, SeenInv, NEW w \in Walker, WalkTest(w) PROVE SeenInv'
<1>0. TypeOK BY DEF StateInv
<1>1. CASE m_ite4nextdev = End
  <2>1. /\ pc[w] = "test" /\ pc' = [pc EXCEPT ![w] = "idle"] /\ seen' = [seen EXCEPT ![w] = <<>>]
    BY <1>1 DEF WalkTest, Ended
  <2>2. \A v \in Walker \ {w} : pc'[v] = pc[v] /\ seen'[v] = seen[v] BY <1>0, <2>1 DEF TypeOK
  <2>3. pc'[w] = "idle" BY <1>0, <2>1 DEF TypeOK
  <2> QED BY <2>1, <2>2, <2>3, AloneSeen
<1>2. CASE m_ite4nextdev # End
  <2>1. /\ pc[w] = "test" /\ pc' = [pc EXCEPT ![w] = "take"]
        /\ UNCHANGED <<m_devs, m_ite4nextdev, dev, wanted, seen>>
    BY <1>2 DEF WalkTest, store
  <2>2. \A v \in Walker : pc'[v] = IF v = w THEN "take" ELSE pc[v] BY <1>0, <2>1 DEF TypeOK
  <2>3. Place(w)' = Place(w) BY <2>1, <2>2 DEF Place
  <2>4. Before(Place(w))' = Before(Place(w)) BY <2>1, <2>3 DEF Before
  <2> QED BY <2>1, <2>2, <2>4, AloneSeen DEF SeenInv
<1> QED BY <1>1, <1>2

-----------------------------------------------------------------------------
(* The theorems.                                                           *)

\* The part of IInv that does not speak of what has been seen.
LEMMA StateInvariance == Spec => []StateInv
<1>1. StateInv /\ [Next]_vars => StateInv'
  <2> SUFFICES ASSUME StateInv, [Next]_vars PROVE StateInv' OBVIOUS
  <2>1. CASE StartBegin BY <2>1, StartBeginIInv
  <2>2. CASE StartEnd BY <2>2, StartEndIInv
  <2>3. CASE StopBegin BY <2>3, StopBeginIInv
  <2>4. CASE StopJoin BY <2>4, StopJoinIInv
  <2>5. CASE SaveOpen BY <2>5, SaveOpenIInv
  <2>6. CASE SaveWrite BY <2>6, SaveWriteIInv
  <2>7. CASE StopEnd BY <2>7, StopEndIInv
  <2>8. CASE Crash BY <2>8, CrashIInv
  <2>9. ASSUME NEW i \in Id, StartRead(i) PROVE StateInv' BY <2>9, StartReadIInv
  <2>10. ASSUME NEW c \in Template, MakeFromTemplate(c) PROVE StateInv' BY <2>10, MakeFromTemplateIInv
  <2>11. CASE MakePlain BY <2>11, MakePlainIInv
  <2>12. ASSUME NEW i \in Id, RemoveDev(i) PROVE StateInv' BY <2>12, RemoveDevIInv
  <2>13. ASSUME NEW i \in Id, NEW c \in Content, Change(i, c) PROVE StateInv' BY <2>13, ChangeIInv
  <2>14. ASSUME NEW w \in Walker, NEW c \in Wants(w), WalkBegin(w, c) PROVE StateInv'
    BY <2>14, WalkBeginIInv
  <2>15. ASSUME NEW w \in Walker, WalkTake(w) PROVE StateInv' BY <2>15, WalkTakeIInv
  <2>16. ASSUME NEW w \in Walker, WalkAdvance(w) PROVE StateInv' BY <2>16, WalkAdvanceIInv
  <2>17. ASSUME NEW w \in Walker, WalkUse(w) PROVE StateInv' BY <2>17, WalkUseIInv
  <2>18. ASSUME NEW w \in Walker, WalkTest(w) PROVE StateInv' BY <2>18, WalkTestIInv
  <2>19. CASE UNCHANGED vars BY <2>19, StutterIInv
  <2> QED BY <2>1, <2>2, <2>3, <2>4, <2>5, <2>6, <2>7, <2>8, <2>9, <2>10, <2>11, <2>12, <2>13,
             <2>14, <2>15, <2>16, <2>17, <2>18, <2>19 DEF Next
<1> QED BY <1>1, InitIInv, PTL DEF Spec

\* IInv holds in every reachable state: the files are what each phase of the process (Init and
\* Uninit of DeviceManager) makes of them, no iterator points behind the map's back, an
\* undisturbed walk is alone and has seen what lies behind it, and the threads have ended before
\* a device is deleted.
THEOREM Invariance == Spec => []IInv
<1>1. Init => SeenInv BY DEF Init, SeenInv, Everywhere
<1>2. StateInv /\ SeenInv /\ [Next]_vars => SeenInv'
  <2> SUFFICES ASSUME StateInv, SeenInv, [Next]_vars PROVE SeenInv' OBVIOUS
  <2>1. CASE StartBegin \/ StopBegin \/ StopJoin \/ SaveOpen \/ SaveWrite
    BY <2>1, OthersSeen DEF StartBegin, StopBegin, StopJoin, SaveOpen, SaveWrite
  <2>2. CASE StartEnd \/ \E i \in Id : StartRead(i)
    <3>1. Gone \/ UNCHANGED walks BY <2>2 DEF StartEnd, StartRead
    <3>2. \A w \in Walker : pc[w] = "idle" BY <2>2 DEF StartEnd, StartRead, StateInv, PhaseInv
    <3> QED BY <3>1, <3>2, OthersSeen
  <2>3. CASE StopEnd \/ Crash BY <2>3, OthersSeen DEF StopEnd, Crash
  <2>4. CASE MakePlain \/ \E c \in Template : MakeFromTemplate(c)
    BY <2>4, OthersSeen DEF MakePlain, MakeFromTemplate, Entered
  <2>5. CASE \E i \in Id : RemoveDev(i) \/ \E c \in Content : Change(i, c)
    BY <2>5, OthersSeen DEF RemoveDev, Change
  <2>6. ASSUME NEW w \in Walker, NEW c \in Wants(w), WalkBegin(w, c) PROVE SeenInv'
    BY <2>6, WalkBeginSeen
  <2>7. ASSUME NEW w \in Walker, WalkTake(w) \/ WalkAdvance(w) \/ WalkUse(w) \/ WalkTest(w) PROVE SeenInv'
    BY <2>7, WalkTakeSeen, WalkAdvanceSeen, WalkUseSeen, WalkTestSeen
  <2>8. CASE UNCHANGED vars BY <2>8, OthersSeen DEF vars, walks
  <2> QED BY <2>1, <2>2, <2>3, <2>4, <2>5, <2>6, <2>7, <2>8 DEF Next
<1> QED BY <1>1, <1>2, StateInvariance, PTL DEF Spec, IInv

\* NextDevice ends no process by itself: a walk that no other walk and no change of the registry
\* disturbs has a device in hand whenever it uses one.
THEOREM WalkSafety == Spec => []UndisturbedWalkIsSafe
<1>1. IInv => UndisturbedWalkIsSafe
  <2> SUFFICES ASSUME IInv, NEW w \in Walker, seen[w] # Absent, phase # "saving", DOMAIN m_devs # {}
               PROVE  /\ pc[w] = "advance" => dev[w] \in DOMAIN m_devs
                      /\ pc[w] = "use" => Alive(dev[w])
    BY DEF UndisturbedWalkIsSafe
  <2> QED BY DEF IInv, StateInv, WalkInv, Alive
<1> QED BY <1>1, Invariance, PTL

\* An undisturbed walk that comes to the end has used every device once, in the order of their
\* numbers, wherever the walks before have left m_ite4nextdev, and found none that it wanted.
THEOREM WalkIsComplete == Spec => UndisturbedWalkSeesAll
<1> DEFINE Complete == \A w \in Walker :
                          pc[w] = "test" /\ pc'[w] = "idle" /\ phase' # "down" /\ seen[w] # Absent =>
                             /\ ToSet(seen[w]) = DOMAIN m_devs /\ Ascending(seen[w])
                             /\ \A i \in DOMAIN m_devs : m_devs[i] # wanted[w]
<1>1. IInv /\ [Next]_vars => Complete
  <2> SUFFICES ASSUME IInv, [Next]_vars, NEW w \in Walker, pc[w] = "test", pc'[w] = "idle",
                      phase' # "down", seen[w] # Absent
               PROVE  /\ ToSet(seen[w]) = DOMAIN m_devs /\ Ascending(seen[w])
                      /\ \A i \in DOMAIN m_devs : m_devs[i] # wanted[w]
    OBVIOUS
  <2>0. TypeOK /\ SeenInv BY DEF IInv, StateInv
  <2>1. WalkTest(w)
    <3>0. pc' # pc /\ ~Gone BY DEF Gone
    <3>1. ~UNCHANGED vars BY <3>0 DEF vars
    <3>2. ~(StartBegin \/ StartEnd \/ StopBegin \/ StopJoin \/ SaveOpen \/ SaveWrite)
      BY <3>0 DEF StartBegin, StartEnd, StopBegin, StopJoin, SaveOpen, SaveWrite, walks
    <3>3. ~(StopEnd \/ Crash) /\ \A i \in Id : ~StartRead(i)
      BY <3>0 DEF StopEnd, Crash, StartRead, walks
    <3>4. ~MakePlain /\ \A c \in Template : ~MakeFromTemplate(c)
      BY <3>0 DEF MakePlain, MakeFromTemplate
    <3>5. \A i \in Id : ~RemoveDev(i) /\ \A c \in Content : ~Change(i, c)
      BY <3>0 DEF RemoveDev, Change
    <3>6. PICK v \in Walker : (\E c \in Wants(v) : WalkBegin(v, c))
                              \/ WalkTake(v) \/ WalkAdvance(v) \/ WalkUse(v) \/ WalkTest(v)
      BY <3>1, <3>2, <3>3, <3>4, <3>5 DEF Next
    <3>7. \E p : pc' = [pc EXCEPT ![v] = p]
      <4>1. CASE \E c \in Wants(v) : WalkBegin(v, c) BY <3>0, <4>1 DEF WalkBegin
      <4>2. CASE WalkTake(v) \/ WalkAdvance(v) BY <3>0, <4>2 DEF WalkTake, WalkAdvance
      <4>3. CASE WalkUse(v) BY <3>0, <4>3 DEF WalkUse, Ended
      <4>4. CASE WalkTest(v) BY <4>4 DEF WalkTest, Ended
      <4> QED BY <3>6, <4>1, <4>2, <4>3, <4>4
    <3>8. v = w BY <2>0, <3>7 DEF TypeOK
    <3> QED BY <3>0, <3>6, <3>8 DEF WalkBegin, WalkTake, WalkAdvance, WalkUse
  <2>2. m_ite4nextdev = End
    <3> SUFFICES ASSUME m_ite4nextdev # End PROVE FALSE OBVIOUS
    <3>1. pc' = [pc EXCEPT ![w] = "take"] BY <2>1 DEF WalkTest
    <3> QED BY <2>0, <3>1 DEF TypeOK
  <2>3. Before(Place(w)) = DOMAIN m_devs BY <2>0, <2>2, BeforeEnds DEF Place
  <2> QED BY <2>0, <2>3 DEF SeenInv
<1> QED BY <1>1, Invariance, PTL DEF Spec, UndisturbedWalkSeesAll

-----------------------------------------------------------------------------
(* The refinement of DeviceStore.                                          *)

\* A step that changes neither the files nor the map, and leaves the process up or not, stutters.
LEMMA SameStore ==
    ASSUME UNCHANGED <<phase, m_devs, file, open, lost>> PROVE UNCHANGED Store!vars
BY DEF Store!vars

\* Whatever ends the process is a crash, which spoils the open file at most.
LEMMA GoneIsCrash ==
    ASSUME StateInv, Gone,
           IF open = Absent THEN file' = file ELSE \E c \in {Empty, Broken} : file' = [file EXCEPT ![open] = c]
    PROVE  Store!Crash
BY DEF Gone, Store!Crash

\* A process that ends in the middle may have left a file open, which is empty until it is written.
LEMMA GoneInTheMiddle == ASSUME StateInv, Gone, UNCHANGED file PROVE Store!Crash
<1>1. open # Absent => open \in Id /\ file[open] = Empty BY DEF StateInv, TypeOK, FileInv
<1>2. open # Absent => file = [file EXCEPT ![open] = Empty] BY <1>1 DEF StateInv, TypeOK
<1> QED BY <1>2, GoneIsCrash

\* The special device gets its file, or nothing happens.
LEMMA StartBeginStore == ASSUME StateInv, StartBegin PROVE [Store!Next]_Store!vars
<1>1. /\ phase = "down" /\ phase' = "starting" /\ m_devs = <<>>
      /\ file' = [file EXCEPT ![Special] = IF file[Special] = Absent THEN Empty ELSE file[Special]]
      /\ UNCHANGED <<open, lost>>
  BY DEF StartBegin, StateInv, PhaseInv
<1>2. CASE file[Special] = Absent BY <1>1, <1>2 DEF Store!Prepare, Store!Next
<1>3. CASE file[Special] # Absent
  <2>1. file' = file BY <1>1, <1>3 DEF StateInv, TypeOK
  <2> QED BY <1>1, <2>1 DEF Store!vars
<1> QED BY <1>2, <1>3

\* The map that is being filled is not seen; a file that cannot be read ends the process.
LEMMA StartReadStore == ASSUME StateInv, NEW i \in Id, StartRead(i) PROVE [Store!Next]_Store!vars
<1>1. CASE file[i] = Broken BY <1>1, GoneInTheMiddle DEF StartRead, Store!Next
<1>2. CASE file[i] # Broken BY <1>2 DEF StartRead, Store!vars
<1> QED BY <1>1, <1>2

\* At the end of the start every file has become a device.
LEMMA StartEndStore == ASSUME StateInv, StartEnd PROVE Store!Start
<1>1. /\ phase = "starting" /\ todo = {} /\ phase' = "up"
      /\ UNCHANGED <<m_devs, file, open, lost>>
  BY DEF StartEnd
<1>2. m_devs = [i \in {j \in Id : file[j] # Absent} |-> file[i]] /\ file[Special] # Absent
  BY <1>1 DEF StateInv, FileInv
<1>3. Special \in DOMAIN m_devs BY <1>2, Places
<1>4. \A i \in DOMAIN m_devs : m_devs[i] \in Content BY DEF StateInv, TypeOK
<1> QED BY <1>1, <1>2, <1>3, <1>4 DEF Store!Start

\* A file is opened and emptied, or refuses.
LEMMA SaveOpenStore == ASSUME StateInv, SaveOpen PROVE Store!Next
<1> DEFINE i == Min(todo)
<1>1. i \in todo
  <2>1. todo \in SUBSET Nat /\ todo # {} BY Places DEF StateInv, TypeOK, SaveOpen
  <2> QED BY <2>1, MinOfSet
<1>2. i \in Id /\ i \in DOMAIN m_devs BY <1>1 DEF StateInv, TypeOK, FileInv, SaveOpen
<1>3. /\ phase = "saving" /\ open = Absent /\ UNCHANGED <<phase, m_devs>>
      /\ \/ open' = i /\ file' = [file EXCEPT ![i] = Empty] /\ UNCHANGED lost
         \/ lost' = lost \cup {i} /\ UNCHANGED <<open, file>>
  BY DEF SaveOpen
<1> HIDE DEF i
<1>4. Store!Open(i) \/ Store!Refused(i) BY <1>2, <1>3 DEF Store!Open, Store!Refused
<1> QED BY <1>2, <1>4 DEF Store!Next

\* A device is written into the open file.
LEMMA SaveWriteStore == ASSUME StateInv, SaveWrite PROVE Store!Written
<1>1. phase = "saving" BY DEF SaveWrite, StateInv, PhaseInv
<1> QED BY <1>1 DEF SaveWrite, Store!Written

\* An orderly end: every device is in its file, but for those whose file could not be opened.
LEMMA StopEndStore == ASSUME StateInv, StopEnd PROVE Store!Stop
<1>1. phase = "saving" /\ todo = {} /\ open = Absent BY DEF StopEnd
<1>2. \A i \in DOMAIN m_devs \ lost : file[i] = m_devs[i] BY <1>1 DEF StateInv, FileInv
<1>3. phase' = "down" /\ m_devs' = <<>> /\ lost' = {} /\ open' = open /\ file' = file
  BY <1>1 DEF StopEnd, Gone
<1> QED BY <1>1, <1>2, <1>3 DEF Store!Stop

\* A crash is a crash.
LEMMA CrashStore == ASSUME StateInv, Crash PROVE Store!Crash
<1>1. CASE open = Absent BY <1>1, GoneIsCrash DEF Crash
<1>2. CASE open # Absent BY <1>2, GoneIsCrash DEF Crash
<1> QED BY <1>1, <1>2

\* A device with a new number, without a file.
LEMMA MakeFromTemplateStore ==
    ASSUME StateInv, NEW c \in Template, MakeFromTemplate(c) PROVE Store!Next
<1>1. NextAvaID \in Id /\ NextAvaID \notin DOMAIN m_devs BY FreeNumber DEF MakeFromTemplate, StateInv
<1>2. c \in Content BY Places
<1>3. /\ phase = "up" /\ m_devs' = Including(NextAvaID, c) /\ UNCHANGED <<phase, file, open, lost>>
  BY DEF MakeFromTemplate, Entered
<1>4. Store!Create(NextAvaID, c, TRUE) BY <1>1, <1>3 DEF Store!Create, Including, Store!Including
<1> QED BY <1>1, <1>2, <1>4 DEF Store!Next

\* A device with a new number, which has what the file holds.
LEMMA MakePlainStore == ASSUME StateInv, MakePlain PROVE Store!Next
<1> DEFINE i == NextAvaID
           c == IF file[i] = Absent THEN Empty ELSE file[i]
<1>1. i \in Id /\ i \notin DOMAIN m_devs BY FreeNumber DEF MakePlain, StateInv
<1>2. /\ phase = "up" /\ file' = [file EXCEPT ![i] = c] /\ m_devs' = Including(i, file'[i])
      /\ UNCHANGED <<phase, open, lost>>
  BY DEF MakePlain, Entered
<1>3. c \in Content BY <1>1, <1>2, Places DEF StateInv, TypeOK, FileInv
<1>4. file'[i] = c BY <1>1, <1>2 DEF StateInv, TypeOK
<1>5. Store!Create(i, c, FALSE)
  BY <1>1, <1>2, <1>4 DEF Store!Create, Including, Store!Including
<1> HIDE DEF i, c
<1> QED BY <1>1, <1>3, <1>5 DEF Store!Next

\* A device goes; what stays of its file is nothing, the file or the device.
LEMMA RemoveDevStore == ASSUME StateInv, NEW i \in Id, RemoveDev(i) PROVE Store!Remove(i)
<1>1. phase = "up" /\ i \in DOMAIN m_devs /\ m_devs' = Without(i) /\ UNCHANGED <<phase, open, lost>>
  BY DEF RemoveDev
<1>2. \E c \in {Absent, file[i], m_devs[i]} : file' = [file EXCEPT ![i] = c] BY DEF RemoveDev
<1> QED BY <1>1, <1>2 DEF Store!Remove, Without, Store!Without

\* A change is a change.
LEMMA ChangeStore == ASSUME StateInv, NEW i \in Id, NEW c \in Content, Change(i, c) PROVE Store!Change(i, c)
BY DEF Change, Store!Change

\* The cursor and the walks are no part of the store, unless they end the process.
LEMMA WalkStore ==
    ASSUME StateInv, NEW w \in Walker,
           \/ \E c \in Wants(w) : WalkBegin(w, c)
           \/ WalkTake(w) \/ WalkAdvance(w) \/ WalkUse(w) \/ WalkTest(w)
    PROVE  [Store!Next]_Store!vars
<1>1. (Gone /\ UNCHANGED file) \/ UNCHANGED store
  BY DEF WalkBegin, WalkTake, WalkAdvance, WalkUse, WalkTest
<1>2. CASE Gone /\ UNCHANGED file BY <1>2, GoneInTheMiddle DEF Store!Next
<1>3. CASE UNCHANGED store BY <1>3, SameStore DEF store
<1> QED BY <1>1, <1>2, <1>3

\* The registry implements DeviceStore: no device takes another's number, an orderly stop saves
\* every device whose file can be opened, a crash anywhere spoils one file at most, and the next
\* start (DeviceManager::Init) has what was saved.
THEOREM Refinement == Spec => ImplementsDeviceStore
<1>1. Init => Store!Init BY DEF Init, Store!Init
<1>2. StateInv /\ [Next]_vars => [Store!Next]_Store!vars
  <2> SUFFICES ASSUME StateInv, [Next]_vars PROVE [Store!Next]_Store!vars OBVIOUS
  <2>1. CASE StartBegin BY <2>1, StartBeginStore
  <2>2. CASE StartEnd BY <2>2, StartEndStore DEF Store!Next
  <2>3. CASE StopBegin \/ StopJoin
    <3>1. /\ phase \in {"up", "stopping"} /\ phase' \in {"stopping", "saving"}
          /\ UNCHANGED <<m_devs, file, open, lost>>
      BY <2>3 DEF StopBegin, StopJoin
    <3> QED BY <3>1 DEF Store!vars
  <2>4. CASE SaveOpen BY <2>4, SaveOpenStore
  <2>5. CASE SaveWrite BY <2>5, SaveWriteStore DEF Store!Next
  <2>6. CASE StopEnd BY <2>6, StopEndStore DEF Store!Next
  <2>7. CASE Crash BY <2>7, CrashStore DEF Store!Next
  <2>8. ASSUME NEW i \in Id, StartRead(i) PROVE [Store!Next]_Store!vars BY <2>8, StartReadStore
  <2>9. ASSUME NEW c \in Template, MakeFromTemplate(c) PROVE Store!Next BY <2>9, MakeFromTemplateStore
  <2>10. CASE MakePlain BY <2>10, MakePlainStore
  <2>11. ASSUME NEW i \in Id, RemoveDev(i) PROVE Store!Next BY <2>11, RemoveDevStore DEF Store!Next
  <2>12. ASSUME NEW i \in Id, NEW c \in Content, Change(i, c) PROVE Store!Next
    BY <2>12, ChangeStore DEF Store!Next
  <2>13. ASSUME NEW w \in Walker,
                \/ \E c \in Wants(w) : WalkBegin(w, c)
                \/ WalkTake(w) \/ WalkAdvance(w) \/ WalkUse(w) \/ WalkTest(w)
         PROVE  [Store!Next]_Store!vars
    BY <2>13, WalkStore
  <2>14. CASE UNCHANGED vars BY <2>14, SameStore DEF vars
  <2> QED BY <2>1, <2>2, <2>3, <2>4, <2>5, <2>6, <2>7, <2>8, <2>9, <2>10, <2>11, <2>12, <2>13, <2>14
          DEF Next
<1> QED BY <1>1, <1>2, StateInvariance, PTL DEF Spec, ImplementsDeviceStore, Store!Spec
=============================================================================
