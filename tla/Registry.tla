------------------------------ MODULE Registry ------------------------------
(***************************************************************************)
(* The registry of devices (DeviceManager) between its files, the          *)
(* application that starts and stops it and makes, changes and removes     *)
(* devices, and the threads that go over all the devices by the cursor     *)
(* m_ite4nextdev, which they share without a lock: the rx thread, which    *)
(* looks for the device a frame is addressed to, the listener and an       *)
(* application, which give a group write to every device.                  *)
(*                                                                         *)
(* An iterator whose device has been erased, or a device that has been     *)
(* deleted, ends the process when it is used, and so does the end of the   *)
(* map.  Finding, inserting and erasing in the map is one step.            *)
(***************************************************************************)
EXTENDS Naturals, Sequences, SequencesExt, FiniteSetsExt

CONSTANTS MaxId,      \* bound: numbers given to new devices
          Content,    \* what a device can hold
          Empty,      \* the content of a device without objects
          Broken, Absent,
          Template,   \* contents of template files
          RxThread, Listener, App,
          Walker,     \* threads that go over the devices
          Faults      \* whether operations on files may fail

ASSUME RegistryAssumption ==
    /\ MaxId \in Nat \ {0}
    /\ Empty \in Content /\ Template \subseteq Content /\ {Broken, Absent} \cap Content = {}
    /\ Broken # Absent /\ Absent \notin Nat
    /\ Walker \subseteq {RxThread, Listener, App} /\ Faults \in BOOLEAN

Special == MaxId + 1    \* 0xffffffff, the last in the map
End == MaxId + 2        \* m_devs.end()
Dangling == 0           \* an iterator or a pointer to what is no more
Id == 1..Special

VARIABLES phase,      \* of the process: "down", "starting", "up", "stopping", "saving"
          m_devs,     \* the map
          m_next_ava_id,
          m_ite4nextdev,
          file,       \* file[i]: the content of <i>.dev, Broken or Absent
          todo,       \* files to read, or devices to write back
          open,       \* the file being written, or Absent
          lost,       \* history: devices that could not be written back
          pc,         \* of the walkers
          dev,        \* dev[w]: the device or iterator walker w has in hand
          wanted,     \* wanted[w]: the content it looks for, or Absent if it visits every device
          seen        \* history: the devices it has used, or Absent if another thread disturbed it

vars == <<phase, m_devs, m_next_ava_id, m_ite4nextdev, file, todo, open, lost, pc, dev, wanted, seen>>
store == <<phase, m_devs, m_next_ava_id, file, todo, open, lost>>
walks == <<pc, dev, wanted, seen>>

At(S) == IF S = {} THEN End ELSE Min(S)
Begin == At(DOMAIN m_devs)
Successor(i) == At({j \in DOMAIN m_devs : j > i})
Including(i, c) == [j \in DOMAIN m_devs \cup {i} |-> IF j = i THEN c ELSE m_devs[j]]
Without(i) == [j \in DOMAIN m_devs \ {i} |-> m_devs[j]]

Everywhere(x) == [w \in Walker |-> x]

Init ==
    /\ phase = "down" /\ m_devs = <<>> /\ m_next_ava_id = 1 /\ m_ite4nextdev = End
    /\ file \in [Id -> Content \cup {Broken, Absent}]
    /\ todo = {} /\ open = Absent /\ lost = {}
    /\ pc = Everywhere("idle") /\ dev = Everywhere(End) /\ wanted = Everywhere(Absent) /\ seen = Everywhere(<<>>)

\* The process is gone, whatever the reason.
Gone ==
    /\ phase' = "down" /\ m_devs' = <<>> /\ m_next_ava_id' = 1 /\ m_ite4nextdev' = End
    /\ todo' = {} /\ open' = Absent /\ lost' = {}
    /\ pc' = Everywhere("idle") /\ dev' = Everywhere(End) /\ wanted' = Everywhere(Absent) /\ seen' = Everywhere(<<>>)

\* Others are on their way while the map or the cursor changes.
Disturbed(W) == [v \in Walker |-> IF v \in W /\ pc[v] # "idle" THEN Absent ELSE seen[v]]

-----------------------------------------------------------------------------
(* DeviceManager::Init and Uninit, as EIBEmulatorImpl calls them.          *)

\* The channel with its rx thread starts before DeviceManager::Init has begun.
StartBegin ==
    /\ phase = "down" /\ phase' = "starting"
    /\ file' = [file EXCEPT ![Special] = IF @ = Absent THEN Empty ELSE @]
    /\ todo' = {i \in Id : file'[i] # Absent}
    /\ UNCHANGED <<m_devs, m_next_ava_id, m_ite4nextdev, open, lost, walks>>

\* The files come in any order; one that cannot be read ends the process.
StartRead(i) ==
    /\ phase = "starting" /\ i \in todo
    /\ IF file[i] = Broken THEN Gone /\ UNCHANGED file
       ELSE /\ m_devs' = Including(i, file[i])
            /\ todo' = todo \ {i}
            /\ UNCHANGED <<phase, m_next_ava_id, m_ite4nextdev, file, open, lost, walks>>

StartEnd ==
    /\ phase = "starting" /\ todo = {} /\ phase' = "up"
    /\ m_ite4nextdev' = Begin
    /\ UNCHANGED <<m_devs, m_next_ava_id, file, todo, open, lost, walks>>

StopBegin ==
    /\ phase = "up" /\ phase' = "stopping"
    /\ UNCHANGED <<m_devs, m_next_ava_id, m_ite4nextdev, file, todo, open, lost, walks>>

\* A mutant: the threads are told to quit and not joined.
StopJoin_NoWait ==
    /\ phase = "stopping" /\ phase' = "saving"
    /\ todo' = DOMAIN m_devs
    /\ UNCHANGED <<m_devs, m_next_ava_id, m_ite4nextdev, file, open, lost, walks>>

\* The listener and the rx thread have been joined; nobody waits for applications.
StopJoin ==
    /\ phase = "stopping" /\ phase' = "saving"
    /\ \A w \in Walker \ {App} : pc[w] = "idle"
    /\ todo' = DOMAIN m_devs
    /\ UNCHANGED <<m_devs, m_next_ava_id, m_ite4nextdev, file, open, lost, walks>>

\* WriteBackFile opens the file, which empties it, or fails, which nobody hears of.
SaveOpen ==
    /\ phase = "saving" /\ open = Absent /\ todo # {}
    /\ \/ open' = Min(todo) /\ file' = [file EXCEPT ![Min(todo)] = Empty] /\ UNCHANGED <<todo, lost>>
       \/ Faults /\ lost' = lost \cup {Min(todo)} /\ todo' = todo \ {Min(todo)} /\ UNCHANGED <<open, file>>
    /\ UNCHANGED <<phase, m_devs, m_next_ava_id, m_ite4nextdev, walks>>

\* A mutant: the file that is open is closed without its content.
SaveWrite_Unwritten ==
    /\ open # Absent /\ open' = Absent
    /\ todo' = todo \ {open}
    /\ UNCHANGED <<phase, m_devs, m_next_ava_id, m_ite4nextdev, file, lost, walks>>

SaveWrite ==
    /\ open # Absent /\ open' = Absent
    /\ file' = [file EXCEPT ![open] = m_devs[open]]
    /\ todo' = todo \ {open}
    /\ UNCHANGED <<phase, m_devs, m_next_ava_id, m_ite4nextdev, lost, walks>>

\* A thread that still walks has lost its map.
StopEnd ==
    /\ phase = "saving" /\ todo = {} /\ open = Absent
    /\ Gone /\ UNCHANGED file

\* What has been written so far of an open file reads as a device that has lost objects, or not
\* at all.
Crash ==
    /\ phase # "down" /\ Gone
    /\ \/ open = Absent /\ UNCHANGED file
       \/ open # Absent /\ \E c \in {Empty, Broken} : file' = [file EXCEPT ![open] = c]

-----------------------------------------------------------------------------
(* make_dev, remove_dev and the changes of a device.                       *)

\* A mutant: the numbers of removed devices are not looked up.
NextAvaID_Counts == m_next_ava_id

\* The search goes on from the number found last.
NextAvaID == Min({i \in m_next_ava_id..End : i \notin DOMAIN m_devs})

Entered(i, c) ==
    /\ m_devs' = Including(i, c)
    /\ m_next_ava_id' = i
    /\ seen' = Disturbed(Walker)

\* make_dev with a template: the device has no file until it is written back.
MakeFromTemplate(c) ==
    /\ phase = "up" /\ NextAvaID <= MaxId
    /\ Entered(NextAvaID, c)
    /\ UNCHANGED <<phase, m_ite4nextdev, file, todo, open, lost, pc, dev, wanted>>

\* make_dev without one: the file with the new number is made, or read if there is one.  It can
\* be read: the start would have failed otherwise, and the process spoils no file it survives.
MakePlain ==
    /\ phase = "up" /\ NextAvaID <= MaxId
    /\ file' = [file EXCEPT ![NextAvaID] = IF @ = Absent THEN Empty ELSE @]
    /\ Entered(NextAvaID, file'[NextAvaID])
    /\ UNCHANGED <<phase, m_ite4nextdev, todo, open, lost, pc, dev, wanted>>

\* remove_dev erases the device, removes its file and deletes it.  If there was no file to
\* remove, or it stays, the destructor writes the device back, if it can.  Nothing is locked.
RemoveDev(i) ==
    /\ phase = "up" /\ i \in DOMAIN m_devs
    /\ m_devs' = Without(i)
    /\ m_ite4nextdev' = IF m_ite4nextdev = i THEN Dangling ELSE m_ite4nextdev
    /\ dev' = [w \in Walker |-> IF dev[w] = i THEN Dangling ELSE dev[w]]
    /\ seen' = Disturbed(Walker)
    /\ \E c \in (IF file[i] = Absent THEN {m_devs[i]} ELSE {Absent})
                \cup (IF Faults THEN {file[i], m_devs[i]} ELSE {}) : file' = [file EXCEPT ![i] = c]
    /\ UNCHANGED <<phase, m_next_ava_id, todo, open, lost, pc, wanted>>

\* A device is written by a request or by the application.
Change(i, c) ==
    /\ phase \in {"up", "stopping"} /\ i \in DOMAIN m_devs /\ c # m_devs[i]
    /\ m_devs' = [m_devs EXCEPT ![i] = c]
    /\ seen' = Disturbed(Walker)
    /\ UNCHANGED <<phase, m_next_ava_id, m_ite4nextdev, file, todo, open, lost, pc, dev, wanted>>

-----------------------------------------------------------------------------
(* Walks: NextDevice(TRUE), then NextDevice(FALSE) until it returns NULL.  *)
(* A search ends at the device it finds, with the cursor behind it.        *)

\* The rx thread searches, the others visit.
Wants(w) == IF w = RxThread THEN Content ELSE {Absent}

Runs(w) == IF w = RxThread THEN {"starting", "up", "stopping"} ELSE {"up"}

\* A mutant: the cursor stays where the last walk has left it.
WalkBegin_NoRestart(w, c) ==
    /\ pc[w] = "idle" /\ phase \in Runs(w)
    /\ IF phase = "starting" THEN Gone /\ UNCHANGED file
       ELSE /\ pc' = [pc EXCEPT ![w] = "take"] /\ wanted' = [wanted EXCEPT ![w] = c]
            /\ seen' = [Disturbed(Walker) EXCEPT
                          ![w] = IF \A v \in Walker : pc[v] = "idle" THEN <<>> ELSE Absent]
            /\ UNCHANGED <<store, dev, m_ite4nextdev>>

\* While the registry is being filled, ms_dev_manager is NULL or that of the last time.
WalkBegin(w, c) ==
    /\ pc[w] = "idle" /\ phase \in Runs(w)
    /\ IF phase = "starting" THEN Gone /\ UNCHANGED file
       ELSE /\ m_ite4nextdev' = Begin
            /\ pc' = [pc EXCEPT ![w] = "take"] /\ wanted' = [wanted EXCEPT ![w] = c]
            /\ seen' = [Disturbed(Walker) EXCEPT
                          ![w] = IF \A v \in Walker : pc[v] = "idle" THEN <<>> ELSE Absent]
            /\ UNCHANGED <<store, dev>>

\* m_ite4nextdev++->second reads the cursor, stores its successor and gets the device.
WalkTake(w) ==
    /\ pc[w] = "take" /\ pc' = [pc EXCEPT ![w] = "advance"]
    /\ dev' = [dev EXCEPT ![w] = m_ite4nextdev]
    /\ UNCHANGED <<store, m_ite4nextdev, wanted, seen>>

WalkAdvance(w) ==
    /\ pc[w] = "advance"
    /\ IF dev[w] \in {End, Dangling} THEN Gone /\ UNCHANGED file
       ELSE /\ m_ite4nextdev' = Successor(dev[w])
            /\ pc' = [pc EXCEPT ![w] = "use"]
            /\ UNCHANGED <<store, dev, wanted, seen>>

Alive(i) == i \in DOMAIN m_devs /\ (phase = "saving" => i \in todo)

Ended(w) == /\ pc' = [pc EXCEPT ![w] = "idle"] /\ dev' = [dev EXCEPT ![w] = End]
            /\ wanted' = [wanted EXCEPT ![w] = Absent] /\ seen' = [seen EXCEPT ![w] = <<>>]

WalkUse(w) ==
    /\ pc[w] = "use"
    /\ IF ~Alive(dev[w]) THEN Gone /\ UNCHANGED file
       ELSE /\ IF m_devs[dev[w]] = wanted[w] THEN Ended(w)
               ELSE /\ pc' = [pc EXCEPT ![w] = "test"] /\ dev' = [dev EXCEPT ![w] = End]
                    /\ seen' = [seen EXCEPT ![w] = IF @ = Absent THEN @ ELSE Append(@, dev[w])]
                    /\ UNCHANGED wanted
            /\ UNCHANGED <<store, m_ite4nextdev>>

\* A mutant: the end of the map is not looked for.
WalkTest_NoEnd(w) ==
    /\ pc[w] = "test" /\ pc' = [pc EXCEPT ![w] = "take"]
    /\ UNCHANGED <<store, m_ite4nextdev, dev, wanted, seen>>

\* At the end the cursor goes back to the beginning and the walk is over.
WalkTest(w) ==
    /\ pc[w] = "test"
    /\ IF m_ite4nextdev = End THEN m_ite4nextdev' = Begin /\ Ended(w)
       ELSE pc' = [pc EXCEPT ![w] = "take"] /\ UNCHANGED <<m_ite4nextdev, dev, wanted, seen>>
    /\ UNCHANGED store

Next ==
    \/ StartBegin \/ StartEnd \/ StopBegin \/ StopJoin \/ SaveOpen \/ SaveWrite \/ StopEnd \/ Crash
    \/ \E i \in Id : StartRead(i)
    \/ \E c \in Template : MakeFromTemplate(c)
    \/ MakePlain
    \/ \E i \in Id : RemoveDev(i)
    \/ \E i \in Id, c \in Content : Change(i, c)
    \/ \E w \in Walker : \E c \in Wants(w) : WalkBegin(w, c)
    \/ \E w \in Walker : WalkTake(w) \/ WalkAdvance(w) \/ WalkUse(w) \/ WalkTest(w)

Spec == Init /\ [][Next]_vars
-----------------------------------------------------------------------------
(* Properties.                                                             *)

\* Types; the listener and the rx thread have ended before a device is deleted.
TypeOK ==
    /\ phase \in {"down", "starting", "up", "stopping", "saving"}
    /\ DOMAIN m_devs \subseteq Id /\ \A i \in DOMAIN m_devs : m_devs[i] \in Content
    /\ m_next_ava_id \in 1..MaxId
    /\ m_ite4nextdev \in DOMAIN m_devs \cup {End, Dangling}
    /\ file \in [Id -> Content \cup {Broken, Absent}]
    /\ todo \subseteq Id /\ open \in todo \cup {Absent} /\ lost \subseteq Id
    /\ pc \in [Walker -> {"idle", "take", "advance", "use", "test"}]
    /\ dev \in [Walker -> DOMAIN m_devs \cup {End, Dangling}]
    /\ wanted \in [Walker -> Content \cup {Absent}] /\ seen \in [Walker -> {Absent} \cup Seq(Id)]
    /\ phase = "saving" => \A w \in Walker \ {App} : pc[w] = "idle"

\* A walk by NextDevice that no other walk and no change of the registry has disturbed never
\* uses the end of the map or a device that is no more, as long as there is a device.
UndisturbedWalkIsSafe ==
    \A w \in Walker : seen[w] # Absent /\ phase # "saving" /\ DOMAIN m_devs # {} =>
        /\ pc[w] = "advance" => dev[w] \in DOMAIN m_devs
        /\ pc[w] = "use" => Alive(dev[w])

\* Between a start and a stop nothing is open or lost; nobody walks before the start is through.
PhaseInv ==
    /\ phase = "down" => m_devs = <<>>
    /\ phase # "saving" => open = Absent /\ lost = {}
    /\ phase \in {"down", "starting"} => \A w \in Walker : pc[w] = "idle"

\* What the files hold while they are read, while the process runs and while they are written.
FileInv ==
    /\ phase = "starting" =>
         /\ file[Special] # Absent /\ \A i \in todo : file[i] # Absent
         /\ m_devs = [i \in {j \in Id \ todo : file[j] # Absent} |-> file[i]]
    /\ phase \in {"up", "stopping", "saving"} => \A i \in Id : file[i] # Broken
    /\ phase = "saving" =>
         todo \subseteq DOMAIN m_devs /\ \A i \in DOMAIN m_devs \ (lost \cup todo) : file[i] = m_devs[i]
    /\ open # Absent => file[open] = Empty

\* An undisturbed walk is alone, and the cursor and its device are in the map.
WalkInv ==
    \A w \in Walker : pc[w] # "idle" /\ seen[w] # Absent =>
        /\ \A v \in Walker \ {w} : pc[v] = "idle"
        /\ DOMAIN m_devs # {} =>
             /\ m_ite4nextdev \in DOMAIN m_devs \/ (pc[w] \in {"use", "test"} /\ m_ite4nextdev = End)
             /\ pc[w] = "advance" => dev[w] = m_ite4nextdev
             /\ pc[w] = "use" => dev[w] \in DOMAIN m_devs

\* What an undisturbed walk has used and passed by: the devices before the one it has in hand
\* or, if it has none in hand, before the cursor.
Before(i) == {j \in DOMAIN m_devs : j < i}
Place(w) == IF pc[w] \in {"advance", "use"} THEN dev[w] ELSE m_ite4nextdev
Ascending(s) == \A i, j \in DOMAIN s : i < j => s[i] < s[j]
SeenInv ==
    \A w \in Walker : pc[w] # "idle" /\ seen[w] # Absent =>
        /\ ToSet(seen[w]) = Before(Place(w)) /\ Ascending(seen[w])
        /\ \A i \in Before(Place(w)) : m_devs[i] # wanted[w]
        /\ pc[w] = "use" => m_ite4nextdev = Successor(dev[w])

\* The inductive invariant: types, what holds in each phase of the process (Init, Uninit), of
\* the files (ReadInFile, WriteBackFile) and of the walks by NextDevice.
StateInv == TypeOK /\ PhaseInv /\ FileInv /\ WalkInv
IInv == StateInv /\ SeenInv

\* Wherever the walks before have left the cursor, an undisturbed walk that comes to the end has
\* used every device once, in order, and a search that comes to the end has missed none.
UndisturbedWalkSeesAll ==
    [][\A w \in Walker : pc[w] = "test" /\ pc'[w] = "idle" /\ phase' # "down" /\ seen[w] # Absent =>
           /\ ToSet(seen[w]) = DOMAIN m_devs /\ Ascending(seen[w])
           /\ \A i \in DOMAIN m_devs : m_devs[i] # wanted[w]]_vars

Store == INSTANCE DeviceStore WITH
    up <- phase \in {"up", "stopping", "saving"},
    devs <- IF phase = "starting" THEN <<>> ELSE m_devs,
    disk <- file, torn <- open, lost <- lost

\* Start, make_dev, remove_dev, Uninit and a crash anywhere make of the files and the map what
\* DeviceStore says: no device takes another's number, an orderly stop saves every device whose
\* file can be opened, a crash spoils one file at most, the next start has what was saved.
ImplementsDeviceStore == Store!Spec

\* IEIBEmulator.h:244: a device made without a template (which the content tells) has no objects.
NewDeviceIsEmpty ==
    [][MakePlain /\ m_devs'[NextAvaID] \notin Template => m_devs'[NextAvaID] = Empty]_vars
=============================================================================
