---------------------------- MODULE DeviceStore ----------------------------
(***************************************************************************)
(* What the registry of devices promises: a map from numbers to devices    *)
(* that is filled from a directory when the process starts and written     *)
(* back, device by device, when it stops.  A crash loses what happened     *)
(* since the start, and at most one file with it.                          *)
(***************************************************************************)
EXTENDS Naturals

CONSTANTS Id,        \* numbers of devices
          Special,   \* the number of the device that is always there
          Content,   \* what a device can hold
          Empty,     \* the content of a device without objects
          Broken,    \* what a file holds that cannot be read
          Absent     \* no file

VARIABLES up,        \* the registry answers
          devs,      \* the devices
          disk,      \* the files
          torn,      \* the file being written, or Absent
          lost       \* devices whose file could not be opened

vars == <<up, devs, disk, torn, lost>>

Including(f, i, c) == [j \in DOMAIN f \cup {i} |-> IF j = i THEN c ELSE f[j]]
Without(f, i) == [j \in DOMAIN f \ {i} |-> f[j]]

Init ==
    /\ up = FALSE /\ devs = <<>> /\ torn = Absent /\ lost = {}
    /\ disk \in [Id -> Content \cup {Broken, Absent}]

\* Every file becomes a device.
Start ==
    /\ ~up /\ up' = TRUE
    /\ devs' = [i \in {j \in Id : disk[j] # Absent} |-> disk[i]]
    /\ Special \in DOMAIN devs' /\ \A i \in DOMAIN devs' : devs'[i] \in Content
    /\ UNCHANGED <<disk, torn, lost>>

\* Before a start: the special device gets a file.
Prepare ==
    /\ ~up /\ disk[Special] = Absent
    /\ disk' = [disk EXCEPT ![Special] = Empty]
    /\ UNCHANGED <<up, devs, torn, lost>>

\* A new device never takes the place of another one.  Without a template it is what a file with
\* its number holds, and it has a file.
Create(i, c, template) ==
    /\ up /\ i \in Id \ DOMAIN devs
    /\ template \/ c = (IF disk[i] = Absent THEN Empty ELSE disk[i])
    /\ devs' = Including(devs, i, c)
    /\ disk' = IF template THEN disk ELSE [disk EXCEPT ![i] = c]
    /\ UNCHANGED <<up, torn, lost>>

Change(i, c) ==
    /\ up /\ i \in DOMAIN devs
    /\ devs' = [devs EXCEPT ![i] = c]
    /\ UNCHANGED <<up, disk, torn, lost>>

\* The file of a removed device goes, or stays with what the device was or is.
Remove(i) ==
    /\ up /\ i \in DOMAIN devs
    /\ devs' = Without(devs, i)
    /\ \E c \in {Absent, disk[i], devs[i]} : disk' = [disk EXCEPT ![i] = c]
    /\ UNCHANGED <<up, torn, lost>>

Open(i) ==
    /\ up /\ torn = Absent /\ i \in DOMAIN devs
    /\ torn' = i /\ disk' = [disk EXCEPT ![i] = Empty]
    /\ UNCHANGED <<up, devs, lost>>

Written ==
    /\ torn # Absent
    /\ disk' = [disk EXCEPT ![torn] = devs[torn]] /\ torn' = Absent
    /\ UNCHANGED <<up, devs, lost>>

Refused(i) ==
    /\ up /\ torn = Absent /\ i \in DOMAIN devs
    /\ lost' = lost \cup {i}
    /\ UNCHANGED <<up, devs, disk, torn>>

\* Every device is in its file, but for those whose file could not be opened.
Stop ==
    /\ up /\ torn = Absent
    /\ \A i \in DOMAIN devs \ lost : disk[i] = devs[i]
    /\ up' = FALSE /\ devs' = <<>> /\ lost' = {}
    /\ UNCHANGED <<disk, torn>>

Crash ==
    /\ up' = FALSE /\ devs' = <<>> /\ torn' = Absent /\ lost' = {}
    /\ IF torn = Absent THEN disk' = disk
       ELSE \E c \in {Empty, Broken} : disk' = [disk EXCEPT ![torn] = c]

Next ==
    \/ Start \/ Prepare \/ Stop \/ Written \/ Crash
    \/ \E i \in Id, c \in Content, template \in BOOLEAN : Create(i, c, template)
    \/ \E i \in Id : Remove(i) \/ Open(i) \/ Refused(i)
    \/ \E i \in Id, c \in Content : Change(i, c)

Spec == Init /\ [][Next]_vars
=============================================================================
