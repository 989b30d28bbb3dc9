--------------------------- MODULE DeviceRegistry ---------------------------
(***************************************************************************)
(* The device registry of OS/Plugin/device.c: a linked list of devices     *)
(* with open counts under one binary semaphore, osDeviceReqSem, that is    *)
(* also held while a driver's create or delete function runs.  Such a      *)
(* function may call the task service (SdioDev_Create does), hence the     *)
(* module it extends; the calls are made in Platform.                      *)
(*                                                                         *)
(* A device is its class and number.  The list is its head and the set of  *)
(* devices on it; its order does not matter.  A handle is kept in one of   *)
(* the variables of the program that hold one, and is the device.          *)
(***************************************************************************)
EXTENDS TaskManager

CONSTANTS
  Devices,
  BootDevice,   \* the first device created; its handle is never closed
  Handles,      \* the program's variables that hold a device handle
  BootHandle,   \* the variable that holds the handle of BootDevice
  Unbalanced    \* devices that some client closes more often than it opened

(* RKDev_Create or RKDev_Delete while the driver's function runs.          *)
DevOp == [op : {"create", "delete"}, who : Procs, dev : Devices]

ASSUME DeviceAssumption ==
  /\ NULL \notin Devices \cup DevOp
  /\ Unbalanced \subseteq Devices
  /\ BootDevice \in Devices \ Unbalanced
  /\ BootHandle \in Handles
  /\ IsFiniteSet(Handles)

VARIABLES
  DevListHead, registered,   \* the list: its first device and all of them
  drivers,                   \* devices whose driver object exists
  Cnt,                       \* per device: the open count
  osDeviceReqSem,            \* the binary semaphore
  devOp,                     \* the create or delete that holds it, or NULL
  hdl,                       \* per variable: the device, or NULL
  opened,                    \* history: variables opened and not closed since
  orphans                    \* history: devices whose driver refused to delete

drVars == <<DevListHead, registered, drivers, Cnt, osDeviceReqSem, devOp, hdl,
            opened, orphans>>

NothingDone == UNCHANGED drVars

----------------------------------------------------------------------------
(* MainTask or DeviceTask, whichever comes first, created the UART and     *)
(* opened it.                                                              *)
DRInit ==
  /\ DevListHead = BootDevice /\ registered = {BootDevice} /\ drivers = {BootDevice}
  /\ Cnt = [d \in Devices |-> IF d = BootDevice THEN 1 ELSE 0]
  /\ osDeviceReqSem = 1 /\ devOp = NULL
  /\ hdl = [v \in Handles |-> IF v = BootHandle THEN BootDevice ELSE NULL]
  /\ opened = {BootHandle}
  /\ orphans = {}

(* RKDev_Create: RKDeviceFind, then the driver's function, then            *)
(* RKDeviceRegister, all under the semaphore.                              *)
CreateRefused(d) == osDeviceReqSem = 1 /\ d \in registered /\ NothingDone

CreateBegin(p, d) ==
  /\ osDeviceReqSem = 1
  /\ d \notin registered
  /\ osDeviceReqSem' = 0
  /\ devOp' = [op |-> "create", who |-> p, dev |-> d]
  /\ UNCHANGED <<DevListHead, registered, drivers, Cnt, hdl, opened, orphans>>

\* Mutant of CreateEnd: a device is put on the list only if it is empty.
CreateEndUnlinked(p, ok) ==
  LET d == devOp.dev IN
  /\ devOp # NULL /\ devOp.op = "create" /\ devOp.who = p
  /\ osDeviceReqSem' = 1
  /\ devOp' = NULL
  /\ IF ok
     THEN /\ drivers' = drivers \cup {d}
          /\ Cnt' = [Cnt EXCEPT ![d] = 0]
          /\ DevListHead' = IF DevListHead = NULL THEN d ELSE DevListHead
          /\ registered' = IF DevListHead = NULL THEN {d} ELSE registered
     ELSE UNCHANGED <<drivers, Cnt, DevListHead, registered>>
  /\ UNCHANGED <<hdl, opened, orphans>>

CreateEnd(p, ok) ==
  LET d == devOp.dev IN
  /\ devOp # NULL /\ devOp.op = "create" /\ devOp.who = p
  /\ osDeviceReqSem' = 1
  /\ devOp' = NULL
  /\ IF ok
     THEN /\ drivers' = drivers \cup {d}
          /\ Cnt' = [Cnt EXCEPT ![d] = 0]
          /\ DevListHead' = IF DevListHead = NULL THEN d ELSE DevListHead
          /\ registered' = registered \cup {d}
     ELSE UNCHANGED <<drivers, Cnt, DevListHead, registered>>
  /\ UNCHANGED <<hdl, opened, orphans>>

(* RKDev_Open into variable v; NULL when the device is not there.          *)
DevOpen(d, v) ==
  /\ osDeviceReqSem = 1
  /\ IF d \in registered
     THEN /\ Cnt' = [Cnt EXCEPT ![d] = @ + 1]
          /\ hdl' = [hdl EXCEPT ![v] = d]
          /\ opened' = opened \cup {v}
     ELSE /\ hdl' = [hdl EXCEPT ![v] = NULL]
          /\ opened' = opened \ {v}
          /\ UNCHANGED Cnt
  /\ UNCHANGED <<DevListHead, registered, drivers, osDeviceReqSem, devOp, orphans>>

\* Mutant of DevClose: the count is not tested.
DevCloseUntested(v, clear) ==
  /\ osDeviceReqSem = 1
  /\ hdl[v] # NULL
  /\ Cnt' = [Cnt EXCEPT ![hdl[v]] = @ - 1]
  /\ hdl' = IF clear THEN [hdl EXCEPT ![v] = NULL] ELSE hdl
  /\ opened' = opened \ {v}
  /\ UNCHANGED <<DevListHead, registered, drivers, osDeviceReqSem, devOp, orphans>>

(* RKDev_Close(v), after which the caller clears v or goes on using it.    *)
DevClose(v, clear) ==
  /\ osDeviceReqSem = 1
  /\ hdl[v] # NULL
  /\ Cnt' = [Cnt EXCEPT ![hdl[v]] = IF @ > 0 THEN @ - 1 ELSE @]
  /\ hdl' = IF clear THEN [hdl EXCEPT ![v] = NULL] ELSE hdl
  /\ opened' = opened \ {v}
  /\ UNCHANGED <<DevListHead, registered, drivers, osDeviceReqSem, devOp, orphans>>

(* The handle in v is passed to another module, which keeps it in w.       *)
DevCopy(v, w) ==
  /\ hdl[v] # NULL
  /\ hdl' = [hdl EXCEPT ![w] = hdl[v]]
  /\ opened' = opened \ {w}
  /\ UNCHANGED <<DevListHead, registered, drivers, Cnt, osDeviceReqSem, devOp, orphans>>

(* RKDev_Delete: refused while the device is open; RKDeviceUnRegister      *)
(* comes before the driver's delete function, and sets the head to NULL    *)
(* when the device is the first of the list, which loses the others.       *)
DeleteRefused(d) ==
  osDeviceReqSem = 1 /\ (d \notin registered \/ Cnt[d] # 0) /\ NothingDone

\* Mutant of RKDeviceUnRegister: the list is cut after its first device.
RKDeviceUnRegisterCut(d) ==
  /\ DevListHead' = IF d = DevListHead THEN NULL ELSE DevListHead
  /\ registered' = IF d = DevListHead THEN {} ELSE {DevListHead}

RKDeviceUnRegister(d) ==
  /\ DevListHead' = IF d = DevListHead THEN NULL ELSE DevListHead
  /\ registered' = IF d = DevListHead THEN {} ELSE registered \ {d}

DeleteBegin(p, d) ==
  /\ osDeviceReqSem = 1
  /\ d \in registered /\ Cnt[d] = 0
  /\ osDeviceReqSem' = 0
  /\ devOp' = [op |-> "delete", who |-> p, dev |-> d]
  /\ RKDeviceUnRegister(d)
  /\ UNCHANGED <<drivers, Cnt, hdl, opened, orphans>>

DeleteEnd(p, ok) ==
  /\ devOp # NULL /\ devOp.op = "delete" /\ devOp.who = p
  /\ osDeviceReqSem' = 1
  /\ devOp' = NULL
  /\ IF ok THEN drivers' = drivers \ {devOp.dev} /\ UNCHANGED orphans
           ELSE orphans' = orphans \cup {devOp.dev} /\ UNCHANGED drivers
  /\ UNCHANGED <<DevListHead, registered, Cnt, hdl, opened>>

----------------------------------------------------------------------------
(* Any clients, as long as they leave the boot handle alone and close a    *)
(* handle they have, except those of the unbalanced devices.               *)
DRNext ==
  \/ \E d \in Devices : CreateRefused(d) \/ DeleteRefused(d)
  \/ \E p \in Procs, d \in Devices : CreateBegin(p, d) \/ DeleteBegin(p, d)
  \/ \E p \in Procs, ok \in BOOLEAN : CreateEnd(p, ok) \/ DeleteEnd(p, ok)
  \/ \E d \in Devices, v \in Handles \ {BootHandle} : DevOpen(d, v)
  \/ \E v \in Handles \ {BootHandle}, clear \in BOOLEAN :
       /\ v \in opened \/ hdl[v] \in Unbalanced
       /\ DevClose(v, clear)
  \/ \E v, w \in Handles \ {BootHandle} : DevCopy(v, w)

DRSpec == DRInit /\ [][DRNext]_drVars

----------------------------------------------------------------------------
DRTypeOK ==
  /\ DevListHead \in Devices \cup {NULL}
  /\ registered \subseteq Devices /\ drivers \subseteq Devices /\ orphans \subseteq Devices
  /\ Cnt \in [Devices -> Nat]
  /\ osDeviceReqSem \in {0, 1}
  /\ devOp \in DevOp \cup {NULL}
  /\ hdl \in [Handles -> Devices \cup {NULL}]
  /\ opened \subseteq Handles

Holders(d) == {v \in opened : hdl[v] = d}

(* No device is lost: one whose driver object exists can be found, unless  *)
(* it is being deleted or its driver refused to delete it.  It depends on  *)
(* the first device of the list, which RKDeviceUnRegister must never be    *)
(* called with.                                                            *)
NoDeviceLost ==
  drivers \subseteq registered \cup orphans
                    \cup (IF devOp = NULL THEN {} ELSE {devOp.dev})

(* A handle that was opened and not closed is the handle of a registered   *)
(* device, whoever deletes devices meanwhile.                              *)
OpenMeansRegistered ==
  \A v \in opened : hdl[v] \notin Unbalanced => hdl[v] \in registered
=============================================================================
