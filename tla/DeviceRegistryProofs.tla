------------------------ MODULE DeviceRegistryProofs ------------------------
(***************************************************************************)
(* DRTypeOK, NoDeviceLost and OpenMeansRegistered hold in every reachable  *)
(* state of DeviceRegistry.  Two facts carry them: the first device of the *)
(* list stays BootDevice, whose open count never reaches zero, so that     *)
(* unregistering never loses the list (First); and a device is counted at  *)
(* least as often as it is held (Counted), so that one that is held is     *)
(* never unregistered.                                                     *)
(***************************************************************************)
EXTENDS DeviceRegistry, FiniteSetTheorems, TLAPS

(* The first device of the list and its handle.                            *)
First ==
  /\ DevListHead = BootDevice /\ BootDevice \in registered
  /\ BootHandle \in opened /\ hdl[BootHandle] = BootDevice

(* The semaphore is taken while a device is created or deleted, and that   *)
(* device is not on the list; one being created has no driver object yet,  *)
(* unless its driver refused to delete it before.                          *)
Held ==
  /\ devOp # NULL => osDeviceReqSem = 0 /\ devOp.dev \notin registered
  /\ devOp # NULL /\ devOp.op = "create" => drivers \subseteq registered \cup orphans
  /\ osDeviceReqSem = 0 => devOp # NULL

(* A balanced device is open at least as often as it is held; a handle     *)
(* that is open is not NULL.                                               *)
Counted == \A d \in Devices \ Unbalanced : Cardinality(Holders(d)) <= Cnt[d]
NotNull == \A v \in opened : hdl[v] # NULL

DRInv == DRTypeOK /\ First /\ Held /\ Counted /\ NotNull
                  /\ NoDeviceLost /\ OpenMeansRegistered

----------------------------------------------------------------------------
LEMMA HoldersFinite ==
  ASSUME DRTypeOK, NEW d
  PROVE  /\ IsFiniteSet(Holders(d)) /\ Holders(d) \subseteq Handles
         /\ Cardinality(Holders(d)) \in Nat
<1>1. Holders(d) \subseteq Handles BY DEF Holders, DRTypeOK
<1>2. IsFiniteSet(Holders(d)) BY <1>1, DeviceAssumption, FS_Subset
<1> QED BY <1>1, <1>2, FS_CardinalityType

(* A device that is held has a count above zero, and one with a count of   *)
(* zero is not held.                                                       *)
LEMMA HeldIsCounted ==
  ASSUME DRTypeOK, Counted, NEW d \in Devices \ Unbalanced, NEW v \in opened, hdl[v] = d
  PROVE  Cnt[d] > 0
<1>1. v \in Holders(d) BY DEF Holders
<1>2. Cardinality(Holders(d)) # 0 BY <1>1, HoldersFinite, FS_EmptySet
<1>3. Cardinality(Holders(d)) \in Nat BY HoldersFinite
<1>4. Cardinality(Holders(d)) <= Cnt[d] BY DEF Counted
<1>5. Cnt[d] \in Nat BY DEF DRTypeOK
<1> QED BY <1>2, <1>3, <1>4, <1>5

(* What a step does to the holders of d bounds what it may do to its       *)
(* count.                                                                  *)
LEMMA HoldersShrink ==
  ASSUME DRTypeOK, NEW d, NEW S, S \subseteq Holders(d)
  PROVE  /\ Cardinality(S) \in Nat /\ Cardinality(S) <= Cardinality(Holders(d))
BY HoldersFinite, FS_Subset, FS_CardinalityType

LEMMA HoldersGrow ==
  ASSUME DRTypeOK, NEW d, NEW v, NEW S, S \subseteq Holders(d) \cup {v}
  PROVE  /\ Cardinality(S) \in Nat /\ Cardinality(S) <= Cardinality(Holders(d)) + 1
<1>1. /\ IsFiniteSet(Holders(d) \cup {v})
      /\ Cardinality(Holders(d) \cup {v}) \in {Cardinality(Holders(d)), Cardinality(Holders(d)) + 1}
  BY HoldersFinite, FS_AddElement
<1>2. /\ IsFiniteSet(S) /\ Cardinality(S) <= Cardinality(Holders(d) \cup {v})
  BY <1>1, FS_Subset
<1>3. Cardinality(S) \in Nat BY <1>2, FS_CardinalityType
<1> QED BY <1>1, <1>2, <1>3, HoldersFinite

LEMMA HoldersLose ==
  ASSUME DRTypeOK, NEW d, NEW v \in Holders(d), NEW S, S \subseteq Holders(d) \ {v}
  PROVE  /\ Cardinality(S) \in Nat /\ Cardinality(S) <= Cardinality(Holders(d)) - 1
<1>1. /\ IsFiniteSet(Holders(d) \ {v})
      /\ Cardinality(Holders(d) \ {v}) = Cardinality(Holders(d)) - 1
  BY HoldersFinite, FS_RemoveElement
<1>2. IsFiniteSet(S) /\ Cardinality(S) <= Cardinality(Holders(d) \ {v})
  BY <1>1, FS_Subset
<1>3. Cardinality(S) \in Nat BY <1>2, FS_CardinalityType
<1> QED BY <1>1, <1>2, <1>3

----------------------------------------------------------------------------
LEMMA InitInv == ASSUME DRInit PROVE DRInv
<1> USE DeviceAssumption
<1>1. DRTypeOK BY DEF DRInit, DRTypeOK
<1>2. First /\ Held /\ NotNull /\ NoDeviceLost /\ OpenMeansRegistered
  BY DEF DRInit, First, Held, NotNull, NoDeviceLost, OpenMeansRegistered
<1>3. Counted
  <2> SUFFICES ASSUME NEW d \in Devices \ Unbalanced PROVE Cardinality(Holders(d)) <= Cnt[d]
    BY DEF Counted
  <2>1. CASE d = BootDevice
    <3>1. Holders(d) = {BootHandle} BY <2>1 DEF DRInit, Holders
    <3>2. Cnt[d] = 1 BY <2>1 DEF DRInit
    <3> QED BY <3>1, <3>2, FS_Singleton
  <2>2. CASE d # BootDevice
    <3>1. Holders(d) = {} BY <2>2 DEF DRInit, Holders
    <3>2. Cnt[d] = 0 BY <2>2 DEF DRInit
    <3> QED BY <3>1, <3>2, FS_EmptySet
  <2> QED BY <2>1, <2>2
<1> QED BY <1>1, <1>2, <1>3 DEF DRInv

(* The steps that leave the counts and the handles alone.                  *)
LEMMA ListKeepsInv ==
  ASSUME DRInv, NEW p \in Procs, NEW d \in Devices, NEW ok \in BOOLEAN,
         CreateBegin(p, d) \/ DeleteBegin(p, d) \/ DeleteEnd(p, ok)
  PROVE  DRInv'
<1> USE DeviceAssumption DEF DRInv
<1>0. UNCHANGED <<Cnt, hdl, opened>> BY DEF CreateBegin, DeleteBegin, DeleteEnd
<1>1. Counted' BY <1>0 DEF Counted, Holders
<1>2. NotNull' BY <1>0 DEF NotNull
<1>3. CASE CreateBegin(p, d)
  <2>1. [op |-> "create", who |-> p, dev |-> d] \in DevOp BY DEF DevOp
  <2>2. devOp' \in DevOp /\ devOp' # NULL /\ devOp'.dev = d BY <1>3, <2>1 DEF CreateBegin
  <2> QED BY <1>1, <1>2, <1>3, <2>1, <2>2
          DEF CreateBegin, DRTypeOK, First, Held, NoDeviceLost, OpenMeansRegistered
<1>4. CASE DeleteBegin(p, d)
  <2>1. d # BootDevice
    <3> SUFFICES ASSUME d = BootDevice PROVE FALSE OBVIOUS
    <3>1. Cnt[d] > 0 BY HeldIsCounted DEF First
    <3> QED BY <1>4, <3>1 DEF DeleteBegin
  <2>2. DevListHead' = BootDevice /\ registered' = registered \ {d}
    BY <1>4, <2>1 DEF DeleteBegin, RKDeviceUnRegister, First
  <2>3. devOp' \in DevOp /\ devOp'.dev = d /\ devOp' # NULL /\ osDeviceReqSem' = 0
    <3>1. [op |-> "delete", who |-> p, dev |-> d] \in DevOp BY DEF DevOp
    <3> QED BY <1>4, <3>1 DEF DeleteBegin
  <2>4. OpenMeansRegistered'
    <3> SUFFICES ASSUME NEW v \in opened, hdl[v] \notin Unbalanced PROVE hdl[v] \in registered \ {d}
      BY <1>0, <2>2 DEF OpenMeansRegistered
    <3>1. hdl[v] \in registered BY DEF OpenMeansRegistered
    <3>2. ASSUME hdl[v] = d PROVE FALSE
      <4>1. Cnt[d] > 0 BY <3>2, HeldIsCounted
      <4> QED BY <1>4, <4>1 DEF DeleteBegin
    <3> QED BY <3>1, <3>2
  <2>5. DRTypeOK' BY <1>4, <2>2, <2>3 DEF DeleteBegin, DRTypeOK
  <2>6. First' BY <1>0, <2>1, <2>2 DEF First
  <2>7. Held'
    <3>1. devOp'.op = "delete" BY <1>4 DEF DeleteBegin
    <3> QED BY <2>2, <2>3, <3>1 DEF Held
  <2>8. devOp = NULL BY <1>4 DEF DeleteBegin, Held
  <2>9. NoDeviceLost' BY <1>4, <2>2, <2>3, <2>8 DEF DeleteBegin, NoDeviceLost
  <2> QED BY <1>1, <1>2, <2>4, <2>5, <2>6, <2>7, <2>9
<1>5. CASE DeleteEnd(p, ok)
  <2>1. devOp.dev \in Devices BY <1>5 DEF DeleteEnd, DRTypeOK, DevOp
  <2>2. devOp' = NULL /\ osDeviceReqSem' = 1 /\ UNCHANGED <<DevListHead, registered>>
    BY <1>5 DEF DeleteEnd
  <2>3. DRTypeOK' BY <1>0, <1>5, <2>1, <2>2 DEF DeleteEnd, DRTypeOK
  <2>4. NoDeviceLost' BY <1>5, <2>2 DEF DeleteEnd, NoDeviceLost
  <2>5. First' /\ Held' /\ OpenMeansRegistered'
    BY <1>0, <2>2 DEF First, Held, OpenMeansRegistered
  <2> QED BY <1>1, <1>2, <2>3, <2>4, <2>5
<1> QED BY <1>3, <1>4, <1>5

(* RKDeviceRegister, which clears the count of a device nobody holds.      *)
LEMMA CreateKeepsInv ==
  ASSUME DRInv, NEW p \in Procs, NEW ok \in BOOLEAN, CreateEnd(p, ok)
  PROVE  DRInv'
<1> USE DeviceAssumption DEF DRInv
<1> DEFINE d == devOp.dev
<1>1. /\ devOp # NULL /\ d \in Devices /\ d \notin registered
      /\ devOp' = NULL /\ osDeviceReqSem' = 1 /\ UNCHANGED <<hdl, opened, orphans>>
  BY DEF CreateEnd, DRTypeOK, Held, DevOp
<1>2. CASE ~ok
  <2>1. UNCHANGED <<drivers, Cnt, DevListHead, registered>> BY <1>2 DEF CreateEnd
  <2>2. Counted' BY <1>1, <2>1 DEF Counted, Holders
  <2>3. drivers \subseteq registered \cup orphans BY DEF CreateEnd, Held
  <2> QED BY <1>1, <2>1, <2>2, <2>3 DEF DRTypeOK, First, Held, NotNull, NoDeviceLost, OpenMeansRegistered
<1>3. CASE ok
  <2>1. /\ drivers' = drivers \cup {d} /\ Cnt' = [Cnt EXCEPT ![d] = 0]
        /\ DevListHead' = BootDevice /\ registered' = registered \cup {d}
    BY <1>3, <1>1 DEF CreateEnd, First
  <2>2. Counted'
    <3> SUFFICES ASSUME NEW e \in Devices \ Unbalanced PROVE Cardinality(Holders(e)) <= Cnt'[e]
      BY <1>1 DEF Counted, Holders
    <3>1. CASE e # d BY <2>1, <3>1, <1>1 DEF Counted, DRTypeOK
    <3>2. CASE e = d
      <4>1. Holders(e) = {} BY <1>1, <3>2 DEF Holders, OpenMeansRegistered
      <4>2. Cnt'[e] = 0 BY <1>1, <2>1, <3>2 DEF DRTypeOK
      <4> QED BY <4>1, <4>2, FS_EmptySet
    <3> QED BY <3>1, <3>2
  <2>3. DRTypeOK' BY <1>1, <2>1 DEF DRTypeOK
  <2>4. NoDeviceLost' BY <1>1, <2>1 DEF NoDeviceLost
  <2> QED BY <1>1, <2>1, <2>2, <2>3, <2>4 DEF First, Held, NotNull, OpenMeansRegistered
<1> QED BY <1>2, <1>3

LEMMA OpenKeepsInv ==
  ASSUME DRInv, NEW d \in Devices, NEW v \in Handles \ {BootHandle}, DevOpen(d, v)
  PROVE  DRInv'
<1> USE DeviceAssumption DEF DRInv
<1>1. UNCHANGED <<DevListHead, registered, drivers, osDeviceReqSem, devOp, orphans>>
  BY DEF DevOpen
<1>2. Held' /\ NoDeviceLost' BY <1>1 DEF Held, NoDeviceLost
<1>3. CASE d \in registered
  <2>1. /\ Cnt' = [Cnt EXCEPT ![d] = Cnt[d] + 1] /\ hdl' = [hdl EXCEPT ![v] = d]
        /\ opened' = opened \cup {v}
    BY <1>3 DEF DevOpen
  <2>2. DRTypeOK' /\ First' /\ NotNull' /\ OpenMeansRegistered'
    BY <1>1, <1>3, <2>1 DEF DRTypeOK, First, NotNull, OpenMeansRegistered
  <2>3. Counted'
    <3> SUFFICES ASSUME NEW e \in Devices \ Unbalanced PROVE Cardinality(Holders(e)') <= Cnt'[e]
      BY DEF Counted
    <3>0. Cardinality(Holders(e)) <= Cnt[e] /\ Cardinality(Holders(e)) \in Nat /\ Cnt[e] \in Nat
      BY HoldersFinite DEF Counted, DRTypeOK
    <3>1. CASE e # d
      <4>1. Holders(e)' \subseteq Holders(e) BY <2>1, <3>1 DEF Holders, DRTypeOK
      <4>2. Cnt'[e] = Cnt[e] BY <2>1, <3>1 DEF DRTypeOK
      <4>3. /\ Cardinality(Holders(e)') \in Nat
            /\ Cardinality(Holders(e)') <= Cardinality(Holders(e))
        BY <4>1, HoldersShrink
      <4> QED BY <3>0, <4>2, <4>3
    <3>2. CASE e = d
      <4>1. Holders(e)' \subseteq Holders(e) \cup {v} BY <2>1 DEF Holders, DRTypeOK
      <4>2. Cnt'[e] = Cnt[e] + 1 BY <2>1, <3>2 DEF DRTypeOK
      <4>3. /\ Cardinality(Holders(e)') \in Nat
            /\ Cardinality(Holders(e)') <= Cardinality(Holders(e)) + 1
        BY <4>1, HoldersGrow
      <4> QED BY <3>0, <4>2, <4>3
    <3> QED BY <3>1, <3>2
  <2> QED BY <1>2, <2>2, <2>3
<1>4. CASE d \notin registered
  <2>1. Cnt' = Cnt /\ hdl' = [hdl EXCEPT ![v] = NULL] /\ opened' = opened \ {v}
    BY <1>4 DEF DevOpen
  <2>2. DRTypeOK' /\ First' /\ NotNull' /\ OpenMeansRegistered'
    BY <1>1, <2>1 DEF DRTypeOK, First, NotNull, OpenMeansRegistered
  <2>3. ASSUME NEW e PROVE Holders(e)' \subseteq Holders(e)
    BY <2>1 DEF Holders, DRTypeOK
  <2>4. Counted'
    <3> SUFFICES ASSUME NEW e \in Devices \ Unbalanced PROVE Cardinality(Holders(e)') <= Cnt[e]
      BY <2>1 DEF Counted
    <3>1. /\ Cardinality(Holders(e)') \in Nat
          /\ Cardinality(Holders(e)') <= Cardinality(Holders(e))
      BY <2>3, HoldersShrink
    <3>2. Cardinality(Holders(e)) <= Cnt[e] /\ Cardinality(Holders(e)) \in Nat /\ Cnt[e] \in Nat
      BY HoldersFinite DEF Counted, DRTypeOK
    <3> QED BY <3>1, <3>2
  <2> QED BY <1>2, <2>2, <2>4
<1> QED BY <1>3, <1>4

(* A close takes one from the count; v was a holder, unless the device is  *)
(* one that may be closed too often.                                       *)
LEMMA CloseKeepsInv ==
  ASSUME DRInv, NEW v \in Handles \ {BootHandle}, NEW clear \in BOOLEAN,
         v \in opened \/ hdl[v] \in Unbalanced, DevClose(v, clear)
  PROVE  DRInv'
<1> USE DeviceAssumption DEF DRInv
<1> DEFINE d == hdl[v]
<1>1. UNCHANGED <<DevListHead, registered, drivers, osDeviceReqSem, devOp, orphans>>
  BY DEF DevClose
<1>2. Held' /\ NoDeviceLost' BY <1>1 DEF Held, NoDeviceLost
<1>3. d \in Devices /\ Cnt[d] \in Nat BY DEF DevClose, DRTypeOK
<1>4. /\ Cnt' = [Cnt EXCEPT ![d] = IF Cnt[d] > 0 THEN Cnt[d] - 1 ELSE Cnt[d]]
      /\ hdl' = IF clear THEN [hdl EXCEPT ![v] = NULL] ELSE hdl
      /\ opened' = opened \ {v}
  BY DEF DevClose
<1>5. Cnt' \in [Devices -> Nat]
  <2>1. (IF Cnt[d] > 0 THEN Cnt[d] - 1 ELSE Cnt[d]) \in Nat BY <1>3
  <2> QED BY <1>4, <2>1 DEF DRTypeOK
<1>6. \A w \in Handles \ {v} : hdl'[w] = hdl[w]
  BY <1>4 DEF DRTypeOK
<1>7. hdl' \in [Handles -> Devices \cup {NULL}] BY <1>4 DEF DRTypeOK
<1>8. DRTypeOK' /\ First' /\ NotNull' /\ OpenMeansRegistered'
  BY <1>1, <1>4, <1>5, <1>6, <1>7 DEF DRTypeOK, First, NotNull, OpenMeansRegistered
<1>9. Counted'
  <2> SUFFICES ASSUME NEW e \in Devices \ Unbalanced PROVE Cardinality(Holders(e)') <= Cnt'[e]
    BY DEF Counted
  <2>0. Cardinality(Holders(e)) <= Cnt[e] /\ Cardinality(Holders(e)) \in Nat /\ Cnt[e] \in Nat
    BY HoldersFinite DEF Counted, DRTypeOK
  <2>1. Holders(e)' \subseteq Holders(e) \ {v}
    BY <1>4, <1>6 DEF Holders, DRTypeOK
  <2>2. CASE e # d
    <3>1. Cnt'[e] = Cnt[e] BY <1>4, <2>2 DEF DRTypeOK
    <3>2. /\ Cardinality(Holders(e)') \in Nat
          /\ Cardinality(Holders(e)') <= Cardinality(Holders(e))
      BY <2>1, HoldersShrink
    <3> QED BY <2>0, <3>1, <3>2
  <2>3. CASE e = d
    <3>1. v \in Holders(e) BY <2>3 DEF Holders
    <3>2. /\ Cardinality(Holders(e)') \in Nat
          /\ Cardinality(Holders(e)') <= Cardinality(Holders(e)) - 1
      BY <2>1, <3>1, HoldersLose
    <3>3. Cnt[e] > 0 BY <3>1, <2>3, HeldIsCounted DEF Holders
    <3>4. Cnt'[e] = Cnt[e] - 1 BY <1>3, <1>4, <2>3, <3>3 DEF DRTypeOK
    <3> QED BY <2>0, <3>2, <3>4
  <2> QED BY <2>2, <2>3
<1> QED BY <1>2, <1>8, <1>9

LEMMA CopyKeepsInv ==
  ASSUME DRInv, NEW v \in Handles \ {BootHandle}, NEW w \in Handles \ {BootHandle}, DevCopy(v, w)
  PROVE  DRInv'
<1> USE DeviceAssumption DEF DRInv
<1>1. /\ hdl' = [hdl EXCEPT ![w] = hdl[v]] /\ opened' = opened \ {w}
      /\ UNCHANGED <<DevListHead, registered, drivers, Cnt, osDeviceReqSem, devOp, orphans>>
  BY DEF DevCopy
<1>2. hdl[v] \in Devices \cup {NULL} BY DEF DRTypeOK
<1>3. /\ DRTypeOK' /\ First' /\ Held' /\ NotNull' /\ NoDeviceLost' /\ OpenMeansRegistered'
  BY <1>1, <1>2 DEF DRTypeOK, First, Held, NotNull, NoDeviceLost, OpenMeansRegistered
<1>4. Counted'
  <2> SUFFICES ASSUME NEW e \in Devices \ Unbalanced PROVE Cardinality(Holders(e)') <= Cnt[e]
    BY <1>1 DEF Counted
  <2>1. Holders(e)' \subseteq Holders(e) BY <1>1 DEF Holders, DRTypeOK
  <2>2. /\ Cardinality(Holders(e)') \in Nat
        /\ Cardinality(Holders(e)') <= Cardinality(Holders(e))
    BY <2>1, HoldersShrink
  <2>3. Cardinality(Holders(e)) <= Cnt[e] /\ Cardinality(Holders(e)) \in Nat /\ Cnt[e] \in Nat
    BY HoldersFinite DEF Counted, DRTypeOK
  <2> QED BY <2>2, <2>3
<1> QED BY <1>3, <1>4

----------------------------------------------------------------------------
LEMMA NextInv == ASSUME DRInv, [DRNext]_drVars PROVE DRInv'
<1>1. CASE UNCHANGED drVars
  <2>1. UNCHANGED <<DevListHead, registered, drivers, Cnt, osDeviceReqSem, devOp, hdl,
                    opened, orphans>>
    BY <1>1 DEF drVars
  <2> QED BY <2>1 DEF DRInv, DRTypeOK, First, Held, Counted, Holders, NotNull, NoDeviceLost,
                      OpenMeansRegistered
<1>2. ASSUME NEW d \in Devices, CreateRefused(d) \/ DeleteRefused(d) PROVE DRInv'
  BY <1>1, <1>2 DEF CreateRefused, DeleteRefused, NothingDone
<1>3. ASSUME NEW p \in Procs, NEW d \in Devices, CreateBegin(p, d) \/ DeleteBegin(p, d)
      PROVE DRInv'
  BY <1>3, ListKeepsInv
<1>4. ASSUME NEW p \in Procs, NEW ok \in BOOLEAN, CreateEnd(p, ok) PROVE DRInv'
  BY <1>4, CreateKeepsInv
<1>5. ASSUME NEW p \in Procs, NEW ok \in BOOLEAN, DeleteEnd(p, ok) PROVE DRInv'
  BY <1>5, ListKeepsInv, DeviceAssumption
<1>6. ASSUME NEW d \in Devices, NEW v \in Handles \ {BootHandle}, DevOpen(d, v) PROVE DRInv'
  BY <1>6, OpenKeepsInv
<1>7. ASSUME NEW v \in Handles \ {BootHandle}, NEW clear \in BOOLEAN,
             v \in opened \/ hdl[v] \in Unbalanced, DevClose(v, clear)
      PROVE DRInv'
  BY <1>7, CloseKeepsInv
<1>8. ASSUME NEW v \in Handles \ {BootHandle}, NEW w \in Handles \ {BootHandle}, DevCopy(v, w)
      PROVE DRInv'
  BY <1>8, CopyKeepsInv
<1> QED BY <1>1, <1>2, <1>3, <1>4, <1>5, <1>6, <1>7, <1>8 DEF DRNext

LEMMA RegistryInv == DRSpec => []DRInv
BY InitInv, NextInv, PTL DEF DRSpec

(* The registry's variables keep their types: an open count is never       *)
(* negative.                                                               *)
THEOREM RegistryTypes == DRSpec => []DRTypeOK
<1>1. DRInv => DRTypeOK BY DEF DRInv
<1> QED BY <1>1, RegistryInv, PTL

(* No device is lost, whatever is created, opened, closed and deleted, as  *)
(* long as the handle of the first device stays open.                      *)
THEOREM RegistryLosesNothing == DRSpec => []NoDeviceLost
<1>1. DRInv => NoDeviceLost BY DEF DRInv
<1> QED BY <1>1, RegistryInv, PTL

(* A handle that was opened and not closed is the handle of a registered   *)
(* device, as long as its clients close what they opened.                  *)
THEOREM RegistryKeepsOpen == DRSpec => []OpenMeansRegistered
<1>1. DRInv => OpenMeansRegistered BY DEF DRInv
<1> QED BY <1>1, RegistryInv, PTL
=============================================================================
