-------------------------- MODULE PlatformInvProofs --------------------------
(***************************************************************************)
(* IInv holds in every reachable state of Platform, for any number of      *)
(* commands and blocks, and with it what the programs of the tasks rely    *)
(* on.  First the steps that leave the task service alone, task by task,   *)
(* then those of the service: a request sent, taken, carried out, answered.*)
(* Elsewhere and RequestsMove say what a step of either kind must leave    *)
(* alone for the invariant to hold.                                        *)
(***************************************************************************)
EXTENDS PlatformProofs

----------------------------------------------------------------------------
(* Only the shell and the Wi-Fi task wait for the device manager.          *)
Wait(o) == IF o.op = "receiveList" THEN 1 ELSE 0

LEMMA WaitCount ==
  ASSUME NEW t, \A p \in Procs : t[p] \in Seq(OpsOf(p))
  PROVE  Cardinality({p \in Procs : t[p] # <<>> /\ Head(t[p]).op = "receiveList"})
           = Wait(First1(t["shell"])) + Wait(First1(t["wifi"]))
<1> DEFINE W == {p \in Procs : t[p] # <<>> /\ Head(t[p]).op = "receiveList"}
<1>1. Procs = {"device", "shell", "wifi", "wwd", "player", "http"} BY PlatformAssumption
<1>2. \A p \in Procs : t[p] # <<>> => Head(t[p]) \in OpsOf(p)
  <2> SUFFICES ASSUME NEW p \in Procs, t[p] # <<>> PROVE Head(t[p]) \in OpsOf(p)
    OBVIOUS
  <2>1. t[p] \in Seq(OpsOf(p)) OBVIOUS
  <2> QED BY <2>1, HeadTailProperties
<1>3. "device" \notin W
  BY <1>1, <1>2, Members, DeviceHas
<1>4. "player" \notin W /\ "http" \notin W /\ "wwd" \notin W
  BY <1>1, <1>2, Members, OthersHave
<1>5. W \subseteq {"shell", "wifi"} BY <1>1, <1>3, <1>4
<1>6. Nothing.op # "receiveList" BY DEF Nothing
<1>7. Wait(First1(t["shell"])) = (IF "shell" \in W THEN 1 ELSE 0)
  BY <1>1, <1>6 DEF Wait, First1
<1>8. Wait(First1(t["wifi"])) = (IF "wifi" \in W THEN 1 ELSE 0)
  BY <1>1, <1>6 DEF Wait, First1
<1> HIDE DEF W
<1>9. Cardinality(W) = (IF "shell" \in W THEN 1 ELSE 0) + (IF "wifi" \in W THEN 1 ELSE 0)
  <2>1. CASE W = {} BY <2>1, FS_EmptySet
  <2>0. /\ IsFiniteSet({"shell"}) /\ Cardinality({"shell"}) = 1
        /\ IsFiniteSet({"wifi"}) /\ Cardinality({"wifi"}) = 1
    BY FS_Singleton
  <2>2. CASE W = {"shell"} BY <2>0, <2>2
  <2>3. CASE W = {"wifi"} BY <2>0, <2>3
  <2>4. CASE W = {"shell"} \cup {"wifi"} BY <2>0, <2>4, FS_AddElement
  <2> QED BY <1>5, <2>1, <2>2, <2>3, <2>4
<1> QED BY <1>7, <1>8, <1>9 DEF W

(* Who waits and what is due, in a state and in the next one.              *)
Asked == IF DeviceAskQueue THEN 1 ELSE 0
Answered == IF DeviceRespQueue = NULL THEN 0 ELSE 1
Working == IF AtList(Doing("device")) THEN 1 ELSE 0
Waits == Wait(Doing("shell")) + Wait(Doing("wifi"))
Balance == Waits = Asked + Answered + Working

LEMMA BalanceIs == ASSUME Scripts, cause = {} PROVE ListsDue <=> Balance
<1>1. \A p \in Procs : todo[p] \in Seq(OpsOf(p)) BY DEF Scripts, Ordered
<1>2. Cardinality(WaitingForList) = Waits
  BY <1>1, WaitCount DEF WaitingForList, Waits, Doing, First1
<1> QED BY <1>2 DEF Scripts, ListsDue, Balance, Asked, Answered, Working

LEMMA BalanceNext == ASSUME Scripts', cause' = {} PROVE ListsDue' <=> Balance'
<1>1. \A p \in Procs : todo'[p] \in Seq(OpsOf(p)) BY DEF Scripts, Ordered
<1>2. Cardinality(WaitingForList') = Waits'
  BY <1>1, WaitCount DEF WaitingForList, Waits, Doing, First1
<1> QED BY <1>2 DEF Scripts, ListsDue, Balance, Asked, Answered, Working

(* The invariant and what the two services add to it.                      *)
Full == PfInv /\ CleanState /\ cause = {} /\ Scripts /\ RunInv

(* Whoever is not inside a call has no request under way; and a request    *)
(* that the scheduler works at is the only one of its caller.              *)
LEMMA Quiet ==
  ASSUME Matched, NEW p \in Procs, call[p].pc = "idle", NEW e, NEW b
  PROVE  ~Asks(e, b, p)
<1>1. p # NULL BY TaskAssumption
<1> QED BY <1>1 DEF Asks, AsksCall, AsksItem, Matched, MatchedItem

LEMMA OneRequest ==
  ASSUME Matched, NEW p \in Procs, schedItem # NULL, schedItem.who = p, NEW e, NEW b
  PROVE  /\ ~AsksCall(e, b, p) /\ ~AsksItem(TaskAskQueue, e, b, p)
         /\ Asks(e, b, p) => b = schedItem.TaskHandler /\ e = schedItem.RkTaskEvent
<1>1. p # NULL BY TaskAssumption
<1>2. call[p].pc = "wait" BY <1>1 DEF Matched, MatchedItem
<1>3. ~AsksItem(TaskAskQueue, e, b, p)
  BY <1>1 DEF Matched, NotSame, AsksItem
<1> QED BY <1>2, <1>3 DEF Asks, AsksCall, AsksItem

----------------------------------------------------------------------------
(* Steps that leave the task service alone.  The task that takes one is    *)
(* not inside a call, so no request depends on where it is.                *)
LEMMA SameService ==
  ASSUME UNCHANGED tmVars
  PROVE  /\ cause' = cause
         /\ \A e, b, q : Asks(e, b, q)' <=> Asks(e, b, q)
         /\ \A b, q, id : Creates(b, q, id)' <=> Creates(b, q, id)
         /\ \A id : RKTaskFind(id)' = RKTaskFind(id)
         /\ TaskClassID' = TaskClassID /\ call' = call
         /\ TaskListHead' = TaskListHead /\ listed' = listed
BY DEF tmVars, Asks, AsksCall, AsksItem, Creates, RKTaskFind

LEMMA SameRequests ==
  ASSUME Full, UNCHANGED tmVars, NEW p \in All, p \in Procs => call[p].pc = "idle",
         \A q \in All \ {p} : Doing(q)' = Doing(q)
  PROVE  RequestInv' /\ CallInv'
<1>0. CallInv BY DEF Full, RunInv
<1>1. CallInv'
  <2>1. UNCHANGED <<call, TaskClassID>> BY SameService
  <2>2. CASE p = "wifi" BY <1>0, <2>1, <2>2, Names DEF CallInv
  <2>3. CASE p # "wifi"
    <3>1. Doing("wifi")' = Doing("wifi") BY <2>3, Members
    <3> QED BY <1>0, <2>1, <3>1 DEF CallInv
  <2> QED BY <2>2, <2>3
<1>2. Matched /\ RequestInv BY DEF Full, CleanState, RunInv
<1>3. ASSUME NEW q \in Procs \cup {NULL}, NEW b \in Blocks, NEW e, Asks(e, b, q)
      PROVE  /\ q = "device" => Doing("device")' = Doing("device")
             /\ q = "shell" => Doing("shell")' = Doing("shell")
             /\ q = "wifi" => Doing("wifi")' = Doing("wifi")
  <2>1. q \in Procs => q # p BY <1>2, <1>3, Quiet
  <2> QED BY <2>1, Names, Members
<1>4. ASSUME NEW b \in Blocks, NEW q \in Procs \cup {NULL}, Asks("CREATE", b, q)'
      PROVE  CreateFits(q, TaskClassID[b])'
  <2>1. TaskClassID'[b] = TaskClassID[b] /\ Asks("CREATE", b, q) BY <1>4, SameService
  <2>2. CreateFits(q, TaskClassID[b]) BY <1>2, <2>1 DEF RequestInv
  <2> QED BY <1>3, <2>1, <2>2 DEF CreateFits
<1>5. ASSUME NEW b \in Blocks, NEW q \in Procs \cup {NULL}, Asks("DELETE", b, q)'
      PROVE  DeleteFits(q, TaskClassID[b])'
  <2>1. TaskClassID'[b] = TaskClassID[b] /\ Asks("DELETE", b, q) BY <1>5, SameService
  <2>2. DeleteFits(q, TaskClassID[b]) BY <1>2, <2>1 DEF RequestInv
  <2> QED BY <1>3, <2>1, <2>2 DEF DeleteFits
<1> QED BY <1>1, <1>4, <1>5 DEF RequestInv

(* What such a step must respect for each part of the invariant.           *)
LEMMA KeepWifi ==
  ASSUME WifiInv, UNCHANGED tmVars, Doing("wifi")' = Doing("wifi"),
         Stage(Doing("shell")') > 0 => Stage(Doing("shell")) > 0,
         Doing("shell")'.op \in {"taskCreate", "closeOver"} => Doing("shell")' = Doing("shell")
  PROVE  WifiInv'
<1>1. RKTaskFind("WIFI_APPLICATION")' = RKTaskFind("WIFI_APPLICATION") BY SameService
<1>2. \A b \in Blocks : Creates(b, "shell", "WIFI_APPLICATION")' => Creates(b, "shell", "WIFI_APPLICATION")
  BY SameService
<1>3. \A b : Asks("DELETE", b, "shell")' <=> Asks("DELETE", b, "shell") BY SameService
<1> QED BY <1>1, <1>2, <1>3 DEF WifiInv

LEMMA KeepWlan ==
  ASSUME WlanInv, UNCHANGED <<wlanUp, wlanInitialised, linkUp>>,
         Doing("wifi")' = Doing("wifi"), hdl'["hSdio"] = hdl["hSdio"],
         wlanInitialised => Stage(Doing("shell")') < 2,
         Stage(Doing("shell")) \in 2 .. 6 => Stage(Doing("shell")') \in 2 .. 6,
         Doing("shell").op = "awaitLink" \/ Stage(Doing("shell")) >= 2 =>
           \/ Doing("shell")'.op = "awaitLink" \/ Stage(Doing("shell")') >= 2
           \/ wlanInitialised \/ Doing("wifi").op = "dormant",
         Doing("shell")'.op = "answer" => Doing("shell")'.status = "RK_SUCCESS"
  PROVE  WlanInv'
BY DEF WlanInv

LEMMA KeepWlanShell ==
  ASSUME WlanInv, UNCHANGED <<wlanUp, wlanInitialised, linkUp>>,
         Doing("shell")' = Doing("shell"), Doing("wifi")' = Doing("wifi"),
         hdl'["hSdio"] = hdl["hSdio"]
  PROVE  WlanInv'
BY DEF WlanInv

LEMMA KeepBoot ==
  ASSUME BootInv, UNCHANGED tmVars,
         Booting(Doing("device")') => Booting(Doing("device")),
         Doing("shell").op = "dormant" => Doing("shell")'.op = "dormant"
  PROVE  BootInv'
<1>1. \A b \in Blocks : Creates(b, "device", "SHELL")' => Creates(b, "device", "SHELL")
  BY SameService
<1>2. TaskListHead' = TaskListHead /\ listed' = listed /\ TaskClassID' = TaskClassID
  BY SameService
<1> QED BY <1>1, <1>2 DEF BootInv

LEMMA KeepDevOp ==
  ASSUME DevOpInv, devOp' = devOp,
         \A d : Creating(Doing("device")', d) <=> Creating(Doing("device"), d),
         \A d : Removing(Doing("shell")', d) <=> Removing(Doing("shell"), d)
  PROVE  DevOpInv'
BY DEF DevOpInv

LEMMA KeepIrq ==
  ASSUME IrqInv, UNCHANGED tmVars,
         "SDIO" \in registered => "SDIO" \in registered',
         "SDIO" \notin registered' /\ RKTaskFind("SDIO_IRQ_TASK") # {} =>
           /\ Creating(Doing("device"), "SDIO") => Creating(Doing("device")', "SDIO")
           /\ Removing(Doing("shell"), "SDIO") => Removing(Doing("shell")', "SDIO"),
         \/ Doing("device")'.op = "taskCreate" /\ Doing("device")'.id = "SDIO_IRQ_TASK"
         \/ Doing("device")'.op = "created" /\ Doing("device")'.dev = "SDIO"
            /\ ~Doing("device")'.ok
         => RKTaskFind("SDIO_IRQ_TASK") = {},
         Doing("shell")'.op = "deleted" /\ Doing("shell")'.dev = "SDIO" =>
           Doing("shell")' = Doing("shell")
  PROVE  IrqInv'
<1>1. RKTaskFind("SDIO_IRQ_TASK")' = RKTaskFind("SDIO_IRQ_TASK") BY SameService
<1>2. \A b \in Blocks : Creates(b, "device", "SDIO_IRQ_TASK")' => Creates(b, "device", "SDIO_IRQ_TASK")
  BY SameService
<1>3. \A b : Asks("DELETE", b, "shell")' <=> Asks("DELETE", b, "shell") BY SameService
<1> QED BY <1>1, <1>2, <1>3 DEF IrqInv

\* At stage n the invariant asks no more of the card than at stage m; or nothing.
NoMore(m, n) ==
  /\ n \in 2 .. 3 => m \in 2 .. 3
  /\ n \in 2 .. 5 => m \in 2 .. 5
  /\ n >= 3 => m >= 3
  /\ n \in 4 .. 7 => m \in 4 .. 7
  /\ n \in 5 .. 7 => m \in 5 .. 7
  /\ n \in 6 .. 7 => m \in 6 .. 7
NoCard(n) == n \notin 2 .. 3 /\ n \notin 2 .. 5 /\ ~(n >= 3) /\ n \notin 4 .. 7
             /\ n \notin 5 .. 7 /\ n \notin 6 .. 7

LEMMA KeepCard ==
  ASSUME CardInv, Cnt'["SDIO"] = Cnt["SDIO"], Cnt'["SDC"] = Cnt["SDC"],
         hdl'["hSdio"] = hdl["hSdio"], hdl'["hSdc"] = hdl["hSdc"],
         "SDIO" \in registered' <=> "SDIO" \in registered,
         "SDC" \in registered' <=> "SDC" \in registered,
         \/ Stage(Doing("shell")') \in {0, Stage(Doing("shell"))}
         \/ NoMore(Stage(Doing("shell")), Stage(Doing("shell")')),
         Creating(Doing("device")', "SDC") \/ (Doing("device")'.op = "open" /\ Doing("device")'.var = "hSdc")
           => hdl["hSdc"] = NULL,
         AtCard(Doing("device")') => hdl["hSdc"] # NULL
  PROVE  CardInv'
<1> DEFINE s == Stage(Doing("shell"))
<1>1. Stage(Doing("shell"))' = Stage(Doing("shell")') OBVIOUS
<1>2. NoMore(s, Stage(Doing("shell")')) BY DEF NoMore
<1> HIDE DEF s
<1> QED BY <1>1, <1>2 DEF CardInv, NoMore, s

(* The parts together.                                                     *)
LEMMA RunFrom ==
  ASSUME Full, UNCHANGED tmVars, Scripts', NEW p \in All, p \in Procs => call[p].pc = "idle",
         \A q \in All \ {p} : Doing(q)' = Doing(q),
         WifiInv', WlanInv', BootInv', DevOpInv', IrqInv', CardInv', Balance'
  PROVE  cause' = {} /\ RunInv'
<1>1. cause' = {} BY SameService DEF Full
<1>2. RequestInv' /\ CallInv' BY SameRequests
<1>3. ListsDue' BY <1>1, BalanceNext
<1> QED BY <1>1, <1>2, <1>3 DEF RunInv

LEMMA FullHas ==
  ASSUME Full
  PROVE  /\ WifiInv /\ WlanInv /\ BootInv /\ DevOpInv /\ IrqInv /\ CardInv /\ RequestInv /\ CallInv
         /\ Balance /\ Matched /\ Owned /\ Agree /\ Apart /\ ~broken /\ PfInv /\ Scripts
         /\ cause = {}
BY BalanceIs DEF Full, RunInv, CleanState

(* The player, the HTTP and the WWD task, and the scheduler.               *)
LEMMA Elsewhere ==
  ASSUME Full, UNCHANGED tmVars, Scripts', NEW p \in All \ Scripted,
         p \in Procs => call[p].pc = "idle",
         \A q \in All \ {p} : Doing(q)' = Doing(q),
         UNCHANGED <<registered, devOp, DeviceAskQueue, DeviceRespQueue>>,
         UNCHANGED <<wlanUp, wlanInitialised, linkUp>>,
         Cnt'["SDIO"] = Cnt["SDIO"], Cnt'["SDC"] = Cnt["SDC"],
         hdl'["hSdio"] = hdl["hSdio"], hdl'["hSdc"] = hdl["hSdc"]
  PROVE  cause' = {} /\ RunInv'
<1>1. /\ Doing("device")' = Doing("device") /\ Doing("shell")' = Doing("shell")
      /\ Doing("wifi")' = Doing("wifi")
  BY Members DEF Scripted
<1>2. WifiInv' /\ WlanInv' BY <1>1, FullHas, KeepWifi, KeepWlanShell
<1>3. BootInv' BY <1>1, FullHas, KeepBoot
<1>4. DevOpInv' BY <1>1, FullHas, KeepDevOp
<1>5. IrqInv' BY <1>1, FullHas, KeepIrq DEF IrqInv
<1>6. CardInv' BY <1>1, FullHas, KeepCard DEF CardInv
<1>7. Balance'
  BY <1>1, FullHas DEF Balance, Waits, Asked, Answered, Working
<1> QED BY <1>2, <1>3, <1>4, <1>5, <1>6, <1>7, RunFrom

(* Opening and closing a variable for another device than the card's.      *)
OtherVars == {"hDma", "hFileList", "hFifo", "PAudio", "hFifoA", "hFileA", "hAudioA", "hBcoreA",
              "hFifoS"}
CardSame ==
  /\ UNCHANGED <<registered, devOp>>
  /\ Cnt'["SDIO"] = Cnt["SDIO"] /\ Cnt'["SDC"] = Cnt["SDC"]
  /\ hdl'["hSdio"] = hdl["hSdio"] /\ hdl'["hSdc"] = hdl["hSdc"]

LEMMA OpenOther ==
  ASSUME DRTypeOK, NEW v \in OtherVars, DevOpen(DeviceOf(v), v)
  PROVE  CardSame
<1>1. v \in Handles /\ v # "hSdio" /\ v # "hSdc" /\ DeviceOf(v) \notin {"SDC", "SDIO"}
      /\ "SDC" \in Devices /\ "SDIO" \in Devices /\ "hSdio" \in Handles /\ "hSdc" \in Handles
  BY PlatformAssumption DEF OtherVars, DeviceOf
<1> HIDE DEF OtherVars
<1> QED BY <1>1 DEF DevOpen, DRTypeOK, CardSame

LEMMA CloseOther ==
  ASSUME DRTypeOK, HandlesOK, NEW v \in OtherVars, NEW c \in BOOLEAN,
         \/ DevClose(v, c)
         \/ UNCHANGED drVars
  PROVE  CardSame
<1>1. v \in Handles /\ v # "hSdio" /\ v # "hSdc" /\ DeviceOf(v) \notin {"SDC", "SDIO"}
      /\ "SDC" \in Devices /\ "SDIO" \in Devices /\ "hSdio" \in Handles /\ "hSdc" \in Handles
  BY PlatformAssumption DEF OtherVars, DeviceOf
<1>2. CASE DevClose(v, c)
  <2>1. hdl[v] = DeviceOf(v) BY <1>1, <1>2 DEF DevClose, HandlesOK
  <2> QED BY <1>1, <1>2, <2>1 DEF DevClose, DRTypeOK, CardSame
<1>3. CASE UNCHANGED drVars BY <1>3 DEF drVars, CardSame
<1> QED BY <1>2, <1>3

LEMMA SafeCopy ==
  ASSUME DRTypeOK, DevCopy("hFifoA", "hFifoS")
  PROVE  CardSame
BY PlatformAssumption DEF DevCopy, DRTypeOK, CardSame

----------------------------------------------------------------------------
(* The device manager.                                                     *)
LEMMA StageRange == \A o : Stage(o) \in 0 .. 8
BY DEF Stage

LEMMA NoStage ==
  ASSUME NEW o, o.op \in {"receiveList", "askList", "awaitLink", "dormant", "nothing", "taskCreate"}
  PROVE  Stage(o) = 0
BY DEF Stage

\* While it works at the list somebody waits, who is not deleting the card.
LEMMA AtWork ==
  ASSUME Full, AtList(Doing("device"))
  PROVE  Stage(Doing("shell")) = 0 /\ ~(Stage(Doing("shell")) > 0)
<1>1. Balance /\ WifiInv BY FullHas
<1>2. Waits = Asked + Answered + 1 BY <1>1 DEF Balance, Working
<1>3. Asked \in {0, 1} /\ Answered \in {0, 1} BY DEF Asked, Answered
<1>4. Wait(Doing("shell")) \in {0, 1} /\ Wait(Doing("wifi")) \in {0, 1} BY DEF Wait
<1>5. Wait(Doing("shell")) = 1 \/ Wait(Doing("wifi")) = 1 BY <1>2, <1>3, <1>4 DEF Waits
<1>6. CASE Doing("shell").op = "receiveList" BY <1>6, NoStage, StageRange
<1>7. CASE Doing("wifi").op = "receiveList"
  <2>1. ~(Stage(Doing("shell")) > 0) BY <1>1, <1>7 DEF WifiInv
  <2> QED BY <2>1, StageRange
<1> QED BY <1>5, <1>6, <1>7 DEF Wait

LEMMA NoDevOp ==
  ASSUME Full, osDeviceReqSem = 1
  PROVE  /\ devOp = NULL /\ \A d \in Devices : ~Creating(Doing("device"), d)
         /\ \A d \in Devices : ~Removing(Doing("shell"), d)
<1>1. devOp = NULL BY FullHas DEF PfInv, DRInv, Held
<1>2. \A d \in Devices : Creating(Doing("device"), d) => devOp \in DevOp
  BY FullHas, Names DEF DevOpInv, DevOp
<1>3. \A d \in Devices : Removing(Doing("shell"), d) => devOp \in DevOp
  BY FullHas, Names DEF DevOpInv, DevOp
<1> QED BY <1>1, <1>2, <1>3, DeviceAssumption

LEMMA NotBoth ==
  ASSUME Full, NEW d \in Devices, NEW e \in Devices
  PROVE  ~(Creating(Doing("device"), d) /\ Removing(Doing("shell"), e))
BY FullHas DEF DevOpInv

LEMMA CardDevices == /\ "SDC" \in Devices \ Unbalanced /\ "SDIO" \in Devices \ Unbalanced
                     /\ BootDevice # "SDC" /\ BootDevice # "SDIO"
                     /\ "hSdc" \in Handles /\ "hSdio" \in Handles
                     /\ DeviceOf("hSdc") = "SDC" /\ DeviceOf("hSdio") = "SDIO"
BY PlatformAssumption DEF DeviceOf

\* A device of the card that is in its variable is registered.
LEMMA HeldRegistered ==
  ASSUME PfInv
  PROVE  /\ hdl["hSdc"] # NULL => "SDC" \in registered /\ hdl["hSdc"] = "SDC"
         /\ hdl["hSdio"] # NULL => "SDIO" \in registered /\ hdl["hSdio"] = "SDIO"
BY CardDevices DEF PfInv, HandlesOK, DRInv, OpenMeansRegistered

\* What the device manager leaves alone unless it ends a creation or opens hSdc.
LEMMA DeviceMoves ==
  ASSUME Full, UNCHANGED tmVars, Scripts', call["device"].pc = "idle",
         \A q \in All \ {"device"} : Doing(q)' = Doing(q),
         UNCHANGED <<wlanUp, wlanInitialised, linkUp>>, hdl'["hSdio"] = hdl["hSdio"],
         Booting(Doing("device")') => Booting(Doing("device")),
         DevOpInv', IrqInv', CardInv', Balance'
  PROVE  cause' = {} /\ RunInv'
<1>1. Doing("shell")' = Doing("shell") /\ Doing("wifi")' = Doing("wifi") /\ "device" \in All
  BY Members
<1>2. WifiInv' /\ WlanInv' BY <1>1, FullHas, KeepWifi, KeepWlanShell
<1>3. BootInv' BY <1>1, FullHas, KeepBoot
<1> QED BY <1>1, <1>2, <1>3, RunFrom

LEMMA BalanceAlone ==
  ASSUME Full, UNCHANGED <<DeviceAskQueue, DeviceRespQueue>>,
         Doing("shell")' = Doing("shell"), Doing("wifi")' = Doing("wifi"),
         AtList(Doing("device")') <=> AtList(Doing("device"))
  PROVE  Balance'
BY FullHas DEF Balance, Waits, Asked, Answered, Working

LEMMA IdleAt == ASSUME NEW p \in Procs, Ready(p) PROVE call[p].pc = "idle" /\ p \in All
BY PlatformAssumption DEF Ready, Sched, All

LEMMA AnswerIs ==
  ASSUME NEW s
  PROVE  LET n == Answer(s) IN
         /\ n.op = "answer" /\ AtList(n) /\ ~Booting(n) /\ Stage(n) = 6
         /\ ~AtCard(n) /\ \A d : ~Creating(n, d) /\ ~Removing(n, d)
BY DEF Answer, AtList, Booting, Creating, AtCard, Removing, Stage

LEMMA CreatesIs ==
  /\ \A d : LET n == Created(d, TRUE) IN
       /\ n.op = "created" /\ n.dev = d /\ n.ok = TRUE
       /\ AtList(n) <=> d \in {"SDC", "SDIO", "FIFO"}
       /\ Booting(n) => d \in {"DMA", "FILE", "AUDIO", "BCORE"}
       /\ \A e : Creating(n, e) <=> e = d
  /\ \A d : LET n == Created(d, FALSE) IN
       /\ n.op = "created" /\ n.dev = d /\ n.ok = FALSE
       /\ AtList(n) <=> d \in {"SDC", "SDIO", "FIFO"}
       /\ Booting(n) => d \in {"DMA", "FILE", "AUDIO", "BCORE"}
       /\ \A e : Creating(n, e) <=> e = d
  /\ LET n == TaskCreate("SDIO_IRQ_TASK") IN
       /\ n.op = "taskCreate" /\ n.id = "SDIO_IRQ_TASK" /\ AtList(n) /\ ~Booting(n)
       /\ \A e : Creating(n, e) <=> e = "SDIO"
BY DEF Created, TaskCreate, AtList, Booting, Creating

LEMMA AtCardIs ==
  ASSUME NEW o
  PROVE  /\ Creating(o, "SDIO") => AtCard(o)
         /\ AtCard(o) <=> (o.op = "create" /\ o.dev = "SDIO") \/ Creating(o, "SDIO")
BY DEF AtCard

LEMMA CreateIs ==
  ASSUME NEW o, o.op = "create"
  PROVE  /\ AtList(o) <=> o.dev \in {"SDC", "SDIO", "FIFO"}
         /\ Booting(o) <=> o.dev \in {"DMA", "FILE", "AUDIO", "BCORE"}
         /\ \A d : ~Creating(o, d)
BY DEF AtList, Booting, Creating

LEMMA CreateRun ==
  ASSUME Full, NEW p \in Procs, CallCreate(p)
  PROVE  cause' = {} /\ RunInv'
<1> DEFINE o == Doing("device")  n == Doing("device")'  d == Now(p).dev
<1>0. PfInv /\ Scripts /\ TodoOK BY FullHas DEF PfInv
<1>1. /\ p = "device" /\ Scripts' /\ o.op = "create" /\ o.dev = d
      /\ \A q \in All \ {"device"} : Doing(q)' = Doing(q)
  BY <1>0, CreateScripts
<1>2. UNCHANGED tmVars /\ OthersAlone /\ call["device"].pc = "idle"
  BY <1>1, IdleAt DEF CallCreate, At
<1>3. /\ Doing("shell")' = Doing("shell") /\ Doing("wifi")' = Doing("wifi")
      /\ UNCHANGED <<DeviceAskQueue, DeviceRespQueue>>
      /\ UNCHANGED <<wlanUp, wlanInitialised, linkUp>>
  BY <1>1, <1>2, Members DEF OthersAlone, wlVars
<1>4. CASE CreateRefused(d) /\ Err(p)
  <2>1. AtList(o) /\ n = Answer("RK_ERROR")
    BY <1>0, <1>1, <1>4, ErrScripts, ErrOrdered DEF Scripts
  <2>2. /\ UNCHANGED <<registered, devOp, Cnt, hdl>>
        /\ n.op = "answer" /\ AtList(n) /\ ~Booting(n) /\ ~AtCard(n) /\ \A e : ~Creating(n, e)
    BY <1>4, <2>1, AnswerIs DEF CreateRefused, NothingDone, drVars
  <2>3. \A e : ~Creating(o, e) BY <1>1, CreateIs
  <2> HIDE DEF o, n, d
  <2>4. DevOpInv' BY <1>3, <2>2, <2>3, FullHas, KeepDevOp DEF o, n
  <2>5. IrqInv' BY <1>2, <1>3, <2>2, <2>3, FullHas, KeepIrq DEF o, n
  <2>6. CardInv' BY <1>3, <2>2, <2>3, FullHas, KeepCard DEF o, n
  <2>7. Balance' BY <1>3, <2>1, <2>2, BalanceAlone DEF o, n
  <2> QED BY <1>1, <1>2, <1>3, <2>2, <2>4, <2>5, <2>6, <2>7, DeviceMoves DEF n
<1>5. CASE CreateBegin(p, d)
  <2>1. /\ osDeviceReqSem = 1 /\ d \notin registered
        /\ devOp' = [op |-> "create", who |-> "device", dev |-> d]
        /\ UNCHANGED <<registered, Cnt, hdl>>
    BY <1>1, <1>5 DEF CreateBegin
  <2>2. /\ devOp = NULL /\ \A e \in Devices : ~Creating(o, e)
        /\ \A e \in Devices : ~Removing(Doing("shell"), e)
    BY <2>1, NoDevOp
  <2>3. \/ d # "SDIO" /\ n = Created(d, TRUE)
        \/ d = "SDIO" /\ n = TaskCreate("SDIO_IRQ_TASK")
        \/ d = "SDIO" /\ n = Created(d, FALSE)
    <3>1. ~CreateRefused(d) BY <2>1 DEF CreateRefused
    <3> QED BY <1>0, <1>1, <3>1, CreateScripts
  <2> HIDE DEF o, n, d
  <2>4. /\ AtList(n) <=> AtList(o)
        /\ Booting(n) => Booting(o)
        /\ \A e : Creating(n, e) <=> e = d
        /\ \/ n.op = "taskCreate" /\ n.id = "SDIO_IRQ_TASK" /\ d = "SDIO"
           \/ n.op = "created" /\ n.dev = d
    <3>0. /\ AtList(o) <=> d \in {"SDC", "SDIO", "FIFO"}
          /\ Booting(o) <=> d \in {"DMA", "FILE", "AUDIO", "BCORE"}
      BY <1>1, CreateIs
    <3>1. CASE n = Created(d, TRUE) BY <3>0, <3>1, CreatesIs
    <3>2. CASE n = Created(d, FALSE) BY <3>0, <3>2, CreatesIs
    <3>3. CASE d = "SDIO" /\ n = TaskCreate("SDIO_IRQ_TASK") BY <3>0, <3>3, CreatesIs
    <3> QED BY <2>3, <3>1, <3>2, <3>3
  <2>5. DevOpInv'
    <3>1. \A e : Removing(Doing("shell")', e) <=> Removing(Doing("shell"), e) BY <1>3
    <3> QED BY <2>1, <2>2, <2>4, <3>1 DEF DevOpInv, n
  <2>6. IrqInv'
    <3>1. d = "SDIO" => RKTaskFind("SDIO_IRQ_TASK") = {}
      BY <2>1, <2>2, FullHas, CardDevices DEF IrqInv, o
    <3> QED BY <1>2, <1>3, <2>1, <2>2, <2>4, <3>1, FullHas, KeepIrq, CardDevices DEF n, o
  <2>7. CardInv'
    <3>1. d = "SDC" => hdl["hSdc"] = NULL BY <1>0, <2>1, HeldRegistered
    <3>2. AtCard(n) => hdl["hSdc"] # NULL
      <4>1. n.op # "create" BY <2>4
      <4>2. AtCard(n) => AtCard(o) BY <1>1, <2>4, <4>1, AtCardIs
      <4> QED BY <4>2, FullHas DEF CardInv, o
    <3>3. Creating(n, "SDC") \/ (n.op = "open" /\ n.var = "hSdc") => hdl["hSdc"] = NULL
      BY <2>4, <3>1
    <3> QED BY <1>3, <2>1, <3>2, <3>3, FullHas, KeepCard DEF n
  <2>8. Balance' BY <1>3, <2>4, BalanceAlone DEF o, n
  <2> QED BY <1>1, <1>2, <1>3, <2>1, <2>4, <2>5, <2>6, <2>7, <2>8, DeviceMoves DEF n, o
<1> QED BY <1>4, <1>5 DEF CallCreate

LEMMA CreatedIs ==
  ASSUME NEW o, NEW d, NEW ok \in BOOLEAN, o = Created(d, ok)
  PROVE  /\ AtList(o) <=> d \in {"SDC", "SDIO", "FIFO"}
         /\ \A e : Creating(o, e) <=> e = d
<1>1. CASE ok = TRUE BY <1>1, CreatesIs
<1>2. CASE ok = FALSE BY <1>2, CreatesIs
<1> QED BY <1>1, <1>2

LEMMA CreatedRun ==
  ASSUME Full, NEW p \in Procs, CallCreated(p)
  PROVE  cause' = {} /\ RunInv'
<1> DEFINE o == Doing("device")  n == Doing("device")'  d == Doing("device").dev
           ok == Doing("device").ok
<1>0. PfInv /\ Scripts /\ TodoOK BY FullHas DEF PfInv
<1>1. /\ p = "device" /\ Scripts' /\ o.op = "created" /\ o \in DeviceOps /\ Now(p) = o
      /\ CreateEnd("device", ok)
      /\ n = IF ok THEN FollowDevice(o) ELSE Answer("RK_ERROR")
      /\ \A q \in All \ {"device"} : Doing(q)' = Doing(q)
  BY <1>0, CreatedScripts
<1>2. UNCHANGED tmVars /\ OthersAlone /\ call["device"].pc = "idle"
  BY <1>1, IdleAt DEF CallCreated, At
<1>3. /\ Doing("shell")' = Doing("shell") /\ Doing("wifi")' = Doing("wifi")
      /\ UNCHANGED <<DeviceAskQueue, DeviceRespQueue>>
      /\ UNCHANGED <<wlanUp, wlanInitialised, linkUp>>
  BY <1>1, <1>2, Members DEF OthersAlone, wlVars
<1>4. /\ d \in {"DMA", "FILE", "AUDIO", "BCORE", "SDC", "SDIO", "FIFO"} /\ d \in Devices
      /\ ok \in BOOLEAN /\ o = Created(d, ok)
  BY <1>1, DeviceHas, PlatformAssumption
<1>5. /\ AtList(o) <=> d \in {"SDC", "SDIO", "FIFO"}
      /\ \A e : Creating(o, e) <=> e = d
  <2> HIDE DEF o, d, ok
  <2> QED BY <1>4, CreatedIs
<1>6. devOp = [op |-> "create", who |-> "device", dev |-> d] BY <1>4, <1>5, FullHas DEF DevOpInv
<1>7. \A e \in Devices : ~Removing(Doing("shell"), e) BY <1>4, <1>5, NotBoth
<1>8. /\ AtList(n) <=> AtList(o)
      /\ Booting(n) => Booting(o)
      /\ \A e : ~Creating(n, e)
      /\ n.op = "open" /\ n.var = "hSdc" => d = "SDC"
      /\ n.op # "created" /\ ~(n.op = "taskCreate" /\ n.id = "SDIO_IRQ_TASK")
      /\ ~AtCard(n)
  <2>1. CASE ok
    <3>1. n = FollowDevice(o) BY <1>1, <2>1
    <3> HIDE DEF n, o, d, ok
    <3>2. \A e : ~Creating(n, e) BY <1>1, <3>1, DeviceFollows
    <3>3. n.op # "created" BY <3>2 DEF Creating
    <3>0. o \in DeviceOps /\ o.op # "answer" BY <1>1
    <3>4. AtList(n) <=> AtList(o)
      <4>1. AtList(FollowDevice(o)) <=> AtList(o) BY <3>0, DeviceFollows
      <4> QED BY <3>1, <4>1
    <3>5. Booting(n) => Booting(o)
      <4>1. Booting(FollowDevice(o)) => Booting(o) BY <3>0, DeviceFollows
      <4> QED BY <3>1, <4>1
    <3>6. n.op = "open" /\ n.var = "hSdc" => d = "SDC" BY <1>1, <3>1, DeviceFollows DEF d, o
    <3>7. ~(n.op = "taskCreate" /\ n.id = "SDIO_IRQ_TASK") BY <1>1, <3>1, DeviceFollows
    <3>8. ~(n.op = "create" /\ n.dev = "SDIO")
      <4>1. o.op = "created" /\ o.dev \in {"DMA", "FILE", "AUDIO", "BCORE", "SDC", "SDIO", "FIFO"}
        BY <1>1, <1>4 DEF d, o
      <4>2. n = AfterCreate(o.dev) BY <3>1, <4>1 DEF FollowDevice
      <4> QED BY <4>1, <4>2 DEF AfterCreate, Create, TaskCreate, Open, Answer
    <3>9. ~AtCard(n) BY <3>2, <3>8, AtCardIs
    <3> QED BY <3>2, <3>3, <3>4, <3>5, <3>6, <3>7, <3>9
  <2>2. CASE ~ok
    <3>1. n = Answer("RK_ERROR") /\ Err(p) BY <1>1, <2>2 DEF CallCreated
    <3>2. AtList(o) BY <1>0, <1>1, <3>1, ErrScripts
    <3> HIDE DEF n, o
    <3> QED BY <3>1, <3>2, AnswerIs
  <2> QED BY <2>1, <2>2
<1>9. /\ devOp' = NULL /\ hdl' = hdl
      /\ registered' = IF ok THEN registered \cup {d} ELSE registered
      /\ Cnt' = IF ok THEN [Cnt EXCEPT ![d] = 0] ELSE Cnt
  BY <1>1, <1>6 DEF CreateEnd
<1>10. Cnt \in [Devices -> Nat] BY <1>0 DEF PfInv, DRInv, DRTypeOK
<1> HIDE DEF o, n, d, ok
<1>11. DevOpInv' BY <1>3, <1>7, <1>8, <1>9 DEF DevOpInv, n
<1>12. IrqInv'
  <2>1. "SDIO" \notin registered' => RKTaskFind("SDIO_IRQ_TASK") = {}
    <3> SUFFICES ASSUME "SDIO" \notin registered' PROVE RKTaskFind("SDIO_IRQ_TASK") = {}
      OBVIOUS
    <3>1. "SDIO" \notin registered BY <1>9
    <3>2. CASE d # "SDIO"
      <4>1. ~Creating(o, "SDIO") BY <1>5, <3>2
      <4> QED BY <1>7, <3>1, <4>1, FullHas, CardDevices DEF IrqInv, o
    <3>3. CASE d = "SDIO"
      <4>1. ~ok BY <1>9, <3>3
      <4> QED BY <1>1, <3>3, <4>1, FullHas DEF IrqInv, o, d, ok
    <3> QED BY <3>2, <3>3
  <2> QED BY <1>2, <1>3, <1>8, <1>9, <2>1, FullHas, KeepIrq DEF n, o
<1>13. CardInv'
  <2>1. d \in {"SDC", "SDIO"} => Stage(Doing("shell")) = 0 BY <1>5, AtWork DEF o
  <2>2. d = "SDC" => hdl["hSdc"] = NULL BY <1>5, FullHas DEF CardInv, o
  <2>3. CASE ok /\ d = "SDC"
    <3>1. /\ Cnt'["SDC"] = 0 /\ Cnt'["SDIO"] = Cnt["SDIO"] /\ "SDC" \in registered'
          /\ "SDIO" \in registered' <=> "SDIO" \in registered
      BY <1>9, <1>10, <2>3, CardDevices
    <3>2. Stage(Doing("shell")') = 0 /\ NoCard(0) BY <1>3, <2>1, <2>3 DEF NoCard
    <3>3. "SDIO" \notin registered BY <2>2, <2>3, FullHas DEF CardInv
    <3> QED BY <1>8, <1>9, <2>2, <2>3, <3>1, <3>2, <3>3, FullHas DEF CardInv, NoCard, n
  <2>4. CASE ok /\ d = "SDIO"
    <3>1. /\ Cnt'["SDIO"] = 0 /\ Cnt'["SDC"] = Cnt["SDC"] /\ "SDIO" \in registered'
          /\ "SDC" \in registered' <=> "SDC" \in registered
      BY <1>9, <1>10, <2>4, CardDevices
    <3>2. Stage(Doing("shell")') = 0 /\ NoCard(0) BY <1>3, <2>1, <2>4 DEF NoCard
    <3>3. AtCard(o) BY <1>5, <2>4, AtCardIs
    <3>4. ~(n.op = "open" /\ n.var = "hSdc") BY <1>8, <2>4
    <3>5. hdl["hSdc"] # NULL BY <3>3, FullHas DEF CardInv, o
    <3> QED BY <1>8, <1>9, <2>4, <3>1, <3>2, <3>4, <3>5, FullHas DEF CardInv, NoCard, n
  <2>5. CASE ~(ok /\ d \in {"SDC", "SDIO"})
    <3>1. /\ Cnt'["SDIO"] = Cnt["SDIO"] /\ Cnt'["SDC"] = Cnt["SDC"]
          /\ "SDIO" \in registered' <=> "SDIO" \in registered
          /\ "SDC" \in registered' <=> "SDC" \in registered
      BY <1>4, <1>9, <1>10, <2>5, CardDevices
    <3> QED BY <1>3, <1>8, <1>9, <2>2, <3>1, FullHas, KeepCard DEF n
  <2> QED BY <2>3, <2>4, <2>5
<1>14. Balance' BY <1>3, <1>8, BalanceAlone DEF o, n
<1> QED BY <1>1, <1>2, <1>3, <1>8, <1>9, <1>11, <1>12, <1>13, <1>14, DeviceMoves DEF n, o

LEMMA DeviceOpens ==
  ASSUME Full, CallOpen("device")
  PROVE  cause' = {} /\ RunInv'
<1> DEFINE o == Doing("device")  n == Doing("device")'  v == Doing("device").var
<1>0. PfInv /\ Scripts /\ DRTypeOK /\ "device" \in All /\ "device" \in Procs
  BY FullHas, Members, Names DEF PfInv, DRInv
<1>1. /\ Scripts' /\ o.op = "open" /\ o \in DeviceOps /\ Now("device") = o
      /\ n = IF DeviceOf(v) \in registered THEN FollowDevice(o) ELSE Answer("RK_ERROR")
      /\ \A q \in All \ {"device"} : Doing(q)' = Doing(q)
  BY <1>0, OpenScripts, Members
<1>2. UNCHANGED tmVars /\ OthersAlone /\ call["device"].pc = "idle" /\ DevOpen(DeviceOf(v), v)
  BY <1>0, <1>1, IdleAt DEF CallOpen, At
<1>3. /\ Doing("shell")' = Doing("shell") /\ Doing("wifi")' = Doing("wifi")
      /\ UNCHANGED <<DeviceAskQueue, DeviceRespQueue>>
      /\ UNCHANGED <<wlanUp, wlanInitialised, linkUp>>
  BY <1>1, <1>2, Members DEF OthersAlone, wlVars
<1>4. v \in {"hDma", "hSdc", "hFileList"} BY <1>1, DeviceHas
<1> HIDE DEF o, n, v
<1>5. AtList(o) /\ (\A e : ~Creating(o, e)) BY <1>1 DEF AtList, Creating
<1>6. /\ AtList(n) /\ (\A e : ~Creating(n, e)) /\ (Booting(n) => Booting(o))
      /\ ~(n.op = "open" /\ n.var = "hSdc")
      /\ n.op # "created" /\ ~(n.op = "taskCreate" /\ n.id = "SDIO_IRQ_TASK")
      /\ AtCard(n) => v = "hSdc" /\ "SDC" \in registered
  <2>1. CASE n = FollowDevice(o)
    <3>0. o.op # "answer" /\ o.op # "taskCreate" BY <1>1
    <3>1. AtList(FollowDevice(o)) <=> AtList(o) BY <1>1, <3>0, DeviceFollows
    <3>2. Booting(FollowDevice(o)) => Booting(o) BY <1>1, <3>0, DeviceFollows
    <3>3. \A e : ~Creating(n, e) BY <1>1, <2>1, <3>0, DeviceFollows
    <3>4. n.op # "created" BY <3>3 DEF Creating
    <3>5. ~(n.op = "open" /\ n.var = "hSdc") BY <1>1, <2>1, DeviceFollows
    <3>6. ~(n.op = "taskCreate" /\ n.id = "SDIO_IRQ_TASK") BY <1>1, <2>1, DeviceFollows
    <3>7. n.op = "create" /\ n.dev = "SDIO" => v = "hSdc"
      BY <1>1, <1>4, <2>1 DEF FollowDevice, Create, Close, o, v
    <3>8. AtCard(n) => v = "hSdc" BY <3>3, <3>7, AtCardIs
    <3>9. AtCard(n) => "SDC" \in registered
      <4>1. AtCard(n) => n # Answer("RK_ERROR") BY AnswerIs
      <4> QED BY <1>1, <3>8, <4>1, CardDevices
    <3> QED BY <1>5, <2>1, <3>1, <3>2, <3>3, <3>4, <3>5, <3>6, <3>8, <3>9
  <2>2. CASE n = Answer("RK_ERROR") BY <2>2, AnswerIs
  <2> QED BY <1>1, <2>1, <2>2
<1>7. devOp' = devOp /\ registered' = registered /\ osDeviceReqSem = 1 BY <1>2 DEF DevOpen
<1>8. DevOpInv' BY <1>3, <1>5, <1>6, <1>7, FullHas, KeepDevOp DEF o, n
<1>9. IrqInv' BY <1>2, <1>3, <1>5, <1>6, <1>7, FullHas, KeepIrq DEF o, n
<1>10. Balance' BY <1>3, <1>5, <1>6, BalanceAlone DEF o, n
<1>11. CardInv' /\ hdl'["hSdio"] = hdl["hSdio"]
  <2>1. CASE v \in OtherVars
    <3>1. CardSame BY <1>0, <1>2, <2>1, OpenOther
    <3>2. ~AtCard(n) BY <1>6, <2>1 DEF OtherVars
    <3> QED BY <1>3, <1>6, <3>1, <3>2, FullHas, KeepCard DEF CardSame, n
  <2>2. CASE v = "hSdc"
    <3>1. hdl["hSdc"] = NULL /\ Cnt["SDC"] = 0 BY <1>1, <2>2, FullHas DEF CardInv, o, v
    <3>2. /\ Stage(Doing("shell")') = 0 BY <1>3, <1>5, AtWork DEF o
    <3>3. NoCard(0) /\ 0 <= 1 BY DEF NoCard
    <3>7. "SDIO" \notin registered BY <3>1, FullHas DEF CardInv
    <3>8. AtCard(n) => hdl'["hSdc"] # NULL
      <4>1. SUFFICES ASSUME "SDC" \in registered PROVE hdl'["hSdc"] # NULL BY <1>6
      <4>2. hdl'["hSdc"] = "SDC" BY <1>0, <1>2, <2>2, <4>1, CardDevices DEF DevOpen, DRTypeOK
      <4> QED BY <4>2, CardDevices, DeviceAssumption
    <3>4. Cnt \in [Devices -> Nat] /\ hdl \in [Handles -> Devices \cup {NULL}]
      BY <1>0 DEF DRTypeOK
    <3>5. Cnt'["SDIO"] = Cnt["SDIO"] /\ hdl'["hSdio"] = hdl["hSdio"]
      BY <1>2, <2>2, <3>4, CardDevices DEF DevOpen
    <3>6. Cnt'["SDC"] <= 1 /\ (hdl'["hSdc"] = NULL => Cnt'["SDC"] = 0)
      <4>1. CASE "SDC" \in registered
        <5>1. Cnt'["SDC"] = 1 /\ hdl'["hSdc"] = "SDC"
          BY <1>2, <2>2, <3>1, <3>4, <4>1, CardDevices DEF DevOpen
        <5> QED BY <5>1, CardDevices, DeviceAssumption
      <4>2. CASE "SDC" \notin registered
        BY <1>2, <2>2, <3>1, <4>2, CardDevices DEF DevOpen
      <4> QED BY <4>1, <4>2
    <3> QED BY <1>6, <1>7, <3>2, <3>3, <3>5, <3>6, <3>7, <3>8, FullHas DEF CardInv, NoCard, n
  <2> QED BY <1>4, <2>1, <2>2 DEF OtherVars
<1> QED BY <1>1, <1>2, <1>3, <1>6, <1>8, <1>9, <1>10, <1>11, DeviceMoves DEF n, o

LEMMA DeviceCloses ==
  ASSUME Full, CallClose("device")
  PROVE  cause' = {} /\ RunInv'
<1> DEFINE o == Doing("device")  n == Doing("device")'
<1>0. /\ PfInv /\ Scripts /\ DRTypeOK /\ HandlesOK /\ "device" \in All /\ "device" \in Procs
      /\ "device" \in Scripted
  BY FullHas, Members, Names DEF PfInv, DRInv, Scripted
<1>1. /\ Scripts' /\ o.op = "close" /\ o \in DeviceOps /\ Now("device") = o
      /\ n = FollowDevice(o) /\ \A q \in All \ {"device"} : Doing(q)' = Doing(q)
  BY <1>0, StepScripts, Members DEF CallClose, Follow
<1>2. UNCHANGED tmVars /\ OthersAlone /\ call["device"].pc = "idle"
  BY <1>0, IdleAt DEF CallClose, At
<1>3. /\ Doing("shell")' = Doing("shell") /\ Doing("wifi")' = Doing("wifi")
      /\ UNCHANGED <<DeviceAskQueue, DeviceRespQueue>>
      /\ UNCHANGED <<wlanUp, wlanInitialised, linkUp>>
  BY <1>1, <1>2, Members DEF OthersAlone, wlVars
<1>4. CardSame
  <2>1. o.var = "hFileList" /\ o.clear = FALSE BY <1>1, DeviceHas
  <2>2. UNCHANGED drVars \/ DevClose("hFileList", FALSE) BY <1>1, <2>1 DEF CallClose
  <2> QED BY <1>0, <2>2, CloseOther DEF OtherVars
<1> HIDE DEF o, n
<1>5. n = Create("FIFO") BY <1>1 DEF FollowDevice
<1>6. n.op = "create" /\ n.dev = "FIFO" BY <1>5 DEF Create
<1>7. AtList(n) /\ ~Booting(n) /\ \A e : ~Creating(n, e) BY <1>6, CreateIs
<1>8. AtList(o) /\ \A e : ~Creating(o, e) BY <1>1 DEF AtList, Creating
<1>9. DevOpInv' BY <1>3, <1>4, <1>7, <1>8, FullHas, KeepDevOp DEF o, n, CardSame
<1>10. IrqInv' BY <1>2, <1>3, <1>4, <1>6, <1>8, FullHas, KeepIrq DEF o, n, CardSame
<1>13. ~AtCard(n) BY <1>6, <1>7, AtCardIs
<1>11. CardInv' BY <1>3, <1>4, <1>6, <1>7, <1>13, FullHas, KeepCard DEF n, CardSame
<1>12. Balance' BY <1>3, <1>7, <1>8, BalanceAlone DEF o, n
<1> QED BY <1>1, <1>2, <1>3, <1>4, <1>7, <1>9, <1>10, <1>11, <1>12, DeviceMoves DEF n, CardSame

\* Between two calls: the device manager answers and listens again.
LEMMA DeviceTalks ==
  ASSUME Full, Scripts', call["device"].pc = "idle", UNCHANGED <<tmVars, drVars>>,
         UNCHANGED <<wlanUp, wlanInitialised, linkUp>>,
         \A q \in All \ {"device"} : Doing(q)' = Doing(q),
         Doing("device").op \in {"answer", "listen"},
         \/ Doing("device")' = Only("listen")
         \/ Doing("device")' = Open("hDma", "err"),
         Balance'
  PROVE  cause' = {} /\ RunInv'
<1> DEFINE o == Doing("device")  n == Doing("device")'
<1>1. Doing("shell")' = Doing("shell") /\ Doing("wifi")' = Doing("wifi") BY Members
<1>2. UNCHANGED <<registered, devOp, Cnt, hdl>> /\ UNCHANGED tmVars BY DEF drVars
<1> HIDE DEF o, n
<1>3. \A e : ~Creating(o, e) BY DEF Creating, o
<1>4. /\ ~Booting(n) /\ \A e : ~Creating(n, e)
      /\ n.op # "created" /\ ~(n.op = "taskCreate" /\ n.id = "SDIO_IRQ_TASK")
      /\ ~(n.op = "open" /\ n.var = "hSdc") /\ ~AtCard(n)
  <2>1. CASE n = Only("listen") BY <2>1 DEF Only, Booting, Creating, AtCard
  <2>2. CASE n = Open("hDma", "err") BY <2>2 DEF Open, Booting, Creating, AtCard
  <2> QED BY <2>1, <2>2 DEF n
<1>5. DevOpInv' BY <1>1, <1>2, <1>3, <1>4, FullHas, KeepDevOp DEF o, n
<1>6. IrqInv' BY <1>1, <1>2, <1>3, <1>4, FullHas, KeepIrq DEF o, n
<1>7. CardInv' BY <1>1, <1>2, <1>4, FullHas, KeepCard DEF n
<1> QED BY <1>2, <1>4, <1>5, <1>6, <1>7, DeviceMoves DEF n

LEMMA DeviceAnswers ==
  ASSUME Full, SendAnswer("device")
  PROVE  cause' = {} /\ RunInv'
<1> DEFINE o == Doing("device")  n == Doing("device")'
<1>0. PfInv /\ Scripts /\ "device" \in All /\ "device" \in Procs /\ "device" \in Scripted
  BY FullHas, Members, Names DEF Scripted
<1>1. /\ Scripts' /\ o.op = "answer" /\ o \in DeviceOps /\ Now("device") = o
      /\ n = FollowDevice(o) /\ \A q \in All \ {"device"} : Doing(q)' = Doing(q)
  BY <1>0, StepScripts, Members DEF SendAnswer, Follow
<1>2. /\ UNCHANGED <<tmVars, drVars>> /\ call["device"].pc = "idle" /\ DeviceAskQueue' = DeviceAskQueue
      /\ DeviceRespQueue = NULL /\ DeviceRespQueue' = o.status
      /\ UNCHANGED <<wlanUp, wlanInitialised, linkUp>>
  BY <1>0, <1>1, IdleAt DEF SendAnswer, At
<1>3. Doing("shell")' = Doing("shell") /\ Doing("wifi")' = Doing("wifi") BY <1>1, Members
<1>4. DeviceRespQueue' # NULL
  <2>1. o \in Ops BY <1>0, AtOp, <1>1 DEF SendAnswer, PfInv
  <2>2. o.status \in {"RK_SUCCESS", "RK_ERROR"} BY <1>1, <2>1, OpsHave
  <2> QED BY <1>2, <2>2, PlatformAssumption
<1> HIDE DEF o, n
<1>5. AtList(o) /\ ~AtList(n) /\ n = Only("listen") BY <1>1, DeviceFollows
<1>6. Balance'
  BY <1>2, <1>3, <1>4, <1>5, FullHas DEF Balance, Waits, Asked, Answered, Working, o, n
<1> QED BY <1>1, <1>2, <1>5, <1>6, DeviceTalks DEF o, n

LEMMA ListenRun ==
  ASSUME Full, Listen
  PROVE  cause' = {} /\ RunInv'
<1>0. PfInv /\ Scripts /\ "device" \in All /\ "device" \in Procs BY FullHas, Members, Names
<1>1. /\ Scripts' /\ Doing("device") = Only("listen")
      /\ Doing("device")' = Open("hDma", "err")
      /\ \A q \in All \ {"device"} : Doing(q)' = Doing(q)
  BY <1>0, ListenScripts
<1>2. /\ UNCHANGED <<tmVars, drVars>> /\ call["device"].pc = "idle"
      /\ DeviceAskQueue /\ DeviceAskQueue' = FALSE /\ DeviceRespQueue' = DeviceRespQueue
      /\ UNCHANGED <<wlanUp, wlanInitialised, linkUp>>
  BY <1>0, IdleAt DEF Listen, At, wlVars
<1>3. Doing("shell")' = Doing("shell") /\ Doing("wifi")' = Doing("wifi") BY <1>1, Members
<1>4. ~AtList(Only("listen")) BY DEF AtList, Only
<1>5. AtList(Open("hDma", "err")) BY DEF AtList, Open
<1>6. Doing("device").op = "listen" BY <1>1 DEF Only
<1>7. Balance'
  BY <1>1, <1>2, <1>3, <1>4, <1>5, FullHas DEF Balance, Waits, Asked, Answered, Working
<1> QED BY <1>1, <1>2, <1>6, <1>7, DeviceTalks

----------------------------------------------------------------------------
(* The shell.                                                              *)
LEMMA BalanceShell ==
  ASSUME Full, UNCHANGED <<DeviceAskQueue, DeviceRespQueue>>,
         Doing("device")' = Doing("device"), Doing("wifi")' = Doing("wifi"),
         Doing("shell").op # "receiveList", Doing("shell")'.op # "receiveList"
  PROVE  Balance'
BY FullHas DEF Balance, Waits, Asked, Answered, Working, Wait

LEMMA ShellMoves ==
  ASSUME Full, UNCHANGED tmVars, Scripts', call["shell"].pc = "idle",
         \A q \in All \ {"shell"} : Doing(q)' = Doing(q), Doing("shell").op # "dormant",
         WifiInv', WlanInv', DevOpInv', IrqInv', CardInv', Balance'
  PROVE  cause' = {} /\ RunInv'
<1>1. Doing("device")' = Doing("device") /\ "shell" \in All BY Members
<1>2. BootInv' BY <1>1, FullHas, KeepBoot
<1> QED BY <1>1, <1>2, RunFrom

\* A step that does not go on with the deletion of the card.
LEMMA ShellStays ==
  ASSUME Full, UNCHANGED tmVars, Scripts', call["shell"].pc = "idle",
         \A q \in All \ {"shell"} : Doing(q)' = Doing(q), CardSame, Balance', WlanInv',
         Doing("shell").op # "dormant", Doing("shell")'.op \notin {"taskCreate", "closeOver"},
         Stage(Doing("shell")') \in {0, Stage(Doing("shell"))},
         \A d : ~Removing(Doing("shell"), d), \A d : ~Removing(Doing("shell")', d)
  PROVE  cause' = {} /\ RunInv'
<1> DEFINE n == Doing("shell")'
<1>1. Doing("device")' = Doing("device") /\ Doing("wifi")' = Doing("wifi") BY Members
<1>2. Stage(Doing("shell")') > 0 => Stage(Doing("shell")) > 0 OBVIOUS
<1>3. n.op # "deleted" BY DEF Removing
<1>4. WifiInv' BY <1>1, <1>2, FullHas, KeepWifi
<1>5. DevOpInv' BY <1>1, FullHas, KeepDevOp DEF CardSame
<1>6. IrqInv' BY <1>1, <1>3, FullHas, KeepIrq DEF CardSame, IrqInv
<1>7. CardInv' BY <1>1, FullHas, KeepCard DEF CardSame, CardInv
<1> QED BY <1>4, <1>5, <1>6, <1>7, ShellMoves

LEMMA DrSame == ASSUME UNCHANGED drVars PROVE CardSame
BY DEF drVars, CardSame

LEMMA RemovingIs ==
  ASSUME NEW o
  PROVE  /\ o.op \notin {"deleted", "taskDelete"} => \A d : ~Removing(o, d)
         /\ o.op = "taskDelete" /\ o.id # "SDIO_IRQ_TASK" => \A d : ~Removing(o, d)
BY DEF Removing

\* What follows such an operation.
LEMMA ShellGoes ==
  ASSUME NEW o \in ShellOps, NEW n, n = FollowShell(o),
         o.op \in {"awaitLink", "askList", "receiveList", "setRunning", "closeOver", "close",
                   "deleted"},
         o.op = "close" => o.var \in {"hFifo", "hDma"}
  PROVE  /\ Stage(n) \in {0, Stage(o)} /\ (o.op # "closeOver" => Stage(n) = Stage(o))
         /\ o.op # "dormant" /\ n.op \notin {"taskCreate", "deleted", "closeOver"}
         /\ n.op = "receiveList" <=> o.op = "askList"
         /\ n.op = "answer" => n.status = "RK_SUCCESS"
         /\ \A d : ~Removing(n, d)
         /\ o.op # "deleted" => \A d : ~Removing(o, d)
<1>1. Stage(n) \in {0, Stage(o)} /\ (o.op # "closeOver" => Stage(n) = Stage(o))
  <2>1. CASE o.op = "closeOver" BY <2>1, ShellFollows
  <2>2. CASE o.op = "close"
    <3>1. CASE o.var = "hFifo" BY <2>2, <3>1, ShellFollows
    <3>2. CASE o.var = "hDma" BY <2>2, <3>2, ShellFollows
    <3> QED BY <2>2, <3>1, <3>2
  <2>3. CASE o.op \in {"awaitLink", "askList", "receiveList", "setRunning"}
    BY <2>3, ShellFollows
  <2>4. CASE o.op = "deleted"
    <3>1. o.dev \in {"SDC", "SDIO"} BY <2>4, ShellHas
    <3>2. Stage(o) = IF o.dev = "SDIO" THEN 4 ELSE 6 BY <2>4, <3>1 DEF Stage
    <3> QED BY <2>4, <3>2, ShellFollows
  <2> QED BY <2>1, <2>2, <2>3, <2>4
<1>2. n.op # "taskCreate" /\ (n.op = "receiveList" <=> o.op = "askList") BY ShellFollows
<1>3. \A d : ~Removing(n, d) BY ShellFollows
<1>4. n.op # "deleted" BY <1>3 DEF Removing
<1>5. o.op # "deleted" => \A d : ~Removing(o, d) BY RemovingIs
<1>6. n.op # "closeOver" /\ (n.op = "answer" => n.status = "RK_SUCCESS")
  <2>1. CASE o.op \in {"awaitLink", "receiveList", "closeOver"}
    <3>1. n = Nothing
      <4>1. CASE o.op = "awaitLink" BY <4>1 DEF FollowShell
      <4>2. CASE o.op = "receiveList" BY <4>2 DEF FollowShell
      <4>3. CASE o.op = "closeOver" BY <4>3 DEF FollowShell
      <4> QED BY <2>1, <4>1, <4>2, <4>3
    <3> QED BY <3>1 DEF Nothing
  <2>2. CASE o.op = "askList" BY <2>2 DEF FollowShell, Only
  <2>3. CASE o.op = "setRunning" BY <2>3 DEF FollowShell, Only
  <2>4. CASE o.op = "close" BY <2>4 DEF FollowShell, SetRunning, Answer
  <2>5. CASE o.op = "deleted" BY <2>5 DEF FollowShell, Close
  <2> QED BY <2>1, <2>2, <2>3, <2>4, <2>5
<1> QED BY <1>1, <1>2, <1>3, <1>4, <1>5, <1>6

\* When the shell has come to the end of wifi.delete the Wi-Fi task is gone.
LEMMA ShellGone ==
  ASSUME Full, Doing("shell").op = "closeOver", call["shell"].pc = "idle"
  PROVE  Doing("wifi").op = "dormant"
<1>1. \A b \in RKTaskFind("WIFI_APPLICATION") : Asks("DELETE", b, "shell")
  BY FullHas DEF WifiInv
<1>2. \A b : ~Asks("DELETE", b, "shell") BY FullHas, Quiet, Names
<1>3. RKTaskFind("WIFI_APPLICATION") = {} BY <1>1, <1>2
<1> QED BY <1>3, FullHas DEF WifiInv

LEMMA ShellWlan ==
  ASSUME Full, UNCHANGED <<wlanUp, wlanInitialised, linkUp>>, call["shell"].pc = "idle",
         Doing("wifi")' = Doing("wifi"), hdl'["hSdio"] = hdl["hSdio"],
         Stage(Doing("shell")') \in {0, Stage(Doing("shell"))},
         Doing("shell").op # "closeOver" => Stage(Doing("shell")') = Stage(Doing("shell")),
         Doing("shell").op = "awaitLink" => linkUp,
         Doing("shell")'.op = "answer" => Doing("shell")'.status = "RK_SUCCESS"
  PROVE  WlanInv'
<1> DEFINE o == Doing("shell")  n == Doing("shell")'
<1>0. WlanInv BY FullHas
<1>1. o.op = "closeOver" => Stage(o) = 8 /\ Doing("wifi").op = "dormant" BY ShellGone DEF Stage
<1>2. o.op = "awaitLink" => wlanInitialised BY <1>0 DEF WlanInv
<1>3. wlanInitialised => Stage(n) < 2 BY <1>0 DEF WlanInv
<1>4. Stage(o) \in 2 .. 6 => Stage(n) \in 2 .. 6 BY <1>1
<1>5. o.op = "awaitLink" \/ Stage(o) >= 2 =>
        Stage(n) >= 2 \/ wlanInitialised \/ Doing("wifi").op = "dormant"
  BY <1>1, <1>2
<1> HIDE DEF o, n
<1> QED BY <1>0, <1>3, <1>4, <1>5, KeepWlan DEF o, n

\* A step of the shell after which it simply goes on.
LEMMA ShellStep ==
  ASSUME Full, NEW name, At("shell", name), Done("shell")
  PROVE  /\ Scripts' /\ Doing("shell") \in ShellOps /\ Doing("shell").op = name
         /\ Now("shell") = Doing("shell") /\ call["shell"].pc = "idle"
         /\ Doing("shell")' = FollowShell(Doing("shell"))
         /\ \A q \in All \ {"shell"} : Doing(q)' = Doing(q)
         /\ Doing("device")' = Doing("device") /\ Doing("wifi")' = Doing("wifi")
<1>0. PfInv /\ Scripts /\ "shell" \in All /\ "shell" \in Procs /\ "shell" \in Scripted
  BY FullHas, Members, Names DEF Scripted
<1>1. /\ Scripts' /\ Doing("shell") \in ShellOps /\ Doing("shell").op = name
      /\ Now("shell") = Doing("shell") /\ Ready("shell")
      /\ Doing("shell")' = FollowShell(Doing("shell"))
      /\ \A q \in All \ {"shell"} : Doing(q)' = Doing(q)
  BY <1>0, StepScripts, Members DEF Follow
<1> QED BY <1>0, <1>1, IdleAt, Members

LEMMA ShellEasy ==
  ASSUME Full, UNCHANGED tmVars, CardSame,
         UNCHANGED <<wlanUp, wlanInitialised, linkUp>>,
         NEW name \in {"awaitLink", "askList", "receiveList", "setRunning", "closeOver", "close"},
         At("shell", name), Done("shell"), name = "awaitLink" => linkUp,
         name = "close" => Doing("shell").var \in {"hFifo", "hDma"}, Balance'
  PROVE  cause' = {} /\ RunInv'
<1>1. /\ Scripts' /\ Doing("shell") \in ShellOps /\ Doing("shell").op = name
      /\ call["shell"].pc = "idle" /\ Doing("shell")' = FollowShell(Doing("shell"))
      /\ \A q \in All \ {"shell"} : Doing(q)' = Doing(q)
  BY ShellStep
<1> DEFINE o == Doing("shell")  n == Doing("shell")'
<1> HIDE DEF o, n
<1>2. /\ Stage(n) \in {0, Stage(o)} /\ o.op # "dormant" /\ n.op \notin {"taskCreate", "closeOver"}
      /\ (\A d : ~Removing(o, d)) /\ (\A d : ~Removing(n, d))
      /\ (o.op # "closeOver" => Stage(n) = Stage(o)) /\ (n.op = "answer" => n.status = "RK_SUCCESS")
  <2>1. o \in ShellOps /\ n = FollowShell(o) /\ o.op = name
        /\ (o.op = "close" => o.var \in {"hFifo", "hDma"})
    BY <1>1 DEF o, n
  <2>2. o.op # "deleted" BY <2>1
  <2> QED BY <2>1, <2>2, ShellGoes
<1>3. Doing("wifi")' = Doing("wifi") BY <1>1, Members
<1>4. WlanInv' BY <1>1, <1>2, <1>3, ShellWlan DEF o, n, CardSame
<1> QED BY <1>1, <1>2, <1>4, ShellStays DEF o, n

LEMMA ShellTalks ==
  ASSUME Full,
         \/ AskList("shell") \/ ReceiveList("shell") \/ ChangeRunning("shell")
         \/ AwaitLink \/ CloseOver
  PROVE  cause' = {} /\ RunInv'
<1>0. Balance BY FullHas
<1>1. CASE AskList("shell")
  <2>1. /\ At("shell", "askList") /\ Done("shell") /\ UNCHANGED tmVars /\ CardSame
        /\ DeviceAskQueue = FALSE /\ DeviceAskQueue' = TRUE /\ DeviceRespQueue' = DeviceRespQueue
        /\ UNCHANGED <<wlanUp, wlanInitialised, linkUp>>
    BY <1>1, DrSame, FullHas DEF AskList, PfInv, QueuesOK, wlVars
  <2>2. Doing("shell").op = "askList" /\ Doing("shell")' = FollowShell(Doing("shell"))
        /\ Doing("shell") \in ShellOps
        /\ Doing("device")' = Doing("device") /\ Doing("wifi")' = Doing("wifi")
    BY <2>1, ShellStep
  <2>3. Doing("shell")'.op = "receiveList" BY <2>2, ShellFollows
  <2>4. Balance'
    BY <1>0, <2>1, <2>2, <2>3 DEF Balance, Waits, Asked, Answered, Working, Wait
  <2> QED BY <2>1, <2>4, ShellEasy
<1>2. CASE ReceiveList("shell")
  <2>1. /\ At("shell", "receiveList") /\ Done("shell") /\ UNCHANGED tmVars /\ CardSame
        /\ DeviceAskQueue' = DeviceAskQueue /\ DeviceRespQueue # NULL /\ DeviceRespQueue' = NULL
        /\ UNCHANGED <<wlanUp, wlanInitialised, linkUp>>
    BY <1>2, DrSame DEF ReceiveList, wlVars
  <2>2. Doing("shell").op = "receiveList" /\ Doing("shell")' = FollowShell(Doing("shell"))
        /\ Doing("shell") \in ShellOps
        /\ Doing("device")' = Doing("device") /\ Doing("wifi")' = Doing("wifi")
    BY <2>1, ShellStep
  <2>3. Doing("shell")'.op # "receiveList" BY <2>2, ShellFollows
  <2>4. Balance'
    BY <1>0, <2>1, <2>2, <2>3 DEF Balance, Waits, Asked, Answered, Working, Wait
  <2> QED BY <2>1, <2>4, ShellEasy
<1>3. ASSUME NEW name \in {"setRunning", "awaitLink", "closeOver"},
             At("shell", name), Done("shell"), UNCHANGED <<tmVars, drVars>>,
             UNCHANGED <<DeviceAskQueue, DeviceRespQueue>>, name = "awaitLink" => linkUp,
             UNCHANGED <<wlanUp, wlanInitialised, linkUp>>
      PROVE  cause' = {} /\ RunInv'
  <2>1. CardSame BY <1>3, DrSame
  <2>2. Doing("shell").op = name /\ Doing("shell")' = FollowShell(Doing("shell"))
        /\ Doing("shell") \in ShellOps
        /\ Doing("device")' = Doing("device") /\ Doing("wifi")' = Doing("wifi")
    BY <1>3, ShellStep
  <2>3. Doing("shell")'.op # "receiveList" /\ Doing("shell").op # "receiveList"
    BY <2>2, ShellFollows
  <2>4. Balance' BY <1>3, <2>2, <2>3, BalanceShell
  <2> QED BY <1>3, <2>1, <2>4, ShellEasy
<1>4. CASE ChangeRunning("shell") BY <1>3, <1>4 DEF ChangeRunning, wlVars
<1>6. CASE AwaitLink BY <1>3, <1>6 DEF AwaitLink, OthersAlone, wlVars
<1>7. CASE CloseOver BY <1>3, <1>7 DEF CloseOver, OthersAlone, wlVars
<1> QED BY <1>1, <1>2, <1>4, <1>6, <1>7

\* The bus is down: the state is WLAN_DOWN from here on.
LEMMA ShellAnswers ==
  ASSUME Full, SendAnswer("shell")
  PROVE  cause' = {} /\ RunInv'
<1> DEFINE o == Doing("shell")  n == Doing("shell")'
<1>1. At("shell", "answer") /\ Done("shell") BY DEF SendAnswer
<1>2. /\ Scripts' /\ o \in ShellOps /\ o.op = "answer" /\ Now("shell") = o
      /\ call["shell"].pc = "idle" /\ n = FollowShell(o)
      /\ \A q \in All \ {"shell"} : Doing(q)' = Doing(q)
      /\ Doing("device")' = Doing("device") /\ Doing("wifi")' = Doing("wifi")
  BY <1>1, ShellStep
<1>3. Stage(o) = 6 /\ n = TaskDelete("TCPIP_THREAD", "SYNC_MODE") BY <1>2, ShellFollows
<1>4. o.status = "RK_SUCCESS" BY <1>2, FullHas DEF WlanInv
<1>5. /\ UNCHANGED <<tmVars, drVars>> /\ UNCHANGED <<DeviceAskQueue, DeviceRespQueue>>
      /\ wlanUp' = FALSE /\ UNCHANGED <<wlanInitialised, linkUp>>
  BY <1>2, <1>4 DEF SendAnswer
<1>6. CardSame BY <1>5, DrSame
<1> HIDE DEF o, n
<1>7. /\ n.op = "taskDelete" /\ Stage(n) = 7 /\ \A d : ~Removing(n, d)
  BY <1>3 DEF TaskDelete, Stage, Removing
<1>8. \A d : ~Removing(o, d) BY <1>2, RemovingIs
<1>9. WlanInv'
  <2>1. /\ Stage(o) >= 2 /\ ~(Stage(o) < 2) /\ Stage(o) > 0 /\ Stage(n) >= 2
    BY <1>3, <1>7
  <2>2. ~wlanInitialised /\ ~linkUp /\ Doing("wifi").op # "join"
    BY <2>1, FullHas DEF WlanInv, WifiInv, o
  <2>3. OnBus(Doing("wifi")) => hdl["hSdio"] # NULL BY FullHas DEF WlanInv
  <2>4. hdl["hSdio"] # NULL => OnBus(Doing("wifi")) \/ Doing("wifi").op = "nothing"
    BY FullHas DEF WlanInv
  <2> QED BY <1>2, <1>5, <1>6, <1>7, <2>1, <2>2, <2>3, <2>4 DEF WlanInv, CardSame, n
<1>10. Balance' BY <1>2, <1>5, <1>7, BalanceShell DEF o, n
<1>11. WifiInv'
  <2>1. Stage(o) > 0 BY <1>3
  <2> QED BY <1>2, <1>5, <1>7, <2>1, FullHas, KeepWifi DEF o, n
<1>12. DevOpInv' BY <1>2, <1>6, <1>7, <1>8, FullHas, KeepDevOp DEF CardSame, o, n
<1>13. IrqInv' BY <1>2, <1>5, <1>6, <1>7, <1>8, FullHas, KeepIrq DEF CardSame, IrqInv, o, n
<1>14. CardInv'
  <2>1. NoMore(Stage(o), Stage(n)) BY <1>3, <1>7 DEF NoMore
  <2> QED BY <1>2, <1>6, <2>1, FullHas, KeepCard DEF CardSame, CardInv, o, n
<1> QED BY <1>2, <1>5, <1>9, <1>10, <1>11, <1>12, <1>13, <1>14, ShellMoves DEF o, n

LEMMA ShellHttpClose ==
  ASSUME Full, HttpClose("shell")
  PROVE  cause' = {} /\ RunInv'
<1> DEFINE o == Doing("shell")  n == Doing("shell")'
<1>0. PfInv /\ Scripts /\ Ordered /\ "shell" \in All /\ "shell" \in Procs
  BY FullHas, Members, Names DEF Scripts
<1>1. /\ Scripts' /\ Stage(o) = 1 /\ Stage(n) = 1
      /\ n \in {TaskDelete("HTTP", "ASYNC_MODE"), SetRunning(FALSE)}
      /\ \A q \in All \ {"shell"} : Doing(q)' = Doing(q)
  BY <1>0, HttpCloseScripts
<1>2. o.op = "httpClose" BY <1>0, AtDoing DEF HttpClose
<1>3. UNCHANGED <<tmVars, drVars>> /\ OthersAlone /\ call["shell"].pc = "idle"
  BY <1>0, IdleAt DEF HttpClose, At
<1>4. CardSame BY <1>3, DrSame
<1> HIDE DEF o, n
<1>5. /\ n.op \in {"taskDelete", "setRunning"} /\ \A d : ~Removing(n, d)
  <2>1. CASE n = TaskDelete("HTTP", "ASYNC_MODE") BY <2>1 DEF TaskDelete, Removing
  <2>2. CASE n = SetRunning(FALSE) BY <2>2 DEF SetRunning, Removing
  <2> QED BY <1>1, <2>1, <2>2
<1>6. \A d : ~Removing(o, d) BY <1>2, RemovingIs
<1>7. Doing("device")' = Doing("device") /\ Doing("wifi")' = Doing("wifi") BY <1>1, Members
<1>8. Balance'
  <2>1. o.op # "receiveList" /\ n.op # "receiveList" BY <1>2, <1>5
  <2> QED BY <1>3, <1>7, <2>1, BalanceShell DEF OthersAlone, o, n
<1>9. WlanInv'
  <2>1. UNCHANGED <<wlanUp, wlanInitialised, linkUp>> BY <1>3 DEF OthersAlone, wlVars
  <2> QED BY <1>1, <1>2, <1>3, <1>4, <1>5, <1>7, <2>1, ShellWlan DEF o, n, CardSame
<1> QED BY <1>1, <1>2, <1>3, <1>4, <1>5, <1>6, <1>8, <1>9, ShellStays DEF o, n

LEMMA CloseClears ==
  ASSUME PfInv, NEW v \in {"hSdio", "hSdc"},
         IF hdl[v] = NULL THEN UNCHANGED drVars ELSE DevClose(v, TRUE)
  PROVE  LET d == DeviceOf(v) IN
         /\ UNCHANGED <<registered, devOp>>
         /\ hdl' = [hdl EXCEPT ![v] = NULL]
         /\ \A e \in Devices : e # d => Cnt'[e] = Cnt[e]
         /\ Cnt'[d] = IF hdl[v] = NULL \/ Cnt[d] = 0 THEN Cnt[d] ELSE Cnt[d] - 1
         /\ Cnt[d] \in Nat
<1>1. /\ Cnt \in [Devices -> Nat] /\ hdl \in [Handles -> Devices \cup {NULL}]
  BY DEF PfInv, DRInv, DRTypeOK
<1>2. v \in Handles /\ DeviceOf(v) \in Devices BY CardDevices
<1>3. CASE hdl[v] = NULL BY <1>1, <1>2, <1>3 DEF drVars
<1>4. CASE hdl[v] # NULL
  <2>1. hdl[v] = DeviceOf(v) BY <1>2, <1>4 DEF PfInv, HandlesOK
  <2>2. DevClose(v, TRUE) BY <1>4
  <2>3. Cnt' = [Cnt EXCEPT ![DeviceOf(v)] = IF @ > 0 THEN @ - 1 ELSE @]
    BY <2>1, <2>2 DEF DevClose
  <2>4. Cnt[DeviceOf(v)] \in Nat BY <1>1, <1>2
  <2> QED BY <1>1, <1>2, <1>4, <2>2, <2>3, <2>4 DEF DevClose
<1> QED BY <1>3, <1>4

LEMMA ShellCloses ==
  ASSUME Full, CallClose("shell")
  PROVE  cause' = {} /\ RunInv'
<1> DEFINE o == Doing("shell")  n == Doing("shell")'  v == Doing("shell").var
<1>0. PfInv /\ DRTypeOK /\ HandlesOK /\ At("shell", "close") /\ Done("shell")
  BY FullHas DEF PfInv, DRInv, CallClose
<1>1. /\ Scripts' /\ o \in ShellOps /\ o.op = "close" /\ Now("shell") = o
      /\ call["shell"].pc = "idle" /\ n = FollowShell(o)
      /\ \A q \in All \ {"shell"} : Doing(q)' = Doing(q)
      /\ Doing("device")' = Doing("device") /\ Doing("wifi")' = Doing("wifi")
  BY <1>0, ShellStep
<1>2. /\ UNCHANGED tmVars /\ UNCHANGED <<DeviceAskQueue, DeviceRespQueue>>
      /\ UNCHANGED <<wlanUp, wlanInitialised, linkUp>>
  BY DEF CallClose, OthersAlone, wlVars
<1>3. v \in {"hFifo", "hSdio", "hSdc", "hDma"} /\ o.clear = TRUE BY <1>1, ShellHas
<1>4. IF hdl[v] = NULL THEN UNCHANGED drVars ELSE DevClose(v, TRUE)
  BY <1>1, <1>3 DEF CallClose
<1> HIDE DEF o, n, v
<1>5. n.op # "receiveList" /\ n.op # "taskCreate" /\ \A d : ~Removing(n, d)
  BY <1>1, ShellFollows
<1>6. \A d : ~Removing(o, d) BY <1>1, RemovingIs
<1>7. Balance' BY <1>1, <1>2, <1>5, BalanceShell DEF o, n
<1>8. CASE v \in {"hFifo", "hDma"}
  <2>1. UNCHANGED drVars \/ DevClose(v, TRUE) BY <1>4
  <2>2. CardSame BY <1>0, <1>8, <2>1, CloseOther DEF OtherVars
  <2> QED BY <1>0, <1>2, <1>7, <1>8, <2>2, ShellEasy DEF v
<1>9. CASE v \in {"hSdio", "hSdc"}
  <2>1. /\ UNCHANGED <<registered, devOp>>
        /\ hdl' = [hdl EXCEPT ![v] = NULL]
        /\ \A e \in Devices : e # DeviceOf(v) => Cnt'[e] = Cnt[e]
        /\ Cnt'[DeviceOf(v)] = IF hdl[v] = NULL \/ Cnt[DeviceOf(v)] = 0
                               THEN Cnt[DeviceOf(v)] ELSE Cnt[DeviceOf(v)] - 1
        /\ Cnt[DeviceOf(v)] \in Nat
    BY <1>0, <1>4, <1>9, CloseClears
  <2>2. hdl \in [Handles -> Devices \cup {NULL}] BY <1>0 DEF DRTypeOK
  <2>3. \/ v = "hSdio" /\ Stage(o) = 2 /\ Stage(n) = 3
        \/ v = "hSdc" /\ Stage(o) = 4 /\ Stage(n) = 5
    <3>1. CASE v = "hSdio" BY <1>1, <3>1, ShellFollows DEF v, o
    <3>2. CASE v = "hSdc" BY <1>1, <3>2, ShellFollows DEF v, o
    <3> QED BY <1>9, <3>1, <3>2
  <2>4. /\ Stage(o) > 0 /\ ~(Stage(o) < 2) /\ Stage(n) >= 2 /\ ~(Stage(n) < 2)
        /\ Stage(n) \in 2 .. 6
    BY <2>3
  <2>5. WifiInv'
    <3>1. n.op # "closeOver"
      <4>1. n.op = "closeOver" => Stage(n) = 8 BY DEF Stage
      <4> QED BY <2>3, <4>1
    <3> QED BY <1>1, <1>2, <1>5, <2>4, <3>1, FullHas, KeepWifi DEF o, n
  <2>6. DevOpInv' BY <1>1, <1>5, <1>6, <2>1, FullHas, KeepDevOp DEF o, n
  <2>7. IrqInv'
    <3>1. n.op # "deleted" BY <1>5 DEF Removing
    <3> QED BY <1>1, <1>2, <1>6, <2>1, <3>1, FullHas, KeepIrq DEF o, n, IrqInv
  <2>8. CardInv'
    <3>0. /\ hdl'[v] = NULL /\ \A w \in Handles : w # v => hdl'[w] = hdl[w]
      BY <1>9, <2>1, <2>2, CardDevices
    <3>1. CASE v = "hSdio"
      <4>1. /\ Cnt'["SDC"] = Cnt["SDC"] /\ hdl'["hSdc"] = hdl["hSdc"] /\ hdl'["hSdio"] = NULL
            /\ Cnt'["SDIO"] = 0 /\ "SDIO" \in registered
        BY <2>1, <2>3, <3>0, <3>1, CardDevices, FullHas DEF CardInv, o
      <4>2. "SDC" \in registered BY <2>3, <3>1, FullHas DEF CardInv, o
      <4>3. Stage(n) = 3 BY <2>3, <3>1
      <4>4. 3 \in 2 .. 3 /\ 3 \notin 4 .. 7 /\ 3 \notin 5 .. 7 /\ 3 \notin 6 .. 7 /\ 0 <= 1 OBVIOUS
      <4> QED BY <1>1, <2>1, <4>1, <4>2, <4>3, <4>4, FullHas DEF CardInv, n
    <3>2. CASE v = "hSdc"
      <4>1. /\ Cnt'["SDIO"] = Cnt["SDIO"] /\ hdl'["hSdio"] = hdl["hSdio"] /\ hdl'["hSdc"] = NULL
            /\ Cnt'["SDC"] = 0 /\ "SDIO" \notin registered /\ hdl["hSdio"] = NULL
        BY <2>1, <2>3, <3>0, <3>2, CardDevices, FullHas DEF CardInv, o
      <4>2. "SDC" \in registered BY <2>3, <3>2, FullHas DEF CardInv, o
      <4>3. Stage(n) = 5 BY <2>3, <3>2
      <4>4. 5 \notin 2 .. 3 /\ 5 \in 4 .. 7 /\ 5 \notin 6 .. 7 /\ 0 <= 1 OBVIOUS
      <4>5. ~AtCard(Doing("device"))
        <5>1. ~AtList(Doing("device")) BY <2>4, AtWork DEF o
        <5> QED BY <5>1 DEF AtCard, AtList, Creating
      <4> QED BY <1>1, <2>1, <4>1, <4>2, <4>3, <4>4, <4>5, FullHas DEF CardInv, n
    <3> QED BY <1>9, <3>1, <3>2
  <2>9. n.op # "answer"
    <3>1. o.op = "close" /\ o.var \in {"hSdio", "hSdc"} BY <1>1, <1>9 DEF v, o
    <3> QED BY <1>1, <3>1 DEF FollowShell, Delete
  <2>10. WlanInv'
    <3>1. ~wlanInitialised /\ ~linkUp /\ Doing("wifi").op \in {"nothing", "dormant"}
      BY <2>4, FullHas DEF WlanInv, WifiInv, o
    <3>2. ~OnBus(Doing("wifi")) BY <3>1 DEF OnBus
    <3>3. hdl'["hSdio"] # NULL => hdl["hSdio"] # NULL
      BY <1>9, <2>1, <2>2, CardDevices
    <3>4. hdl["hSdio"] # NULL => Doing("wifi").op = "nothing" BY <3>2, FullHas DEF WlanInv
    <3> QED BY <1>1, <1>2, <2>4, <2>9, <3>1, <3>2, <3>3, <3>4, FullHas DEF WlanInv, n, o
  <2> QED BY <1>1, <1>2, <1>7, <2>5, <2>6, <2>7, <2>8, <2>10, ShellMoves DEF o
<1> QED BY <1>3, <1>8, <1>9

LEMMA RemovesIs ==
  /\ LET n == Deleted("SDC") IN
       /\ n.op = "deleted" /\ n.dev = "SDC" /\ Stage(n) = 6 /\ \A e : Removing(n, e) <=> e = "SDC"
  /\ LET n == TaskDelete("SDIO_IRQ_TASK", "SYNC_MODE") IN
       /\ n.op = "taskDelete" /\ Stage(n) = 4 /\ \A e : Removing(n, e) <=> e = "SDIO"
BY DEF Deleted, TaskDelete, Stage, Removing

LEMMA DeleteIs ==
  ASSUME NEW o, o.op = "delete"
  PROVE  /\ o.dev = "SDIO" => Stage(o) = 3
         /\ o.dev = "SDC" => Stage(o) = 5
         /\ \A d : ~Removing(o, d)
BY DEF Stage, Removing

LEMMA DeleteRun ==
  ASSUME Full, NEW p \in Procs, CallDelete(p)
  PROVE  cause' = {} /\ RunInv'
<1> DEFINE o == Doing("shell")  n == Doing("shell")'  d == Now(p).dev
<1>0. PfInv /\ Scripts /\ DRTypeOK BY FullHas DEF PfInv, DRInv
<1>1. /\ p = "shell" /\ Scripts' /\ o.op = "delete" /\ o.dev = d /\ d \in {"SDC", "SDIO"}
      /\ \/ DeleteRefused(d) /\ n = Answer("RK_ERROR")
         \/ DeleteBegin("shell", d) /\ d = "SDC" /\ n = Deleted(d)
         \/ DeleteBegin("shell", d) /\ d = "SDIO" /\ n = TaskDelete("SDIO_IRQ_TASK", "SYNC_MODE")
      /\ \A q \in All \ {"shell"} : Doing(q)' = Doing(q)
  BY <1>0, DeleteScripts
<1>2. UNCHANGED tmVars /\ UNCHANGED <<DeviceAskQueue, DeviceRespQueue>>
      /\ call["shell"].pc = "idle" /\ UNCHANGED <<wlanUp, wlanInitialised, linkUp>>
  BY <1>1, IdleAt DEF CallDelete, At, OthersAlone, wlVars
<1>3. Doing("device")' = Doing("device") /\ Doing("wifi")' = Doing("wifi") BY <1>1, Members
<1> HIDE DEF o, n, d
<1>4. /\ d = "SDIO" => Stage(o) = 3
      /\ d = "SDC" => Stage(o) = 5
      /\ Stage(o) > 0 /\ \A e : ~Removing(o, e)
  BY <1>1, DeleteIs
<1>8. ~DeleteRefused(d)
  <2> SUFFICES ASSUME DeleteRefused(d) PROVE FALSE OBVIOUS
  <2>1. d \notin registered \/ Cnt[d] # 0 BY DEF DeleteRefused
  <2>2. CASE d = "SDIO"
    <3>1. Stage(o) = 3 /\ 3 \in 2 .. 3 /\ 3 >= 3 BY <1>4, <2>2
    <3>2. "SDIO" \in registered /\ hdl["hSdio"] = NULL /\ Cnt["SDIO"] = 0
      BY <3>1, FullHas DEF CardInv, o
    <3> QED BY <2>1, <2>2, <3>2
  <2>3. CASE d = "SDC"
    <3>1. Stage(o) = 5 /\ 5 \in 2 .. 5 /\ 5 \in 5 .. 7 BY <1>4, <2>3
    <3>2. "SDC" \in registered /\ hdl["hSdc"] = NULL /\ Cnt["SDC"] = 0
      BY <3>1, FullHas DEF CardInv, o
    <3> QED BY <2>1, <2>3, <3>2
  <2> QED BY <1>1, <2>2, <2>3
<1>5. /\ DeleteBegin("shell", d)
      /\ \/ d = "SDC" /\ n = Deleted("SDC")
         \/ d = "SDIO" /\ n = TaskDelete("SDIO_IRQ_TASK", "SYNC_MODE")
      /\ n.op \in {"deleted", "taskDelete"}
  BY <1>1, <1>8, RemovesIs
<1>6. WifiInv' BY <1>2, <1>3, <1>4, <1>5, FullHas, KeepWifi DEF o, n
<1>7. Balance' BY <1>1, <1>2, <1>3, <1>5, BalanceShell DEF o, n
<1>9. RunInv' /\ cause' = {}
  <2>1. /\ osDeviceReqSem = 1 /\ UNCHANGED <<hdl, Cnt>>
        /\ devOp' = [op |-> "delete", who |-> "shell", dev |-> d]
        /\ registered' = registered \ {d}
    <3>1. DevListHead = BootDevice BY <1>0 DEF PfInv, DRInv, First
    <3> QED BY <1>1, <1>5, <3>1, CardDevices DEF DeleteBegin, RKDeviceUnRegister
  <2>2. /\ \A e \in Devices : ~Creating(Doing("device"), e)
        /\ \A e \in Devices : ~Removing(o, e)
    BY <2>1, NoDevOp DEF o
  <2>3. \A e : Removing(n, e) <=> e = d BY <1>5, RemovesIs
  <2>4. /\ d = "SDIO" => Stage(n) = 4
        /\ d = "SDC" => Stage(n) = 6
    BY <1>5, RemovesIs
  <2>5. DevOpInv' BY <1>3, <2>1, <2>2, <2>3 DEF DevOpInv, n
  <2>6. IrqInv'
    <3>1. "SDIO" \notin registered' /\ RKTaskFind("SDIO_IRQ_TASK") # {} =>
            /\ Creating(Doing("device"), "SDIO") => Creating(Doing("device")', "SDIO")
            /\ d = "SDIO" \/ "SDIO" \notin registered
      BY <1>3, <2>1
    <3>2. ~(n.op = "deleted" /\ n.dev = "SDIO") BY <1>5, RemovesIs
    <3>3. CASE d = "SDIO"
      <4>1. "SDIO" \in registered BY <1>5, <3>3 DEF DeleteBegin
      <4>2. Removing(n, "SDIO") BY <2>3, <3>3
      <4>3. RKTaskFind("SDIO_IRQ_TASK")' = RKTaskFind("SDIO_IRQ_TASK") BY <1>2, SameService
      <4>4. \A b \in Blocks : Creates(b, "device", "SDIO_IRQ_TASK")' => Creates(b, "device", "SDIO_IRQ_TASK")
        BY <1>2, SameService
      <4> QED BY <1>3, <3>2, <4>2, <4>3, <4>4, FullHas DEF IrqInv, n
    <3>4. CASE d = "SDC"
      <4>1. "SDIO" \in registered' <=> "SDIO" \in registered BY <2>1, <3>4
      <4>2. ~Removing(o, "SDIO") BY <1>4
      <4> QED BY <1>2, <1>3, <3>2, <4>1, <4>2, FullHas, KeepIrq DEF IrqInv, n, o
    <3> QED BY <1>1, <3>3, <3>4
  <2>7. CardInv'
    <3>1. CASE d = "SDIO"
      <4>1. Stage(o) = 3 /\ 3 >= 3 /\ 3 \in 2 .. 5 /\ Stage(n) = 4 BY <1>4, <2>4, <3>1
      <4>2. hdl["hSdio"] = NULL /\ "SDC" \in registered BY <4>1, FullHas DEF CardInv, o
      <4>3. "SDIO" \notin registered' /\ "SDC" \in registered' BY <2>1, <3>1, <4>2
      <4>4. 4 \notin 2 .. 3 /\ 4 \notin 5 .. 7 /\ 4 \notin 6 .. 7 OBVIOUS
      <4> QED BY <1>3, <2>1, <4>1, <4>2, <4>3, <4>4, FullHas DEF CardInv, n
    <3>2. CASE d = "SDC"
      <4>1. Stage(o) = 5 /\ 5 >= 3 /\ 5 \in 4 .. 7 /\ 5 \in 5 .. 7 /\ Stage(n) = 6
        BY <1>4, <2>4, <3>2
      <4>2. hdl["hSdio"] = NULL /\ "SDIO" \notin registered /\ hdl["hSdc"] = NULL
        BY <4>1, FullHas DEF CardInv, o
      <4>3. "SDIO" \notin registered' /\ "SDC" \notin registered' BY <2>1, <3>2, <4>2
      <4>4. 6 \notin 2 .. 3 /\ 6 \notin 2 .. 5 OBVIOUS
      <4> QED BY <1>3, <2>1, <4>1, <4>2, <4>3, <4>4, FullHas DEF CardInv, n
    <3> QED BY <1>1, <3>1, <3>2
  <2>8. WlanInv'
    <3>1. /\ Stage(o) \in 3 .. 5 /\ Stage(n) \in 2 .. 6 /\ Stage(n) >= 2 /\ ~(Stage(o) < 2)
      BY <1>1, <1>4, <2>4
    <3>2. ~wlanInitialised BY <3>1, FullHas DEF WlanInv, o
    <3> QED BY <1>2, <1>3, <1>5, <2>1, <3>1, <3>2, FullHas, KeepWlan DEF o, n
  <2> QED BY <1>1, <1>2, <1>6, <1>7, <2>5, <2>6, <2>7, <2>8, ShellMoves DEF o
<1> QED BY <1>9

LEMMA DeletedRun ==
  ASSUME Full, NEW p \in Procs, CallDeleted(p)
  PROVE  cause' = {} /\ RunInv'
<1> DEFINE o == Doing("shell")  n == Doing("shell")'
<1>0. PfInv /\ Scripts /\ Ordered /\ p \in All BY FullHas DEF Scripts, All
<1>1. p = "shell"
  <2>1. p \in {"device", "shell", "wifi", "wwd", "player", "http"} BY PlatformAssumption
  <2>2. Doing(p) \in OpsOf(p) /\ Doing(p).op = "deleted" BY <1>0, AtDoing DEF CallDeleted
  <2>3. p # "device" BY <2>2, Members, DeviceHas
  <2>4. p # "wifi" /\ p # "wwd" BY <2>2, Members, OthersHave
  <2>5. p # "player" /\ p # "http" BY <2>2, Members, OthersHave
  <2> QED BY <2>1, <2>3, <2>4, <2>5
<1>2. /\ Scripts' /\ o \in ShellOps /\ o.op = "deleted"
      /\ call["shell"].pc = "idle" /\ n = FollowShell(o)
      /\ \A q \in All \ {"shell"} : Doing(q)' = Doing(q)
      /\ Doing("device")' = Doing("device") /\ Doing("wifi")' = Doing("wifi")
  BY <1>1, ShellStep DEF CallDeleted
<1>3. /\ UNCHANGED tmVars /\ UNCHANGED <<DeviceAskQueue, DeviceRespQueue>>
      /\ devOp' = NULL /\ UNCHANGED <<registered, Cnt, hdl>>
      /\ UNCHANGED <<wlanUp, wlanInitialised, linkUp>>
  BY DEF CallDeleted, OthersAlone, DeleteEnd, wlVars
<1> HIDE DEF o, n
<1>4. o.dev \in {"SDC", "SDIO"} /\ o.dev \in Devices /\ Removing(o, o.dev)
  BY <1>2, ShellHas, CardDevices DEF Removing
<1>5. \A e \in Devices : ~Creating(Doing("device"), e) BY <1>4, NotBoth DEF o
<1>6. /\ Stage(n) = Stage(o) /\ n.op \notin {"deleted", "taskCreate", "closeOver", "receiveList"}
      /\ (n.op = "answer" => n.status = "RK_SUCCESS") /\ \A e : ~Removing(n, e)
  BY <1>2, ShellGoes
<1>7. DevOpInv' BY <1>2, <1>3, <1>5, <1>6 DEF DevOpInv, n
<1>8. IrqInv'
  <2>1. "SDIO" \notin registered => RKTaskFind("SDIO_IRQ_TASK") = {}
    <3>1. CASE o.dev = "SDIO"
      <4>1. \A b \in RKTaskFind("SDIO_IRQ_TASK") : Asks("DELETE", b, "shell")
        BY <1>2, <3>1, FullHas DEF IrqInv, o
      <4>2. \A b : ~Asks("DELETE", b, "shell") BY <1>2, FullHas, Quiet, Names
      <4> QED BY <4>1, <4>2
    <3>2. CASE o.dev = "SDC"
      <4>1. ~Removing(o, "SDIO") BY <1>2, <3>2 DEF Removing
      <4> QED BY <1>5, <4>1, CardDevices, FullHas DEF IrqInv, o
    <3> QED BY <1>4, <3>1, <3>2
  <2> QED BY <1>2, <1>3, <1>6, <2>1, FullHas, KeepIrq DEF IrqInv, n
<1>9. CardInv' BY <1>2, <1>3, <1>6, FullHas, KeepCard DEF CardInv, o, n
<1>10. WifiInv' BY <1>2, <1>3, <1>6, FullHas, KeepWifi DEF o, n
<1>11. Balance' BY <1>2, <1>3, <1>6, BalanceShell DEF o, n
<1>12. WlanInv' BY <1>2, <1>3, <1>6, ShellWlan DEF o, n
<1> QED BY <1>2, <1>3, <1>7, <1>8, <1>9, <1>10, <1>11, <1>12, ShellMoves DEF o

LEMMA CommandRun ==
  ASSUME Full, Command
  PROVE  cause' = {} /\ RunInv'
<1> DEFINE o == Doing("shell")  n == Doing("shell")'
<1>0. PfInv /\ Scripts /\ "shell" \in Procs /\ "shell" \in All BY FullHas, Names, Members
<1>1. /\ Scripts' /\ Ready("shell") /\ o = Nothing
      /\ \/ RKTaskFind("WIFI_APPLICATION") = {} /\ n = TaskCreate("WIFI_APPLICATION")
         \/ n = TaskCreate("DLNA")
         \/ n = Only("httpClose")
         \/ n = Only("askList")
         \/ n = TaskDelete("AUDIOCONTROL", "SYNC_MODE")
      /\ \A q \in All \ {"shell"} : Doing(q)' = Doing(q)
  BY <1>0, CommandScripts
<1>2. /\ UNCHANGED <<tmVars, drVars>> /\ UNCHANGED <<DeviceAskQueue, DeviceRespQueue>>
      /\ call["shell"].pc = "idle" /\ UNCHANGED <<wlanUp, wlanInitialised, linkUp>>
  BY <1>0, <1>1, IdleAt DEF Command, wlVars
<1>3. Doing("device")' = Doing("device") /\ Doing("wifi")' = Doing("wifi") BY <1>1, Members
<1>4. UNCHANGED <<registered, devOp, Cnt, hdl>> /\ UNCHANGED tmVars BY <1>2 DEF drVars
<1> HIDE DEF o, n
<1>5. /\ o.op = "nothing" /\ Stage(o) = 0 /\ \A d : ~Removing(o, d)
  BY <1>1, NoStage DEF Nothing, Removing
<1>6. /\ \A d : ~Removing(n, d)
      /\ n.op \notin {"receiveList", "deleted", "closeOver", "answer"}
      /\ Stage(n) \in {0, 1}
      /\ n.op = "taskCreate" /\ n.id = "WIFI_APPLICATION" => RKTaskFind("WIFI_APPLICATION") = {}
  <2>1. CASE RKTaskFind("WIFI_APPLICATION") = {} /\ n = TaskCreate("WIFI_APPLICATION")
    BY <2>1 DEF TaskCreate, Removing, Stage
  <2>2. CASE n = TaskCreate("DLNA") BY <2>2 DEF TaskCreate, Removing, Stage
  <2>3. CASE n = Only("httpClose") BY <2>3 DEF Only, Removing, Stage
  <2>4. CASE n = Only("askList") BY <2>4 DEF Only, Removing, Stage
  <2>5. CASE n = TaskDelete("AUDIOCONTROL", "SYNC_MODE") BY <2>5 DEF TaskDelete, Removing, Stage
  <2> QED BY <1>1, <2>1, <2>2, <2>3, <2>4, <2>5
<1>7. WifiInv'
  <2>1. RKTaskFind("WIFI_APPLICATION")' = RKTaskFind("WIFI_APPLICATION") BY <1>4, SameService
  <2>2. \A b \in Blocks : Creates(b, "shell", "WIFI_APPLICATION")' => Creates(b, "shell", "WIFI_APPLICATION")
    BY <1>4, SameService
  <2>3. ~(Stage(o) >= 2) BY <1>5
  <2>4. Doing("wifi").op \in {"nothing", "dormant"} BY <1>5, <2>3, FullHas DEF WlanInv, o
  <2> QED BY <1>3, <1>6, <2>1, <2>2, <2>3, <2>4, FullHas DEF WifiInv, n
<1>8. DevOpInv' BY <1>3, <1>4, <1>5, <1>6, FullHas, KeepDevOp DEF o, n
<1>9. IrqInv' BY <1>3, <1>4, <1>5, <1>6, FullHas, KeepIrq DEF IrqInv, o, n
<1>10. CardInv'
  <2>1. NoMore(Stage(o), Stage(n)) BY <1>6 DEF NoMore
  <2> QED BY <1>3, <1>4, <2>1, FullHas, KeepCard DEF CardInv, o, n
<1>12. WlanInv'
  <2>1. Stage(n) < 2 /\ Stage(o) \notin 2 .. 6 /\ ~(Stage(o) >= 2) /\ o.op # "awaitLink"
    BY <1>5, <1>6
  <2> QED BY <1>2, <1>3, <1>4, <1>6, <2>1, FullHas, KeepWlan DEF o, n
<1>11. Balance' BY <1>2, <1>3, <1>5, <1>6, BalanceShell DEF o, n
<1> QED BY <1>1, <1>2, <1>4, <1>5, <1>7, <1>8, <1>9, <1>10, <1>11, <1>12, ShellMoves DEF o

\* What wifi.delete finds: Wi-Fi is up, or nothing of it is left but the task.
LEMMA DeinitRun ==
  ASSUME Full, Deinit
  PROVE  cause' = {} /\ RunInv'
<1> DEFINE o == Doing("shell")  n == Doing("shell")'
<1>0. PfInv /\ Scripts /\ WlanInv /\ "shell" \in Procs /\ "shell" \in All
  BY FullHas, Names, Members
<1>1. /\ Scripts' /\ Ready("shell") /\ o = Only("deinit")
      /\ n = IF ~wlanInitialised THEN TaskDelete("WIFI_APPLICATION", "SYNC_MODE")
             ELSE IF wlanUp THEN Close("hSdio", TRUE)
             ELSE TaskDelete("TCPIP_THREAD", "SYNC_MODE")
      /\ \A q \in All \ {"shell"} : Doing(q)' = Doing(q)
  BY <1>0, DeinitScripts
<1>2. /\ UNCHANGED <<tmVars, drVars>> /\ UNCHANGED <<DeviceAskQueue, DeviceRespQueue>>
      /\ call["shell"].pc = "idle" /\ wlanUp' = wlanUp /\ wlanInitialised' = FALSE
      /\ linkUp' => linkUp /\ ~wlanInitialised
  <2>1. UNCHANGED <<tmVars, drVars>> /\ UNCHANGED <<DeviceAskQueue, DeviceRespQueue>> BY DEF Deinit
  <2>2. wlanUp' = wlanUp /\ wlanInitialised' = FALSE BY DEF Deinit
  <2>3. CASE wlanInitialised
    <3>1. linkUp' = FALSE BY <2>3 DEF Deinit
    <3> QED BY <1>0, <1>1, <2>1, <2>2, <2>3, <3>1, IdleAt
  <2>4. CASE ~wlanInitialised
    <3>1. linkUp' = linkUp BY <2>4 DEF Deinit
    <3>2. ~linkUp BY <1>0, <2>4 DEF WlanInv
    <3> QED BY <1>0, <1>1, <2>1, <2>2, <2>4, <3>1, <3>2, IdleAt
  <2> QED BY <2>3, <2>4
<1>3. Doing("device")' = Doing("device") /\ Doing("wifi")' = Doing("wifi") BY <1>1, Members
<1>4. UNCHANGED <<registered, devOp, Cnt, hdl>> /\ UNCHANGED tmVars BY <1>2 DEF drVars
<1> HIDE DEF o, n
<1>5. o.op = "deinit" /\ Stage(o) = 1 /\ \A d : ~Removing(o, d)
  BY <1>1 DEF Only, Stage, Removing
<1>6. Doing("wifi").op \in {"nothing", "dormant"} BY <1>5, FullHas DEF WifiInv, o
<1>7. ~OnBus(Doing("wifi")) /\ Doing("wifi").op # "join" BY <1>6 DEF OnBus
<1>8. ~(1 >= 2) /\ 1 \notin 2 .. 6 /\ 1 > 0 OBVIOUS
<1>9. \/ /\ wlanInitialised /\ wlanUp /\ hdl["hSdio"] # NULL
         /\ n.op = "close" /\ Stage(n) = 2 /\ \A d : ~Removing(n, d)
      \/ /\ ~wlanInitialised /\ ~wlanUp /\ ~linkUp /\ hdl["hSdio"] = NULL
         /\ Doing("wifi").op = "dormant"
         /\ n.op = "taskDelete" /\ Stage(n) = 8 /\ \A d : ~Removing(n, d)
  <2>1. CASE wlanInitialised
    <3>1. wlanUp /\ hdl["hSdio"] # NULL BY <1>0, <2>1 DEF WlanInv
    <3>2. n = Close("hSdio", TRUE) BY <1>1, <2>1, <3>1
    <3>3. n.op = "close" /\ Stage(n) = 2 /\ \A d : ~Removing(n, d)
      BY <3>2 DEF Close, Stage, Removing
    <3> QED BY <2>1, <3>1, <3>3
  <2>2. CASE ~wlanInitialised
    <3>1. ~wlanUp /\ ~linkUp /\ Doing("wifi").op = "dormant"
      BY <1>0, <1>5, <1>7, <1>8, <2>2 DEF WlanInv, o
    <3>2. hdl["hSdio"] = NULL BY <1>0, <1>7, <3>1 DEF WlanInv
    <3>3. n = TaskDelete("WIFI_APPLICATION", "SYNC_MODE") BY <1>1, <2>2
    <3>4. n.op = "taskDelete" /\ Stage(n) = 8 /\ \A d : ~Removing(n, d)
      BY <3>3 DEF TaskDelete, Stage, Removing
    <3> QED BY <2>2, <3>1, <3>2, <3>4
  <2> QED BY <2>1, <2>2
<1>10. n.op \in {"close", "taskDelete"} /\ \A d : ~Removing(n, d) BY <1>9
<1>11. WifiInv'
  <2>1. Stage(o) > 0 BY <1>5
  <2> QED BY <1>3, <1>4, <1>10, <2>1, FullHas, KeepWifi DEF o, n
<1>12. DevOpInv' BY <1>3, <1>4, <1>5, <1>10, FullHas, KeepDevOp DEF o, n
<1>13. IrqInv' BY <1>3, <1>4, <1>5, <1>10, FullHas, KeepIrq DEF IrqInv, o, n
<1>14. CardInv'
  <2>1. CASE wlanInitialised
    <3>1. Stage(n) = 2 /\ "SDIO" \in registered BY <1>0, <1>9, <2>1, HeldRegistered
    <3>2. hdl["hSdc"] # NULL BY <3>1, FullHas DEF CardInv
    <3>3. "SDC" \in registered BY <1>0, <3>2, HeldRegistered
    <3>4. ~(2 >= 3) /\ 2 \notin 4 .. 7 /\ 2 \notin 5 .. 7 /\ 2 \notin 6 .. 7 OBVIOUS
    <3> QED BY <1>3, <1>4, <3>1, <3>3, <3>4, FullHas DEF CardInv, n
  <2>2. CASE ~wlanInitialised
    <3>1. Stage(n) = 8 /\ hdl["hSdio"] = NULL BY <1>9, <2>2
    <3>2. 8 \notin 2 .. 3 /\ 8 \notin 2 .. 5 /\ 8 \notin 4 .. 7 /\ 8 \notin 5 .. 7 /\ 8 \notin 6 .. 7
      OBVIOUS
    <3> QED BY <1>3, <1>4, <3>1, <3>2, FullHas DEF CardInv, n
  <2> QED BY <2>1, <2>2
<1>15. WlanInv'
  <2>1. 2 \in 2 .. 6 /\ 2 >= 2 /\ 8 >= 2 OBVIOUS
  <2>2. hdl["hSdio"] # NULL => Doing("wifi").op = "nothing" BY <1>0, <1>7 DEF WlanInv
  <2>3. Stage(n) >= 2 /\ (wlanUp => Stage(n) \in 2 .. 6) /\ ~linkUp' BY <1>2, <1>9, <2>1
  <2> QED BY <1>2, <1>3, <1>4, <1>7, <1>10, <2>2, <2>3 DEF WlanInv, n
<1>16. Balance' BY <1>2, <1>3, <1>5, <1>10, BalanceShell DEF o, n
<1> QED BY <1>1, <1>2, <1>4, <1>5, <1>11, <1>12, <1>13, <1>14, <1>15, <1>16, ShellMoves DEF o

----------------------------------------------------------------------------
(* The Wi-Fi task, until it is initialised.                                *)
LEMMA WifiMoves ==
  ASSUME Full, UNCHANGED tmVars, Scripts', call["wifi"].pc = "idle",
         \A q \in All \ {"wifi"} : Doing(q)' = Doing(q),
         Doing("wifi").op \notin {"nothing", "dormant"}, Doing("wifi")'.op # "dormant",
         UNCHANGED <<registered, devOp>>, WlanInv', CardInv', Balance'
  PROVE  cause' = {} /\ RunInv'
<1>1. Doing("device")' = Doing("device") /\ Doing("shell")' = Doing("shell") /\ "wifi" \in All
  BY Members
<1>2. RKTaskFind("WIFI_APPLICATION") # {} /\ ~(Stage(Doing("shell")) > 0)
  BY FullHas DEF WifiInv
<1>3. WifiInv'
  <2>1. RKTaskFind("WIFI_APPLICATION")' = RKTaskFind("WIFI_APPLICATION") BY SameService
  <2>2. \A b \in Blocks : Creates(b, "shell", "WIFI_APPLICATION")' => Creates(b, "shell", "WIFI_APPLICATION")
    BY SameService
  <2>3. \A b : Asks("DELETE", b, "shell")' <=> Asks("DELETE", b, "shell") BY SameService
  <2> QED BY <1>1, <1>2, <2>1, <2>2, <2>3, FullHas DEF WifiInv
<1>4. BootInv' BY <1>1, FullHas, KeepBoot
<1>5. DevOpInv' BY <1>1, FullHas, KeepDevOp
<1>6. IrqInv' BY <1>1, FullHas, KeepIrq DEF IrqInv
<1> QED BY <1>1, <1>3, <1>4, <1>5, <1>6, RunFrom

\* While the Wi-Fi task is on its way nobody deletes it.
LEMMA WifiBusy ==
  ASSUME Full, Doing("wifi").op \notin {"nothing", "dormant"}
  PROVE  /\ ~(Stage(Doing("shell")) > 0) /\ Stage(Doing("shell")) = 0
         /\ ~wlanInitialised /\ ~linkUp
         /\ Doing("wifi").op # "join" => ~wlanUp
<1>1. ~(Stage(Doing("shell")) > 0) BY FullHas DEF WifiInv
<1>2. Stage(Doing("shell")) = 0 BY <1>1, StageRange
<1>3. 0 \notin 2 .. 6 OBVIOUS
<1> QED BY <1>1, <1>2, <1>3, FullHas DEF WlanInv

\* A step on which nothing of the registry and of the bus changes.
LEMMA WifiGoes ==
  ASSUME Full, UNCHANGED <<tmVars, drVars>>, UNCHANGED <<wlanUp, wlanInitialised, linkUp>>,
         Scripts', call["wifi"].pc = "idle", \A q \in All \ {"wifi"} : Doing(q)' = Doing(q),
         Doing("wifi").op \notin {"nothing", "dormant", "join"},
         Doing("wifi")'.op \notin {"dormant", "join"},
         OnBus(Doing("wifi")') => OnBus(Doing("wifi")),
         OnBus(Doing("wifi")) => OnBus(Doing("wifi")') \/ Doing("wifi")'.op = "nothing",
         Balance'
  PROVE  cause' = {} /\ RunInv'
<1> DEFINE o == Doing("wifi")  n == Doing("wifi")'
<1>1. Doing("device")' = Doing("device") /\ Doing("shell")' = Doing("shell") BY Members
<1>2. UNCHANGED <<registered, devOp, Cnt, hdl>> /\ UNCHANGED tmVars BY DEF drVars
<1>3. ~wlanInitialised /\ ~linkUp /\ ~wlanUp BY WifiBusy
<1>4. CardInv' BY <1>1, <1>2, FullHas, KeepCard DEF CardInv
<1> HIDE DEF o, n
<1>5. WlanInv'
  <2>1. OnBus(o) => hdl["hSdio"] # NULL BY FullHas DEF WlanInv, o
  <2>2. hdl["hSdio"] # NULL => OnBus(o) BY FullHas DEF WlanInv, o
  <2>3. OnBus(n) => OnBus(o) BY DEF o, n
  <2>4. OnBus(o) => OnBus(n) \/ n.op = "nothing" BY DEF o, n
  <2>5. n.op # "join" BY DEF n
  <2>6. o.op # "dormant" BY DEF o
  <2> QED BY <1>1, <1>2, <1>3, <2>1, <2>2, <2>3, <2>4, <2>5, <2>6, FullHas DEF WlanInv, o, n
<1> QED BY <1>2, <1>4, <1>5, WifiMoves

LEMMA WifiStep ==
  ASSUME Full, NEW name, At("wifi", name), Done("wifi")
  PROVE  /\ Scripts' /\ Doing("wifi") \in WifiOps /\ Doing("wifi").op = name
         /\ call["wifi"].pc = "idle" /\ Doing("wifi")' = FollowWifi(Doing("wifi"))
         /\ \A q \in All \ {"wifi"} : Doing(q)' = Doing(q)
<1>0. PfInv /\ Scripts /\ "wifi" \in All /\ "wifi" \in Procs /\ "wifi" \in Scripted
  BY FullHas, Members DEF Scripted
<1>1. /\ Scripts' /\ Doing("wifi") \in WifiOps /\ Doing("wifi").op = name /\ Ready("wifi")
      /\ Doing("wifi")' = FollowWifi(Doing("wifi"))
      /\ \A q \in All \ {"wifi"} : Doing(q)' = Doing(q)
  BY <1>0, StepScripts, Members DEF Follow
<1> QED BY <1>0, <1>1, IdleAt

LEMMA WifiTalks ==
  ASSUME Full, AskList("wifi") \/ ReceiveList("wifi")
  PROVE  cause' = {} /\ RunInv'
<1> DEFINE o == Doing("wifi")  n == Doing("wifi")'
<1>0. /\ PfInv /\ Scripts /\ "wifi" \in Procs /\ "wifi" \in All /\ "wifi" \in Scripted
      /\ Balance
  BY FullHas, Members DEF Scripted
<1>1. UNCHANGED <<tmVars, drVars>> BY DEF AskList, ReceiveList
<1>2. UNCHANGED <<registered, devOp, Cnt, hdl>> /\ UNCHANGED tmVars BY <1>1 DEF drVars
<1>3. /\ Scripts' /\ o \in WifiOps /\ o.op \in {"askList", "receiveList"}
      /\ call["wifi"].pc = "idle" /\ n = FollowWifi(o)
      /\ (AskList("wifi") => o.op = "askList") /\ (ReceiveList("wifi") => o.op = "receiveList")
      /\ \A q \in All \ {"wifi"} : Doing(q)' = Doing(q)
  <2>1. PICK name \in {"askList", "receiveList"} :
          /\ At("wifi", name) /\ Done("wifi")
          /\ (AskList("wifi") => name = "askList") /\ (ReceiveList("wifi") => name = "receiveList")
    <3>1. ~(AskList("wifi") /\ ReceiveList("wifi")) BY DEF AskList, ReceiveList, At
    <3>2. AskList("wifi") => At("wifi", "askList") /\ Done("wifi") BY DEF AskList
    <3>3. ReceiveList("wifi") => At("wifi", "receiveList") /\ Done("wifi") BY DEF ReceiveList
    <3> QED BY <3>1, <3>2, <3>3
  <2> QED BY <2>1, WifiStep
<1>4. Doing("device")' = Doing("device") /\ Doing("shell")' = Doing("shell") BY <1>3, Members
<1> HIDE DEF o, n
<1>5. /\ UNCHANGED <<wlanUp, wlanInitialised, linkUp>>
      /\ n.op \in {"receiveList", "open"} /\ ~OnBus(n) /\ ~OnBus(o)
  <2>1. UNCHANGED <<wlanUp, wlanInitialised, linkUp>> BY DEF AskList, ReceiveList, wlVars
  <2>2. n.op \in {"receiveList", "open"} BY <1>3, WifiFollows
  <2>3. ~OnBus(n) BY <2>2 DEF OnBus
  <2>4. ~OnBus(o) BY <1>3 DEF OnBus
  <2> QED BY <2>1, <2>2, <2>3, <2>4
<1>7. Balance'
  <2>1. CASE AskList("wifi")
    <3>1. /\ DeviceAskQueue = FALSE /\ DeviceAskQueue' = TRUE /\ DeviceRespQueue' = DeviceRespQueue
      BY <2>1, FullHas DEF AskList, PfInv, QueuesOK
    <3>2. o.op = "askList" /\ n.op = "receiveList" BY <1>3, <2>1, WifiFollows
    <3> QED BY <1>0, <1>4, <3>1, <3>2 DEF Balance, Waits, Asked, Answered, Working, Wait, o, n
  <2>2. CASE ReceiveList("wifi")
    <3>1. /\ DeviceAskQueue' = DeviceAskQueue /\ DeviceRespQueue # NULL /\ DeviceRespQueue' = NULL
      BY <2>2 DEF ReceiveList
    <3>2. o.op = "receiveList" /\ n.op = "open" BY <1>3, <2>2, WifiFollows
    <3> QED BY <1>0, <1>4, <3>1, <3>2 DEF Balance, Waits, Asked, Answered, Working, Wait, o, n
  <2> QED BY <2>1, <2>2
<1> QED BY <1>1, <1>3, <1>5, <1>7, WifiGoes DEF o, n

LEMMA WifiOpens ==
  ASSUME Full, CallOpen("wifi")
  PROVE  cause' = {} /\ RunInv'
<1> DEFINE o == Doing("wifi")  n == Doing("wifi")'
<1>0. PfInv /\ Scripts /\ DRTypeOK /\ "wifi" \in Procs /\ "wifi" \in All
  BY FullHas, Members DEF PfInv, DRInv, Scripted
<1>1. /\ Scripts' /\ Now("wifi") = o /\ o = Open("hSdio", "again")
      /\ n = IF "SDIO" \in registered THEN Only("busInit") ELSE o
      /\ \A q \in All \ {"wifi"} : Doing(q)' = Doing(q)
  BY <1>0, OpenScripts
<1>2. o.op = "open" /\ o.var = "hSdio" /\ o.op # "receiveList" BY <1>1 DEF Open
<1>3. /\ UNCHANGED tmVars /\ UNCHANGED <<DeviceAskQueue, DeviceRespQueue>>
      /\ call["wifi"].pc = "idle" /\ DevOpen("SDIO", "hSdio")
      /\ UNCHANGED <<wlanUp, wlanInitialised, linkUp>>
  BY <1>0, <1>1, <1>2, IdleAt, CardDevices DEF CallOpen, At, OthersAlone, wlVars
<1>4. Doing("device")' = Doing("device") /\ Doing("shell")' = Doing("shell") BY <1>1, Members
<1> HIDE DEF o, n
<1>5. /\ n.op \in {"busInit", "open"}
      /\ "SDIO" \in registered <=> n.op = "busInit"
  BY <1>1, <1>2 DEF Only
<1>6. Balance'
  BY <1>2, <1>3, <1>4, <1>5, FullHas DEF Balance, Waits, Asked, Answered, Working, Wait, o, n
<1>7. UNCHANGED <<registered, devOp>> BY <1>3 DEF DevOpen
<1>8. hdl["hSdio"] = NULL /\ Cnt["SDIO"] = 0 /\ Stage(Doing("shell")) = 0
  <2>1. Stage(Doing("shell")) = 0 BY <1>2, WifiBusy DEF o
  <2>2. ~OnBus(o) /\ o.op # "nothing" BY <1>2 DEF OnBus
  <2>3. hdl["hSdio"] = NULL BY <2>2, FullHas DEF WlanInv, o
  <2> QED BY <2>1, <2>3, FullHas DEF CardInv
<1>9. Cnt \in [Devices -> Nat] /\ hdl \in [Handles -> Devices \cup {NULL}] BY <1>0 DEF DRTypeOK
<1>10. WlanInv'
  <2>1. ~wlanInitialised /\ ~linkUp /\ ~wlanUp BY <1>2, WifiBusy DEF o
  <2>2. OnBus(n) <=> "SDIO" \in registered BY <1>5 DEF OnBus
  <2>3. hdl'["hSdio"] # NULL <=> "SDIO" \in registered
    <3>1. CASE "SDIO" \in registered
      <4>1. hdl'["hSdio"] = "SDIO" BY <1>3, <1>9, <3>1, CardDevices DEF DevOpen
      <4> QED BY <3>1, <4>1, CardDevices, DeviceAssumption
    <3>2. CASE "SDIO" \notin registered
      BY <1>3, <1>9, <3>2, CardDevices DEF DevOpen
    <3> QED BY <3>1, <3>2
  <2>4. o.op # "dormant" /\ n.op # "join" BY <1>2, <1>5
  <2> QED BY <1>3, <1>4, <2>1, <2>2, <2>3, <2>4, FullHas DEF WlanInv, o, n
<1>11. CardInv'
  <2>1. /\ Cnt'["SDC"] = Cnt["SDC"] /\ hdl'["hSdc"] = hdl["hSdc"]
    BY <1>3, <1>9, CardDevices DEF DevOpen
  <2>2. Cnt'["SDIO"] <= 1 /\ (hdl'["hSdio"] = NULL => Cnt'["SDIO"] = 0)
    <3>1. CASE "SDIO" \in registered
      <4>1. Cnt'["SDIO"] = 1 /\ hdl'["hSdio"] = "SDIO"
        BY <1>3, <1>8, <1>9, <3>1, CardDevices DEF DevOpen
      <4> QED BY <4>1, CardDevices, DeviceAssumption
    <3>2. CASE "SDIO" \notin registered
      BY <1>3, <1>8, <3>2, CardDevices DEF DevOpen
    <3> QED BY <3>1, <3>2
  <2>3. NoCard(0) BY DEF NoCard
  <2> QED BY <1>4, <1>7, <1>8, <2>1, <2>2, <2>3, FullHas DEF CardInv, NoCard
<1>12. n.op # "dormant" /\ o.op \notin {"nothing", "dormant"} BY <1>2, <1>5
<1> QED BY <1>1, <1>3, <1>6, <1>7, <1>10, <1>11, <1>12, WifiMoves DEF o, n

LEMMA BalanceWifi ==
  ASSUME Full, UNCHANGED <<DeviceAskQueue, DeviceRespQueue>>,
         Doing("device")' = Doing("device"), Doing("shell")' = Doing("shell"),
         Doing("wifi").op # "receiveList", Doing("wifi")'.op # "receiveList"
  PROVE  Balance'
BY FullHas DEF Balance, Waits, Asked, Answered, Working, Wait

\* wwd_management_wifi_on, when the state is WLAN_DOWN, as it always is then.
LEMMA WifiOnRun ==
  ASSUME Full, WifiOn
  PROVE  cause' = {} /\ RunInv'
<1> DEFINE o == Doing("wifi")  n == Doing("wifi")'
<1>0. PfInv /\ Scripts /\ "wifi" \in Procs /\ "wifi" \in All BY FullHas, Names, Members
<1>1. /\ Scripts' /\ Ready("wifi") /\ o.op = "wifiOn"
      /\ n = IF wlanUp THEN Only("join") ELSE Only("askList")
      /\ \A q \in All \ {"wifi"} : Doing(q)' = Doing(q)
  BY <1>0, WifiOnScripts
<1>2. /\ UNCHANGED <<tmVars, drVars>> /\ UNCHANGED <<DeviceAskQueue, DeviceRespQueue>>
      /\ UNCHANGED <<wlanUp, wlanInitialised, linkUp>> /\ call["wifi"].pc = "idle"
  BY <1>0, <1>1, IdleAt DEF WifiOn, OthersAlone, wlVars
<1>3. Doing("device")' = Doing("device") /\ Doing("shell")' = Doing("shell") BY <1>1, Members
<1> HIDE DEF o, n
<1>4. ~wlanUp BY <1>1, WifiBusy DEF o
<1>5. n.op = "askList" /\ ~OnBus(n) /\ ~OnBus(o) BY <1>1, <1>4 DEF Only, OnBus
<1>6. Balance' BY <1>1, <1>2, <1>3, <1>5, BalanceWifi DEF o, n
<1> QED BY <1>1, <1>2, <1>5, <1>6, WifiGoes DEF o, n

LEMMA BusInitRun ==
  ASSUME Full, BusInit
  PROVE  cause' = {} /\ RunInv'
<1> DEFINE o == Doing("wifi")  n == Doing("wifi")'
<1>0. PfInv /\ Scripts /\ "wifi" \in Procs /\ "wifi" \in All BY FullHas, Names, Members
<1>1. /\ Scripts' /\ Ready("wifi") /\ o \in WifiOps /\ o.op = "busInit"
      /\ Done("wifi") => n = FollowWifi(o)
      /\ ~Done("wifi") => n = Nothing
      /\ \A q \in All \ {"wifi"} : Doing(q)' = Doing(q)
  BY <1>0, WifiScripts DEF BusInit
<1>2. /\ UNCHANGED <<tmVars, drVars>> /\ UNCHANGED <<DeviceAskQueue, DeviceRespQueue>>
      /\ UNCHANGED <<wlanUp, wlanInitialised, linkUp>> /\ call["wifi"].pc = "idle"
  BY <1>0, <1>1, IdleAt DEF BusInit, OthersAlone, wlVars
<1>3. Doing("device")' = Doing("device") /\ Doing("shell")' = Doing("shell") BY <1>1, Members
<1> HIDE DEF o, n
<1>4. n \in {TaskCreate("WWD"), Nothing} BY <1>1, WifiFollows
<1>5. n.op \in {"taskCreate", "nothing"} /\ (n.op = "taskCreate" => n.id = "WWD")
  BY <1>4 DEF TaskCreate, Nothing
<1>6. OnBus(o) /\ (OnBus(n) \/ n.op = "nothing") BY <1>1, <1>5 DEF OnBus
<1>7. Balance' BY <1>1, <1>2, <1>3, <1>5, BalanceWifi DEF o, n
<1> QED BY <1>1, <1>2, <1>5, <1>6, <1>7, WifiGoes DEF o, n

LEMMA WlanUpRun ==
  ASSUME Full, WlanUp
  PROVE  cause' = {} /\ RunInv'
<1> DEFINE o == Doing("wifi")  n == Doing("wifi")'
<1>0. PfInv /\ Scripts /\ "wifi" \in Procs /\ "wifi" \in All BY FullHas, Names, Members
<1>1. /\ Scripts' /\ Ready("wifi") /\ o \in WifiOps /\ o.op = "wlanUp"
      /\ Done("wifi") => n = FollowWifi(o)
      /\ ~Done("wifi") => n = Nothing
      /\ \A q \in All \ {"wifi"} : Doing(q)' = Doing(q)
  BY <1>0, WifiScripts DEF WlanUp
<1>2. /\ UNCHANGED <<tmVars, drVars>> /\ UNCHANGED <<DeviceAskQueue, DeviceRespQueue>>
      /\ UNCHANGED <<wlanInitialised, linkUp>> /\ call["wifi"].pc = "idle"
  BY <1>0, <1>1, IdleAt DEF WlanUp
<1>3. Doing("device")' = Doing("device") /\ Doing("shell")' = Doing("shell") BY <1>1, Members
<1>4. \/ wlanUp' = TRUE /\ Done("wifi")
      \/ todo' = [todo EXCEPT !["wifi"] = <<>>] /\ UNCHANGED wlanUp
  BY DEF WlanUp
<1>5. \/ wlanUp' = TRUE /\ n = Only("join")
      \/ n = Nothing /\ UNCHANGED wlanUp
  <2>1. CASE wlanUp' = TRUE /\ Done("wifi") BY <1>1, <2>1, WifiFollows
  <2>2. CASE todo' = [todo EXCEPT !["wifi"] = <<>>] /\ UNCHANGED wlanUp
    <3>1. n = Nothing
      <4>1. TodoOK /\ "wifi" \in All BY <1>0 DEF PfInv
      <4>2. n = First1(<<>>) BY <2>2, <4>1, OthersDoing
      <4> QED BY <4>2 DEF First1
    <3> QED BY <2>2, <3>1
  <2> QED BY <1>4, <2>1, <2>2
<1> HIDE DEF o, n
<1>6. \/ wlanUp' = TRUE /\ n.op = "join" /\ OnBus(n)
      \/ n.op = "nothing" /\ ~OnBus(n) /\ UNCHANGED wlanUp
  BY <1>5 DEF Only, Nothing, OnBus
<1>7. OnBus(o) /\ o.op \notin {"nothing", "dormant", "join"} BY <1>1 DEF OnBus
<1>8. ~wlanInitialised /\ ~linkUp /\ ~wlanUp BY <1>7, WifiBusy DEF o
<1>9. UNCHANGED <<registered, devOp, Cnt, hdl>> /\ UNCHANGED tmVars BY <1>2 DEF drVars
<1>10. WlanInv'
  <2>1. hdl["hSdio"] # NULL BY <1>7, FullHas DEF WlanInv, o
  <2>2. CASE wlanUp' = TRUE /\ n.op = "join" /\ OnBus(n)
    BY <1>2, <1>3, <1>7, <1>8, <1>9, <2>1, <2>2, FullHas DEF WlanInv, o, n
  <2>3. CASE n.op = "nothing" /\ ~OnBus(n) /\ UNCHANGED wlanUp
    BY <1>2, <1>3, <1>7, <1>8, <1>9, <2>1, <2>3, FullHas DEF WlanInv, o, n
  <2> QED BY <1>6, <2>2, <2>3
<1>11. CardInv' BY <1>3, <1>9, FullHas, KeepCard DEF CardInv
<1>12. n.op \notin {"receiveList", "dormant"} BY <1>6
<1>13. Balance' BY <1>1, <1>2, <1>3, <1>12, BalanceWifi DEF o, n
<1> QED BY <1>1, <1>2, <1>7, <1>9, <1>10, <1>11, <1>12, <1>13, WifiMoves DEF o, n

LEMMA JoinRun ==
  ASSUME Full, Join
  PROVE  cause' = {} /\ RunInv'
<1> DEFINE o == Doing("wifi")  n == Doing("wifi")'
<1>1. At("wifi", "join") /\ Done("wifi") BY DEF Join
<1>2. /\ Scripts' /\ o \in WifiOps /\ o.op = "join" /\ call["wifi"].pc = "idle"
      /\ n = FollowWifi(o) /\ \A q \in All \ {"wifi"} : Doing(q)' = Doing(q)
  BY <1>1, WifiStep
<1>3. /\ UNCHANGED <<tmVars, drVars>> /\ UNCHANGED <<DeviceAskQueue, DeviceRespQueue>>
      /\ wlanUp' = wlanUp /\ wlanInitialised' = TRUE
  BY DEF Join
<1>4. Doing("device")' = Doing("device") /\ Doing("shell")' = Doing("shell") BY <1>2, Members
<1>5. UNCHANGED <<registered, devOp, Cnt, hdl>> /\ UNCHANGED tmVars BY <1>3 DEF drVars
<1> HIDE DEF o, n
<1>6. n = Nothing BY <1>2, WifiFollows
<1>7. n.op = "nothing" BY <1>6 DEF Nothing
<1>8. OnBus(o) BY <1>2 DEF OnBus
<1>9. wlanUp /\ hdl["hSdio"] # NULL BY <1>2, <1>8, FullHas DEF WlanInv, o
<1>10. Stage(Doing("shell")) = 0 /\ 0 < 2 BY <1>2, WifiBusy DEF o
<1>11. ~OnBus(n) BY <1>7 DEF OnBus
<1>12. WlanInv' BY <1>3, <1>4, <1>5, <1>7, <1>9, <1>10, <1>11, FullHas DEF WlanInv, n
<1>13. CardInv' BY <1>4, <1>5, FullHas, KeepCard DEF CardInv
<1>14. Balance' BY <1>2, <1>3, <1>4, <1>7, BalanceWifi DEF o, n
<1> QED BY <1>2, <1>5, <1>7, <1>12, <1>13, <1>14, WifiMoves DEF o, n

----------------------------------------------------------------------------
(* Who takes which step, and the steps of the others.                      *)
LEMMA Who ==
  ASSUME Full, NEW p \in All, NEW name, At(p, name)
  PROVE  /\ Doing(p) \in OpsOf(p) /\ Doing(p).op = name /\ Now(p) = Doing(p)
         /\ p \in Procs => call[p].pc = "idle"
         /\ name \in {"askList", "receiveList"} => p \in {"shell", "wifi"}
         /\ name = "setRunning" => p \in {"shell", "player", "http"}
         /\ name = "answer" => p \in {"device", "shell"}
         /\ name = "close" => p \notin {"wifi", "wwd"}
         /\ name = "taskCreate" => p \in {"device", "shell", "wifi", "player"}
         /\ name = "taskDelete" => p \in {"shell", "player", "http", "wwd"}
         /\ p \in {"http", "player", Sched} /\ name \in {"open", "close"} =>
              Doing(p).var \in OtherVars
<1>0. Ordered BY FullHas DEF Scripts
<1>1. Ready(p) /\ Doing(p) \in OpsOf(p) /\ Doing(p).op = name /\ Now(p) = Doing(p)
  BY <1>0, AtDoing
<1>2. p \in Procs => call[p].pc = "idle" BY <1>1, IdleAt
<1>3. p \in {"device", "shell", "wifi", "wwd", "player", "http", Sched} BY Members
<1>10. CASE p = "wwd" BY <1>1, <1>2, <1>10, Members, OthersHave DEF Sched
<1>4. CASE p = "device" BY <1>1, <1>2, <1>4, Members, DeviceHas DEF Sched
<1>5. CASE p = "shell" BY <1>1, <1>2, <1>5, Members, ShellHas DEF Sched
<1>6. CASE p = "wifi" BY <1>1, <1>2, <1>6, Members, OthersHave DEF Sched
<1>7. CASE p = "player" BY <1>1, <1>2, <1>7, Members, OthersHave DEF OtherVars
<1>8. CASE p = "http" BY <1>1, <1>2, <1>8, Members, OthersHave DEF OtherVars
<1>9. CASE p = Sched BY <1>1, <1>2, <1>9, Members, OthersHave DEF OtherVars
<1> QED BY <1>3, <1>4, <1>5, <1>6, <1>7, <1>8, <1>9, <1>10

LEMMA OthersRun ==
  ASSUME Full, NEW p \in {"player", "http", Sched},
         \/ CallOpen(p) \/ CallClose(p)
         \/ p # Sched /\ (ChangeRunning(p) \/ HttpClose(p))
         \/ p = "player" /\ (Play \/ DecStart \/ StopIgnored)
  PROVE  cause' = {} /\ RunInv'
<1>0. /\ PfInv /\ Scripts /\ DRTypeOK /\ HandlesOK /\ p \in All \ Scripted
      /\ p # Sched => p \in Procs
  BY FullHas, Members, PlatformAssumption DEF PfInv, DRInv, Scripted, Sched
<1>1. p \in Procs => call[p].pc = "idle"
  <2>1. \E name : At(p, name) 
    BY DEF CallOpen, CallClose, ChangeRunning, HttpClose, Play, DecStart, StopIgnored
  <2> QED BY <1>0, <2>1, Who
<1>2. /\ UNCHANGED tmVars /\ UNCHANGED <<DeviceAskQueue, DeviceRespQueue>>
      /\ UNCHANGED <<wlanUp, wlanInitialised, linkUp>>
  BY DEF CallOpen, CallClose, ChangeRunning, HttpClose, Play, DecStart, StopIgnored, OthersAlone,
         wlVars
<1>3. Scripts' /\ \A q \in All \ {p} : Doing(q)' = Doing(q)
  <2>1. CASE CallOpen(p) BY <1>0, <2>1, OpenScripts
  <2>2. CASE CallClose(p) BY <1>0, <2>2, StepScripts DEF CallClose
  <2>3. CASE ChangeRunning(p) BY <1>0, <2>3, StepScripts DEF ChangeRunning
  <2>4. CASE p # Sched /\ HttpClose(p) BY <1>0, <2>4, HttpCloseScripts
  <2>5. CASE p = "player" /\ Play BY <1>0, <2>5, PlayScripts
  <2>6. CASE p = "player" /\ DecStart BY <1>0, <2>6, StepScripts DEF DecStart
  <2>7. CASE p = "player" /\ StopIgnored BY <1>0, <2>7, StepScripts DEF StopIgnored
  <2> QED BY <2>1, <2>2, <2>3, <2>4, <2>5, <2>6, <2>7
<1>4. CardSame
  <2>1. CASE CallOpen(p)
    <3>1. Now(p).var \in OtherVars BY <1>0, <2>1, Who DEF CallOpen
    <3> QED BY <1>0, <2>1, <3>1, OpenOther DEF CallOpen
  <2>2. CASE CallClose(p)
    <3>1. Now(p).var \in OtherVars BY <1>0, <2>2, Who DEF CallClose
    <3>2. Now(p).clear \in BOOLEAN BY <1>0, <2>2, AtOp, OpsHave DEF CallClose, PfInv
    <3> QED BY <1>0, <2>2, <3>1, <3>2, CloseOther DEF CallClose
  <2>3. CASE ChangeRunning(p) BY <2>3, DrSame DEF ChangeRunning
  <2>4. CASE HttpClose(p) BY <2>4, DrSame DEF HttpClose
  <2>5. CASE Play BY <2>5, DrSame DEF Play
  <2>6. CASE DecStart BY <1>0, <2>6, DrSame, SafeCopy DEF DecStart
  <2>7. CASE StopIgnored BY <2>7, DrSame DEF StopIgnored
  <2> QED BY <2>1, <2>2, <2>3, <2>4, <2>5, <2>6, <2>7
<1>5. UNCHANGED <<registered, devOp, DeviceAskQueue, DeviceRespQueue>> BY <1>2, <1>4 DEF CardSame
<1> QED BY <1>0, <1>1, <1>2, <1>3, <1>4, <1>5, Elsewhere DEF CardSame

LEMMA PollRun ==
  ASSUME Full, Poll
  PROVE  cause' = {} /\ RunInv'
<1>0. PfInv /\ Scripts /\ "wwd" \in Procs /\ "wwd" \in All \ Scripted
  BY FullHas, Names, Members DEF Scripted
<1>1. At("wwd", "poll") /\ Done("wwd") BY DEF Poll
<1>2. /\ Scripts' /\ Ready("wwd") /\ \A q \in All \ {"wwd"} : Doing(q)' = Doing(q)
  BY <1>0, <1>1, StepScripts
<1>3. /\ UNCHANGED <<tmVars, drVars>> /\ UNCHANGED <<DeviceAskQueue, DeviceRespQueue>>
      /\ UNCHANGED <<wlanUp, wlanInitialised, linkUp>> /\ call["wwd"].pc = "idle"
  BY <1>0, <1>2, IdleAt DEF Poll
<1>4. CardSame BY <1>3, DrSame
<1> QED BY <1>0, <1>2, <1>3, <1>4, Elsewhere DEF CardSame

LEMMA RegistrySteps ==
  ASSUME Full,
         \/ \E p \in Procs : \/ AskList(p) \/ ReceiveList(p) \/ ChangeRunning(p) \/ HttpClose(p)
                             \/ CallCreate(p) \/ CallCreated(p) \/ CallDelete(p)
                             \/ CallDeleted(p) \/ SendAnswer(p)
         \/ \E p \in Procs \cup {Sched} : DeviceStep(p)
         \/ Listen \/ Play \/ DecStart \/ StopIgnored \/ AwaitLink \/ Deinit \/ CloseOver
         \/ WifiOn \/ BusInit \/ WlanUp \/ Join \/ Poll \/ Command
  PROVE  cause' = {} /\ RunInv'
<1>1. ASSUME NEW p \in Procs, CallCreate(p) \/ CallCreated(p) \/ CallDelete(p) \/ CallDeleted(p)
      PROVE  cause' = {} /\ RunInv'
  BY <1>1, CreateRun, CreatedRun, DeleteRun, DeletedRun
<1>2. ASSUME NEW p \in Procs, AskList(p) \/ ReceiveList(p)
      PROVE  cause' = {} /\ RunInv'
  <2>1. p \in {"shell", "wifi"} BY <1>2, Who DEF AskList, ReceiveList, All
  <2> QED BY <1>2, <2>1, ShellTalks, WifiTalks
<1>3. ASSUME NEW p \in Procs, ChangeRunning(p) PROVE cause' = {} /\ RunInv'
  <2>1. p \in {"shell", "player", "http"} BY <1>3, Who DEF ChangeRunning, All
  <2>2. "player" # Sched /\ "http" # Sched BY DEF Sched
  <2> QED BY <1>3, <2>1, <2>2, ShellTalks, OthersRun
<1>4. ASSUME NEW p \in Procs, HttpClose(p) PROVE cause' = {} /\ RunInv'
  <2>1. p \in {"shell", "player"} BY <1>4, FullHas, HttpCloseScripts
  <2>2. "player" # Sched BY DEF Sched
  <2> QED BY <1>4, <2>1, <2>2, ShellHttpClose, OthersRun
<1>5. ASSUME NEW p \in Procs, SendAnswer(p) PROVE cause' = {} /\ RunInv'
  <2>1. p \in {"device", "shell"} BY <1>5, Who DEF SendAnswer, All
  <2> QED BY <1>5, <2>1, DeviceAnswers, ShellAnswers
<1>6. ASSUME NEW p \in All, CallOpen(p) PROVE cause' = {} /\ RunInv'
  <2>1. p \in {"device", "wifi", "player", "http", Sched}
    <3>1. p # "shell" BY <1>6, FullHas, OpenScripts
    <3>2. p # "wwd"
      <4>1. Doing(p) \in OpsOf(p) /\ Doing(p).op = "open" BY <1>6, FullHas, OpenScripts
      <4> QED BY <4>1, Members, OthersHave
    <3> QED BY <3>1, <3>2, Members
  <2> QED BY <1>6, <2>1, DeviceOpens, WifiOpens, OthersRun
<1>7. ASSUME NEW p \in All, CallClose(p) PROVE cause' = {} /\ RunInv'
  <2>1. p \in {"device", "shell", "player", "http", Sched}
    BY <1>7, Who, Members DEF CallClose
  <2> QED BY <1>7, <2>1, DeviceCloses, ShellCloses, OthersRun
<1>8. CASE \/ Listen \/ Play \/ DecStart \/ StopIgnored \/ AwaitLink \/ Deinit \/ CloseOver
           \/ WifiOn \/ BusInit \/ WlanUp \/ Join \/ Poll \/ Command
  <2>1. CASE Play \/ DecStart \/ StopIgnored BY <2>1, OthersRun
  <2>2. CASE AwaitLink \/ CloseOver BY <2>2, ShellTalks
  <2>3. CASE Listen \/ Deinit \/ Command BY <2>3, ListenRun, DeinitRun, CommandRun
  <2>4. CASE WifiOn \/ BusInit \/ WlanUp \/ Join \/ Poll
    BY <2>4, WifiOnRun, BusInitRun, WlanUpRun, JoinRun, PollRun
  <2> QED BY <1>8, <2>1, <2>2, <2>3, <2>4
<1> QED BY <1>1, <1>2, <1>3, <1>4, <1>5, <1>6, <1>7, <1>8 DEF DeviceStep, All

----------------------------------------------------------------------------
(* Steps of the task service.  First those on which a request only goes    *)
(* from one place to the next.                                             *)
LEMMA RequestsMove ==
  ASSUME Full, cause' = {}, Scripts', \A q \in Procs : Doing(q)' = Doing(q),
         UNCHANGED <<drVars, DeviceAskQueue, DeviceRespQueue, TaskClassID, listed, TaskListHead>>,
         UNCHANGED <<wlanUp, wlanInitialised, linkUp>>,
         \A e \in Requests, b \in Blocks, q \in Procs : Asks(e, b, q)' => Asks(e, b, q),
         \A e \in Requests, b \in Blocks : Asks(e, b, NULL)' =>
           Asks(e, b, NULL) \/ (e = "DELETE" /\ TaskClassID[b] \in {"HTTP", "WWD"}),
         \A b \in Blocks : TaskClassID[b] \notin {"HTTP", "WWD"} /\ Asks("DELETE", b, "shell") =>
           Asks("DELETE", b, "shell")',
         CallInv'
  PROVE  RunInv'
<1>0. "device" \in Procs /\ "shell" \in Procs /\ "wifi" \in Procs
  BY PlatformAssumption
<1>1. /\ Doing("device")' = Doing("device") /\ Doing("shell")' = Doing("shell")
      /\ Doing("wifi")' = Doing("wifi")
  BY <1>0
<1>2. /\ UNCHANGED <<registered, devOp, Cnt, hdl>> BY DEF drVars
<1>3. \A id : RKTaskFind(id)' = RKTaskFind(id) BY DEF RKTaskFind
<1>4. \A b \in Blocks, q \in Procs : \A id : Creates(b, q, id)' => Creates(b, q, id)
  BY DEF Creates, Requests
<1>5. RequestInv'
  <2>1. ASSUME NEW b \in Blocks, NEW q \in Procs \cup {NULL}, Asks("CREATE", b, q)'
        PROVE  CreateFits(q, TaskClassID[b])'
    <3>1. Asks("CREATE", b, q) BY <2>1 DEF Requests
    <3>2. CreateFits(q, TaskClassID[b]) BY <3>1, FullHas DEF RequestInv
    <3> QED BY <1>1, <3>2 DEF CreateFits
  <2>2. ASSUME NEW b \in Blocks, NEW q \in Procs \cup {NULL}, Asks("DELETE", b, q)'
        PROVE  DeleteFits(q, TaskClassID[b])'
    <3>1. Asks("DELETE", b, q) \/ TaskClassID[b] \in {"HTTP", "WWD"} BY <2>2 DEF Requests
    <3>2. DeleteFits(q, TaskClassID[b]) BY <3>1, FullHas DEF RequestInv, DeleteFits
    <3> QED BY <1>1, <3>2 DEF DeleteFits
  <2> QED BY <2>1, <2>2 DEF RequestInv
<1>6. WifiInv'
  <2>1. RKTaskFind("WIFI_APPLICATION") \subseteq Blocks
    BY FullHas DEF RKTaskFind, PfInv, TMTypeOK
  <2>2. \A b \in RKTaskFind("WIFI_APPLICATION") : TaskClassID[b] = "WIFI_APPLICATION"
    BY DEF RKTaskFind
  <2>3. \A b \in RKTaskFind("WIFI_APPLICATION") :
          Asks("DELETE", b, "shell") => Asks("DELETE", b, "shell")'
    BY <2>1, <2>2
  <2> QED BY <1>0, <1>1, <1>3, <1>4, <2>3, FullHas DEF WifiInv
<1>6a. WlanInv'
  <2>1. hdl'["hSdio"] = hdl["hSdio"] BY <1>2
  <2> QED BY <1>1, <2>1, FullHas, KeepWlanShell
<1>7. BootInv' BY <1>0, <1>1, <1>4, FullHas DEF BootInv
<1>8. DevOpInv' BY <1>1, <1>2, FullHas, KeepDevOp
<1>9. IrqInv'
  <2>1. RKTaskFind("SDIO_IRQ_TASK") \subseteq Blocks
    BY FullHas DEF RKTaskFind, PfInv, TMTypeOK
  <2>2. \A b \in RKTaskFind("SDIO_IRQ_TASK") : TaskClassID[b] = "SDIO_IRQ_TASK" BY DEF RKTaskFind
  <2> QED BY <1>0, <1>1, <1>2, <1>3, <1>4, <2>1, <2>2, FullHas DEF IrqInv
<1>10. CardInv' BY <1>1, <1>2, FullHas, KeepCard DEF CardInv
<1>11. ListsDue'
  <2>1. Balance' BY <1>1, FullHas DEF Balance, Waits, Asked, Answered, Working
  <2> QED BY <2>1, BalanceNext
<1> QED BY <1>5, <1>6, <1>6a, <1>7, <1>8, <1>9, <1>10, <1>11 DEF RunInv

LEMMA SendsRun ==
  ASSUME Full, NEW p \in Procs, CallSends(p), Scripts'
  PROVE  cause' = {} /\ RunInv'
<1> DEFINE async == call[p].RkTaskEvent = "DELETE" /\ call[p].Mode = "ASYNC_MODE"
           c == call[p]
           new == [TaskHandler |-> c.TaskHandler, RkTaskEvent |-> c.RkTaskEvent,
                   who |-> IF async THEN NULL ELSE p]
<1>0. /\ CallInv /\ RequestInv /\ TMTypeOK /\ Shape /\ cause = {} /\ Matched
      /\ UNCHANGED <<drVars, pfVars>> /\ AskSend(p)
  BY FullHas DEF PfInv, CallSends
<1>1. /\ c.pc = "ask" /\ TaskAskQueue = NULL /\ TaskAskQueue' = new
      /\ call' = IF async THEN [call EXCEPT ![p] = Idle] ELSE [call EXCEPT ![p].pc = "wait"]
      /\ UNCHANGED <<TaskClassID, listed, TaskListHead, schedItem, cause>>
  BY <1>0 DEF AskSend, Returns
<1>2. /\ call \in [Procs -> Call] /\ c.RkTaskEvent \in Requests /\ c.TaskHandler \in Blocks
  BY <1>0, <1>1 DEF TMTypeOK, Shape, Call
<1>3. /\ new.who = (IF async THEN NULL ELSE p) /\ new.TaskHandler = c.TaskHandler
      /\ new.RkTaskEvent = c.RkTaskEvent /\ new # NULL
  BY <1>2, TaskAssumption DEF Item
<1>4. /\ call'[p].pc # "ask" /\ \A q \in Procs : q # p => call'[q] = call[q]
      /\ async => call'[p].pc = "idle"
  BY <1>1, <1>2 DEF Idle, Call
<1>5. async <=> c.RkTaskEvent = "DELETE" /\ TaskClassID[c.TaskHandler] \in {"HTTP", "WWD"}
  BY <1>0, <1>1 DEF CallInv
<1>6. Asks(c.RkTaskEvent, c.TaskHandler, p) BY <1>1 DEF Asks, AsksCall
<1>7. p # NULL BY TaskAssumption
<1> HIDE DEF new
<1>8. ASSUME NEW e \in Requests, NEW b \in Blocks, NEW q \in Procs, Asks(e, b, q)'
      PROVE  Asks(e, b, q)
  <2>1. CASE AsksCall(e, b, q)' BY <1>4, <2>1 DEF Asks, AsksCall
  <2>2. CASE AsksItem(TaskAskQueue, e, b, q)'
    <3>1. new.who = q /\ new.TaskHandler = b /\ new.RkTaskEvent = e BY <1>1, <2>2 DEF AsksItem
    <3>2. q # NULL BY TaskAssumption
    <3> QED BY <1>3, <1>6, <3>1, <3>2
  <2>3. CASE AsksItem(schedItem, e, b, q)' BY <1>1, <2>3 DEF Asks, AsksItem
  <2> QED BY <1>8, <2>1, <2>2, <2>3 DEF Asks
<1>9. ASSUME NEW e \in Requests, NEW b \in Blocks, Asks(e, b, NULL)'
      PROVE  Asks(e, b, NULL) \/ (e = "DELETE" /\ TaskClassID[b] \in {"HTTP", "WWD"})
  <2>0. NULL \notin Procs BY TaskAssumption
  <2>1. CASE AsksItem(TaskAskQueue, e, b, NULL)'
    <3>1. new.who = NULL /\ new.TaskHandler = b /\ new.RkTaskEvent = e BY <1>1, <2>1 DEF AsksItem
    <3> QED BY <1>3, <1>5, <1>7, <3>1
  <2>2. CASE AsksItem(schedItem, e, b, NULL)' BY <1>1, <2>2 DEF Asks, AsksItem
  <2> QED BY <1>9, <2>0, <2>1, <2>2 DEF Asks, AsksCall
<1>10. ASSUME NEW b \in Blocks, TaskClassID[b] \notin {"HTTP", "WWD"}, Asks("DELETE", b, "shell")
       PROVE  Asks("DELETE", b, "shell")'
  <2>1. CASE AsksCall("DELETE", b, "shell")
    <3>1. CASE p = "shell"
      <4>1. c.RkTaskEvent = "DELETE" /\ c.TaskHandler = b BY <2>1, <3>1 DEF AsksCall
      <4>2. ~async BY <1>5, <1>10, <4>1
      <4> QED BY <1>1, <1>3, <3>1, <4>1, <4>2 DEF Asks, AsksItem
    <3>2. CASE p # "shell" BY <1>4, <2>1, <3>2 DEF Asks, AsksCall
    <3> QED BY <3>1, <3>2
  <2>2. CASE AsksItem(schedItem, "DELETE", b, "shell") BY <1>1, <2>2 DEF Asks, AsksItem
  <2> QED BY <1>1, <1>10, <2>1, <2>2 DEF Asks, AsksItem
<1>11. CallInv'
  <2>1. \A q \in Procs : call'[q].pc = "ask" => q # p /\ call'[q] = call[q] BY <1>4
  <2>2. ASSUME NEW q \in {"http", "wwd"}
        PROVE  \/ call'[q].pc = "idle"
               \/ call'[q].pc = "ask" /\ call'[q].RkTaskEvent = "DELETE"
    <3>0. q \in Procs BY PlatformAssumption
    <3>1. CASE p = q
      <4>1. c.RkTaskEvent = "DELETE" BY <1>0, <1>1, <3>1 DEF CallInv
      <4>2. DeleteFits(p, TaskClassID[c.TaskHandler])
        BY <1>0, <1>2, <1>6, <4>1 DEF RequestInv
      <4>3. TaskClassID[c.TaskHandler] \in {"HTTP", "WWD"} BY <3>1, <4>2 DEF DeleteFits
      <4> QED BY <1>4, <1>5, <3>1, <4>1, <4>3
    <3>2. CASE p # q BY <1>0, <1>4, <3>0, <3>2 DEF CallInv
    <3> QED BY <3>1, <3>2
  <2>3. call'["wifi"].pc = "idle" \/ Doing("wifi")'.op \in {"wifiOn", "wlanUp"}
    <3>1. Doing("wifi")' = Doing("wifi") BY <1>0 DEF pfVars, Doing
    <3>2. CASE p = "wifi" BY <1>0, <1>1, <3>1, <3>2 DEF CallInv
    <3>3. CASE p # "wifi" BY <1>0, <1>4, <3>1, <3>3, Names DEF CallInv
    <3> QED BY <3>2, <3>3
  <2> QED BY <1>0, <1>1, <2>1, <2>2, <2>3 DEF CallInv
<1>12. \A q \in Procs : Doing(q)' = Doing(q) BY <1>0 DEF pfVars, Doing
<1>13. /\ UNCHANGED <<drVars, DeviceAskQueue, DeviceRespQueue, TaskClassID, listed, TaskListHead>>
       /\ UNCHANGED <<wlanUp, wlanInitialised, linkUp>>
  BY <1>0, <1>1 DEF pfVars, wlVars
<1>14. cause' = {} BY <1>0, <1>1
<1> QED BY <1>8, <1>9, <1>10, <1>11, <1>12, <1>13, <1>14, RequestsMove

LEMMA ReceivesRun ==
  ASSUME Full, NEW p \in Procs, CallReceives(p), Scripts', "crossed" \notin cause'
  PROVE  cause' = {} /\ RunInv'
<1>0. /\ CallInv /\ TMTypeOK /\ cause = {} /\ UNCHANGED <<drVars, pfVars>> /\ RespReceive(p)
  BY FullHas DEF PfInv, CallReceives
<1>1. /\ call[p].pc = "wait" /\ call' = [call EXCEPT ![p] = Idle]
      /\ UNCHANGED <<TaskClassID, listed, TaskListHead, TaskAskQueue, schedItem>>
      /\ cause' = {}
  BY <1>0 DEF RespReceive, Returns
<1>2. call \in [Procs -> Call] BY <1>0 DEF TMTypeOK
<1>3. /\ call'[p] = Idle /\ Idle.pc = "idle" /\ \A q \in Procs : q # p => call'[q] = call[q]
  BY <1>1, <1>2 DEF Idle
<1>4. \A e, b, q : Asks(e, b, q)' <=> Asks(e, b, q)
  <2>1. \A e, b, q : AsksCall(e, b, q)' <=> AsksCall(e, b, q) BY <1>1, <1>3 DEF AsksCall
  <2>2. \A e, b, q : AsksItem(TaskAskQueue, e, b, q)' <=> AsksItem(TaskAskQueue, e, b, q)
    BY <1>1 DEF AsksItem
  <2>3. \A e, b, q : AsksItem(schedItem, e, b, q)' <=> AsksItem(schedItem, e, b, q)
    BY <1>1 DEF AsksItem
  <2> QED BY <2>1, <2>2, <2>3 DEF Asks
<1>5. CallInv'
  <2>1. \A q \in Procs : call'[q].pc = "ask" => call'[q] = call[q] BY <1>3
  <2>2. \A q \in {"wifi", "http", "wwd"} : call'[q].pc = "idle" \/ call'[q] = call[q]
    BY <1>3, PlatformAssumption
  <2>3. Doing("wifi")' = Doing("wifi") BY <1>0 DEF pfVars, Doing
  <2> QED BY <1>0, <1>1, <2>1, <2>2, <2>3 DEF CallInv
<1>6. \A q \in Procs : Doing(q)' = Doing(q) BY <1>0 DEF pfVars, Doing
<1>7. /\ UNCHANGED <<drVars, DeviceAskQueue, DeviceRespQueue, TaskClassID, listed, TaskListHead>>
      /\ UNCHANGED <<wlanUp, wlanInitialised, linkUp>>
  BY <1>0, <1>1 DEF pfVars, wlVars
<1> QED BY <1>1, <1>4, <1>5, <1>6, <1>7, RequestsMove

LEMMA ReceiveRun ==
  ASSUME Full, Receive, Scripts'
  PROVE  cause' = {} /\ RunInv'
<1>0. PfInv /\ Scripts /\ Shape /\ CallInv /\ cause = {} BY FullHas DEF PfInv
<1>1. /\ schedPc = "receive" /\ schedItem' = TaskAskQueue /\ TaskAskQueue' = NULL
      /\ UNCHANGED <<TaskClassID, listed, TaskListHead, call, cause>>
      /\ UNCHANGED <<drVars, DeviceAskQueue, DeviceRespQueue, wlanUp, wlanInitialised, linkUp>>
  BY DEF Receive, SchedReceive, OthersAlone, wlVars
<1>2. schedItem = NULL BY <1>0, <1>1 DEF Shape
<1>3. \A e, b, q : Asks(e, b, q)' <=> Asks(e, b, q)
  <2>1. \A e, b, q : AsksCall(e, b, q)' <=> AsksCall(e, b, q) BY <1>1 DEF AsksCall
  <2>2. \A e, b, q : ~AsksItem(TaskAskQueue, e, b, q)' /\ ~AsksItem(schedItem, e, b, q)
    BY <1>1, <1>2 DEF AsksItem
  <2>3. \A e, b, q : AsksItem(schedItem, e, b, q)' <=> AsksItem(TaskAskQueue, e, b, q)
    BY <1>1 DEF AsksItem
  <2> QED BY <2>1, <2>2, <2>3 DEF Asks
<1>5. \A q \in Procs : Doing(q)' = Doing(q) BY <1>0, ReceiveScripts
<1>4. CallInv' BY <1>0, <1>1, <1>5, Names DEF CallInv
<1>6. cause' = {} BY <1>0, <1>1
<1> QED BY <1>1, <1>3, <1>4, <1>5, <1>6, RequestsMove

LEMMA RespondRun ==
  ASSUME Full, Respond, Scripts'
  PROVE  cause' = {} /\ RunInv'
<1>0. PfInv /\ Shape /\ CallInv /\ cause = {} BY FullHas DEF PfInv
<1>1. /\ schedPc = "respond" /\ schedItem' = NULL
      /\ UNCHANGED <<TaskClassID, listed, TaskListHead, call, cause, TaskAskQueue>>
      /\ UNCHANGED <<drVars, pfVars>>
  BY DEF Respond, SchedRespond
<1>2. schedItem.RkTaskEvent \notin Requests BY <1>0, <1>1 DEF Shape, Requests, Answers
<1>3. \A e \in Requests : \A b, q : Asks(e, b, q)' <=> Asks(e, b, q)
  <2>1. \A e, b, q : AsksCall(e, b, q)' <=> AsksCall(e, b, q) BY <1>1 DEF AsksCall
  <2>2. \A e \in Requests : \A b, q : ~AsksItem(schedItem, e, b, q)' /\ ~AsksItem(schedItem, e, b, q)
    BY <1>1, <1>2 DEF AsksItem
  <2>3. \A e, b, q : AsksItem(TaskAskQueue, e, b, q)' <=> AsksItem(TaskAskQueue, e, b, q)
    BY <1>1 DEF AsksItem
  <2> QED BY <2>1, <2>2, <2>3 DEF Asks
<1>5. \A q \in Procs : Doing(q)' = Doing(q) BY <1>1 DEF pfVars, Doing
<1>4. CallInv' BY <1>0, <1>1, <1>5, Names DEF CallInv
<1>6. cause' = {} BY <1>0, <1>1
<1>7. UNCHANGED <<DeviceAskQueue, DeviceRespQueue, wlanUp, wlanInitialised, linkUp>>
  BY <1>1 DEF pfVars, wlVars
<1>8. "DELETE" \in Requests BY DEF Requests
<1> QED BY <1>1, <1>3, <1>4, <1>5, <1>6, <1>7, <1>8, RequestsMove

\* Where the shell and the Wi-Fi task are when they have asked for something.
LEMMA ShellServed ==
  ASSUME NEW o \in ShellOps, NEW n, n = FollowShell(o), o.op \in {"taskCreate", "taskDelete"}
  PROVE  /\ Stage(n) = Stage(o) \/ (Stage(o) = 7 /\ Stage(n) = 8)
         /\ \A d : Removing(n, d) <=> Removing(o, d)
         /\ n.op \notin {"taskCreate", "receiveList", "answer", "dormant"}
         /\ n.op = "deleted" => o.op = "taskDelete" /\ o.id = "SDIO_IRQ_TASK"
         /\ n.op = "closeOver" => o.op = "taskDelete" /\ o.id = "WIFI_APPLICATION"
<1>1. /\ n.op # "taskCreate" /\ n.op # "receiveList" /\ n.op # "dormant"
      /\ \A d : Removing(n, d) => o.op = "taskDelete" /\ o.id = "SDIO_IRQ_TASK" /\ d = "SDIO"
      /\ o.op = "taskDelete" /\ o.id = "SDIO_IRQ_TASK" => n = Deleted("SDIO")
      /\ n.op = "deleted" => o.op = "taskDelete" /\ o.id = "SDIO_IRQ_TASK"
  BY ShellFollows
<1>2. \A d : Removing(o, d) <=> o.op = "taskDelete" /\ o.id = "SDIO_IRQ_TASK" /\ d = "SDIO"
  BY DEF Removing
<1>3. Removing(Deleted("SDIO"), "SDIO") BY DEF Removing, Deleted
<1>4. Stage(n) = Stage(o) \/ (Stage(o) = 7 /\ Stage(n) = 8)
  <2>1. CASE o.op = "taskCreate" BY <2>1, ShellFollows
  <2>2. CASE o.op = "taskDelete"
    <3>1. CASE o.id = "TCPIP_THREAD" BY <2>2, <3>1, ShellFollows
    <3>2. CASE o.id = "WIFI_APPLICATION"
      <4>1. Stage(Only("closeOver")) = 8 BY DEF Stage, Only
      <4> QED BY <2>2, <3>2, <4>1, ShellFollows
    <3>3. CASE o.id # "TCPIP_THREAD" /\ o.id # "WIFI_APPLICATION" BY <2>2, <3>3, ShellFollows
    <3> QED BY <3>1, <3>2, <3>3
  <2> QED BY <2>1, <2>2
<1>5. n.op # "answer" /\ (n.op = "closeOver" => o.op = "taskDelete" /\ o.id = "WIFI_APPLICATION")
  <2> USE DEF FollowShell, Only, Nothing, TaskDelete, Close, Deleted
  <2>1. CASE o.op = "taskCreate" BY <2>1
  <2>2. CASE o.op = "taskDelete"
    <3>1. o.id \in {"AUDIOCONTROL", "STREAMCONTROL", "SDIO_IRQ_TASK", "TCPIP_THREAD",
                    "WIFI_APPLICATION", "HTTP"}
      BY <2>2, ShellHas
    <3> QED BY <2>2, <3>1
  <2> QED BY <2>1, <2>2
<1> QED BY <1>1, <1>2, <1>3, <1>4, <1>5

LEMMA WifiServed ==
  ASSUME NEW o \in WifiOps, NEW n, n = FollowWifi(o), o.op = "taskCreate"
  PROVE  /\ o.id \in {"TCPIP_THREAD", "WWD"} /\ o = TaskCreate(o.id)
         /\ n.op \in {"wifiOn", "wlanUp"}
         /\ OnBus(n) <=> OnBus(o)
<1>1. o.id \in {"TCPIP_THREAD", "WWD"} BY OthersHave
<1>2. o = TaskCreate(o.id) BY DEF WifiOps, TaskCreate
<1>3. CASE o.id = "WWD"
  <2>1. n = Only("wlanUp") BY <1>3 DEF FollowWifi
  <2>2. n.op = "wlanUp" BY <2>1 DEF Only
  <2> QED BY <1>1, <1>2, <1>3, <2>2 DEF OnBus
<1>4. CASE o.id = "TCPIP_THREAD"
  <2>1. n = Only("wifiOn") BY <1>4 DEF FollowWifi
  <2>2. n.op = "wifiOn" BY <2>1 DEF Only
  <2> QED BY <1>1, <1>2, <1>4, <2>2 DEF OnBus
<1> QED BY <1>1, <1>3, <1>4

\* A task asks for a creation or a deletion: what it does next fits its request.
LEMMA AsksRun ==
  ASSUME Full, Scripts', cause' = {},
         UNCHANGED <<drVars, DeviceAskQueue, DeviceRespQueue, listed, TaskListHead>>,
         UNCHANGED <<wlanUp, wlanInitialised, linkUp>>,
         NEW p \in {"device", "shell", "wifi", "player", "http", "wwd"},
         \A q \in All \ {p} : Doing(q)' = Doing(q),
         p \in Scripted => Doing(p)' = Follow(p, Doing(p)),
         Doing(p) \in OpsOf(p), Doing(p).op \in {"taskCreate", "taskDelete"},
         \A b \in listed : TaskClassID'[b] = TaskClassID[b],
         \A e \in Requests, b \in Blocks, q \in Procs \cup {NULL} : Asks(e, b, q)' =>
           \/ Asks(e, b, q) /\ q # p /\ TaskClassID'[b] = TaskClassID[b]
           \/ /\ q = p /\ TaskClassID'[b] = Doing(p).id
              /\ e = "CREATE" <=> Doing(p).op = "taskCreate",
         \A id \in {"SDIO_IRQ_TASK", "WIFI_APPLICATION"} :
           p = "shell" /\ Doing(p).op = "taskDelete" /\ Doing(p).id = id =>
             \A b \in RKTaskFind(id) : Asks("DELETE", b, "shell")',
         p # "shell" => \A b \in Blocks : Asks("DELETE", b, "shell") => Asks("DELETE", b, "shell")',
         CallInv'
  PROVE  RunInv'
<1> DEFINE od == Doing("device")  nd == Doing("device")'  os == Doing("shell")  ns == Doing("shell")'
           ow == Doing("wifi")  nw == Doing("wifi")'
<1>0. /\ "device" \in Procs /\ "shell" \in Procs /\ "wifi" \in Procs /\ p \in Procs /\ p \in All
      /\ "CREATE" \in Requests /\ "DELETE" \in Requests /\ "CREATE" # "DELETE"
  BY Members, PlatformAssumption DEF All, Requests
<1>1. UNCHANGED <<registered, devOp, Cnt, hdl>> BY DEF drVars
<1>2. \A id : RKTaskFind(id)' = RKTaskFind(id) BY DEF RKTaskFind
<1>3. /\ p # "wifi" => nw = ow
      /\ p = "wifi" => nw = FollowWifi(ow) /\ ow \in WifiOps /\ ow.op = "taskCreate"
  <2>1. CASE p = "wifi"
    <3>1. ow \in WifiOps /\ nw = FollowWifi(ow) BY <2>1, Members DEF Scripted, Follow
    <3> QED BY <2>1, <3>1, OthersHave
  <2>2. CASE p # "wifi" BY <2>2, Members
  <2> QED BY <2>1, <2>2
<1>4. /\ p # "device" => nd = od
      /\ p = "device" => /\ nd = FollowDevice(od) /\ od \in DeviceOps /\ od.op = "taskCreate"
                         /\ od = TaskCreate(od.id) /\ od.id \in {"BCORE", "SHELL", "SDIO_IRQ_TASK"}
  <2>1. CASE p = "device"
    <3>1. od \in DeviceOps /\ nd = FollowDevice(od) BY <2>1, Members DEF Scripted, Follow
    <3>2. od.op = "taskCreate" BY <2>1, <3>1, DeviceHas
    <3> QED BY <2>1, <3>1, <3>2, DeviceHas
  <2>2. CASE p # "device" BY <2>2, Members
  <2> QED BY <2>1, <2>2
<1>5. /\ p # "shell" => ns = os
      /\ p = "shell" => ns = FollowShell(os) /\ os \in ShellOps /\ os.op \in {"taskCreate", "taskDelete"}
  <2>1. CASE p = "shell" BY <2>1, Members DEF Scripted, Follow
  <2>2. CASE p # "shell" BY <2>2, Members
  <2> QED BY <2>1, <2>2
<1> HIDE DEF od, nd, os, ns, ow, nw
<1>5a. p = "wifi" => /\ ow.id \in {"TCPIP_THREAD", "WWD"} /\ ow = TaskCreate(ow.id)
                     /\ nw.op \in {"wifiOn", "wlanUp"}
                     /\ OnBus(nw) <=> OnBus(ow)
  BY <1>3, WifiServed
<1>6. /\ \A d : Creating(nd, d) <=> Creating(od, d)
      /\ AtList(nd) <=> AtList(od)
      /\ Booting(nd) => Booting(od)
      /\ AtCard(nd) => AtCard(od)
      /\ p = "device" => /\ ~(nd.op = "taskCreate" /\ nd.id = "SDIO_IRQ_TASK")
                         /\ ~(nd.op = "created" /\ ~nd.ok) /\ ~(nd.op = "open" /\ nd.var = "hSdc")
  <2>1. CASE p = "device"
    <3>0. od \in DeviceOps /\ nd = FollowDevice(od) /\ od.op = "taskCreate" BY <1>4, <2>1
    <3>1a. AtList(nd) <=> AtList(od) BY <3>0, DeviceFollows
    <3>1b. /\ Booting(nd) => Booting(od)
           /\ \A d : Creating(nd, d) => od.id = "SDIO_IRQ_TASK" /\ d = "SDIO"
      BY <3>0, DeviceFollows
    <3>1c. /\ od.id = "SDIO_IRQ_TASK" => nd = Created("SDIO", TRUE)
           /\ nd.op = "taskCreate" => nd.id # "SDIO_IRQ_TASK"
           /\ nd.op = "created" => nd.ok = TRUE
           /\ ~(nd.op = "open" /\ nd.var = "hSdc")
      BY <3>0, DeviceFollows
    <3>1. /\ AtList(nd) <=> AtList(od)
          /\ Booting(nd) => Booting(od)
          /\ \A d : Creating(nd, d) => od.id = "SDIO_IRQ_TASK" /\ d = "SDIO"
          /\ od.id = "SDIO_IRQ_TASK" => nd = Created("SDIO", TRUE)
          /\ nd.op = "taskCreate" => nd.id # "SDIO_IRQ_TASK"
          /\ nd.op = "created" => nd.ok = TRUE
          /\ ~(nd.op = "open" /\ nd.var = "hSdc")
      BY <3>1a, <3>1b, <3>1c
    <3>2. \A d : Creating(od, d) <=> od.id = "SDIO_IRQ_TASK" /\ d = "SDIO"
      BY <1>4, <2>1 DEF Creating
    <3>3. od.id = "SDIO_IRQ_TASK" => Creating(nd, "SDIO")
      <4>1. Creating(Created("SDIO", TRUE), "SDIO") BY DEF Creating, Created
      <4> QED BY <3>1, <4>1
    <3>4. nd.op # "create"
      <4>1. CASE od.id = "BCORE"
        <5>1. nd = TaskCreate("SHELL") BY <3>0, <4>1 DEF FollowDevice
        <5> QED BY <5>1 DEF TaskCreate
      <4>2. CASE od.id = "SHELL"
        <5>1. nd = Only("listen") BY <3>0, <4>2 DEF FollowDevice
        <5> QED BY <5>1 DEF Only
      <4>3. CASE od.id = "SDIO_IRQ_TASK" BY <3>1, <4>3 DEF Created
      <4> QED BY <1>4, <2>1, <4>1, <4>2, <4>3
    <3> QED BY <3>1, <3>2, <3>3, <3>4 DEF AtCard
  <2>2. CASE p # "device" BY <1>4, <2>2
  <2> QED BY <2>1, <2>2
<1>7. /\ \A d : Removing(ns, d) <=> Removing(os, d)
      /\ Stage(ns) = Stage(os) \/ (Stage(os) = 7 /\ Stage(ns) = 8)
      /\ ns.op = "receiveList" <=> os.op = "receiveList"
      /\ p = "shell" => /\ ns.op \notin {"taskCreate", "answer"}
                        /\ os.op # "dormant" /\ os.op # "awaitLink"
      /\ p = "shell" /\ ns.op = "deleted" => os.op = "taskDelete" /\ os.id = "SDIO_IRQ_TASK"
      /\ p = "shell" /\ ns.op = "closeOver" => os.op = "taskDelete" /\ os.id = "WIFI_APPLICATION"
  <2>1. CASE p = "shell" BY <1>5, <2>1, ShellServed
  <2>2. CASE p # "shell" BY <1>5, <2>2
  <2> QED BY <2>1, <2>2
<1>8. RequestInv'
  <2>1. ASSUME NEW b \in Blocks, NEW q \in Procs \cup {NULL}, Asks("CREATE", b, q)'
        PROVE  CreateFits(q, TaskClassID[b])'
    <3>1. CASE Asks("CREATE", b, q) /\ q # p /\ TaskClassID'[b] = TaskClassID[b]
      <4>1. CreateFits(q, TaskClassID[b]) BY <3>1, FullHas DEF RequestInv
      <4> QED BY <1>3, <1>4, <1>5, <3>1, <4>1 DEF CreateFits, od, nd, os, ns, ow, nw
    <3>2. CASE q = p /\ TaskClassID'[b] = Doing(p).id /\ Doing(p).op = "taskCreate"
      <4>1. CASE p = "device" BY <1>4, <3>2, <4>1 DEF CreateFits, od, nd
      <4>2. CASE p = "shell"
        <5>1. os.id \in {"WIFI_APPLICATION", "DLNA"} /\ os = TaskCreate(os.id)
          BY <1>5, <3>2, <4>2, ShellHas DEF os
        <5> QED BY <1>5, <3>2, <4>2, <5>1 DEF CreateFits, os, ns
      <4>3. CASE p = "player" BY <3>2, <4>3, OthersHave, Members DEF CreateFits
      <4>4. p # "http" BY <3>2, OthersHave, Members
      <4>5. p # "wwd" BY <3>2, OthersHave, Members
      <4>6. CASE p = "wifi"
        <5>1. nw = FollowWifi(TaskCreate(ow.id)) BY <1>3, <1>5a, <4>6
        <5> QED BY <1>5a, <3>2, <4>6, <5>1 DEF CreateFits, ow, nw
      <4> QED BY <4>1, <4>2, <4>3, <4>4, <4>5, <4>6
    <3> QED BY <1>0, <2>1, <3>1, <3>2
  <2>2. ASSUME NEW b \in Blocks, NEW q \in Procs \cup {NULL}, Asks("DELETE", b, q)'
        PROVE  DeleteFits(q, TaskClassID[b])'
    <3>1. CASE Asks("DELETE", b, q) /\ q # p /\ TaskClassID'[b] = TaskClassID[b]
      <4>1. DeleteFits(q, TaskClassID[b]) BY <3>1, FullHas DEF RequestInv
      <4> QED BY <1>5, <3>1, <4>1 DEF DeleteFits, os, ns
    <3>2. CASE q = p /\ TaskClassID'[b] = Doing(p).id /\ Doing(p).op = "taskDelete"
      <4>1. p # "device" BY <1>4, <3>2 DEF od
      <4>2. CASE p = "shell"
        <5>1. \/ os.id = "HTTP"
              \/ /\ os.id \in {"AUDIOCONTROL", "STREAMCONTROL", "SDIO_IRQ_TASK", "TCPIP_THREAD",
                               "WIFI_APPLICATION"}
                 /\ os = TaskDelete(os.id, "SYNC_MODE")
          BY <1>5, <3>2, <4>2, ShellHas DEF os
        <5> QED BY <1>5, <3>2, <4>2, <5>1 DEF DeleteFits, os, ns
      <4>3. CASE p = "player" BY <3>2, <4>3, OthersHave, Members DEF DeleteFits
      <4>4. CASE p = "http" BY <3>2, <4>4, OthersHave, Members DEF DeleteFits
      <4>5. CASE p = "wwd" BY <3>2, <4>5, OthersHave, Members DEF DeleteFits
      <4>6. p # "wifi" BY <1>3, <3>2 DEF ow
      <4> QED BY <4>1, <4>2, <4>3, <4>4, <4>5, <4>6
    <3> QED BY <1>0, <2>2, <3>1, <3>2
  <2> QED BY <2>1, <2>2 DEF RequestInv
<1>9. \A b \in Blocks, q \in Procs : \A id : Creates(b, q, id)' =>
        Creates(b, q, id) \/ (q = p /\ Doing(p).op = "taskCreate" /\ Doing(p).id = id)
  BY <1>0 DEF Creates
<1>10. WifiInv'
  <2>0. WifiInv BY FullHas
  <2>1. RKTaskFind("WIFI_APPLICATION") \subseteq Blocks
    BY FullHas DEF RKTaskFind, PfInv, TMTypeOK
  <2>2. ns.op = "taskCreate" => ns = os BY <1>5, <1>7
  <2>3. \A b \in Blocks : Creates(b, "shell", "WIFI_APPLICATION")' =>
          \/ Creates(b, "shell", "WIFI_APPLICATION")
          \/ os.op = "taskCreate" /\ os.id = "WIFI_APPLICATION"
    BY <1>0, <1>9 DEF os
  <2>4. RKTaskFind("WIFI_APPLICATION")' = RKTaskFind("WIFI_APPLICATION") BY <1>2
  <2>5. ow.op = "dormant" => nw.op = "dormant" BY <1>3
  <2>6. Stage(ns) > 0 => nw.op \in {"nothing", "dormant"}
    <3>1. CASE p = "wifi" BY <1>3, <1>5, <2>0, <3>1 DEF WifiInv, os, ow
    <3>2. CASE p # "wifi"
      <4>1. Stage(ns) > 0 => Stage(os) > 0 BY <1>7
      <4> QED BY <1>3, <2>0, <3>2, <4>1 DEF WifiInv, os, ow
    <3> QED BY <3>1, <3>2
  <2>7. ns.op = "closeOver" =>
          \A b \in RKTaskFind("WIFI_APPLICATION") : Asks("DELETE", b, "shell")'
    <3>1. CASE p = "shell" BY <1>7, <3>1 DEF os
    <3>2. CASE p # "shell" BY <1>5, <2>0, <2>1, <3>2 DEF WifiInv, os
    <3> QED BY <3>1, <3>2
  <2> QED BY <2>0, <2>2, <2>3, <2>4, <2>5, <2>6, <2>7 DEF WifiInv, os, ns, ow, nw
<1>10a. WlanInv'
  <2>0. WlanInv BY FullHas
  <2>1. hdl'["hSdio"] = hdl["hSdio"] BY <1>1
  <2>2. CASE p = "wifi"
    <3>1. ns = os BY <1>5, <2>2
    <3>2. ow.op = "taskCreate" /\ nw.op \in {"wifiOn", "wlanUp"} BY <1>3, <1>5a, <2>2
    <3>3. ~wlanInitialised /\ ~linkUp BY <2>0, <3>2 DEF WlanInv, ow
    <3>4. OnBus(nw) <=> OnBus(ow) BY <1>5a, <2>2
    <3>5. wlanUp => Stage(os) \in 2 .. 6 BY <2>0, <3>2, <3>3 DEF WlanInv, os, ow
    <3>6. os.op = "awaitLink" \/ Stage(os) >= 2 BY <2>0, <3>2, <3>3 DEF WlanInv, os, ow
    <3>7. /\ OnBus(ow) => hdl["hSdio"] # NULL
          /\ hdl["hSdio"] # NULL => OnBus(ow)
          /\ os.op = "answer" => os.status = "RK_SUCCESS"
      BY <2>0, <3>2 DEF WlanInv, os, ow
    <3> QED BY <2>1, <3>1, <3>2, <3>3, <3>4, <3>5, <3>6, <3>7 DEF WlanInv, os, ns, ow, nw
  <2>3. CASE p # "wifi"
    <3>0. nw = ow BY <1>3, <2>3
    <3>1. wlanInitialised => Stage(ns) < 2
      <4>1. wlanInitialised => Stage(os) < 2 BY <2>0 DEF WlanInv, os
      <4> QED BY <1>7, <4>1
    <3>2. Stage(os) \in 2 .. 6 => Stage(ns) \in 2 .. 6 BY <1>7
    <3>3. os.op = "awaitLink" \/ Stage(os) >= 2 => ns.op = "awaitLink" \/ Stage(ns) >= 2
      <4>1. Stage(os) >= 2 => Stage(ns) >= 2 BY <1>7
      <4>2. os.op = "awaitLink" => ns = os BY <1>5, <1>7
      <4> QED BY <4>1, <4>2
    <3>4. ns.op = "answer" => ns.status = "RK_SUCCESS"
      <4>1. ns.op = "answer" => ns = os BY <1>5, <1>7
      <4> QED BY <2>0, <4>1 DEF WlanInv, os
    <3> QED BY <2>0, <2>1, <3>0, <3>1, <3>2, <3>3, <3>4, KeepWlan DEF os, ns, ow, nw
  <2> QED BY <2>2, <2>3
<1>11. BootInv'
  <2>1. \A b \in Blocks : Creates(b, "device", "SHELL")' =>
          Creates(b, "device", "SHELL") \/ Booting(od)
    BY <1>0, <1>9 DEF od, Booting
  <2>2. os.op = "dormant" => ns.op = "dormant" BY <1>5, <1>7
  <2> QED BY <1>6, <2>1, <2>2, FullHas DEF BootInv, od, nd, os, ns
<1>12. DevOpInv' BY <1>1, <1>6, <1>7, FullHas, KeepDevOp DEF od, nd, os, ns
<1>13. IrqInv'
  <2>1. RKTaskFind("SDIO_IRQ_TASK") \subseteq Blocks
    BY FullHas DEF RKTaskFind, PfInv, TMTypeOK
  <2>2. RKTaskFind("SDIO_IRQ_TASK")' = RKTaskFind("SDIO_IRQ_TASK") BY <1>2
  <2>3. \/ nd.op = "taskCreate" /\ nd.id = "SDIO_IRQ_TASK"
        \/ nd.op = "created" /\ nd.dev = "SDIO" /\ ~nd.ok
        => nd = od
    BY <1>4, <1>6
  <2>4. \A b \in Blocks : Creates(b, "device", "SDIO_IRQ_TASK")' =>
          \/ Creates(b, "device", "SDIO_IRQ_TASK")
          \/ od.op = "taskCreate" /\ od.id = "SDIO_IRQ_TASK"
    BY <1>0, <1>9 DEF od
  <2>5. ns.op = "deleted" /\ ns.dev = "SDIO" =>
          \A b \in RKTaskFind("SDIO_IRQ_TASK") : Asks("DELETE", b, "shell")'
    <3>1. CASE p = "shell" BY <1>7, <3>1 DEF os
    <3>2. CASE p # "shell" BY <1>5, <2>1, <3>2, FullHas DEF IrqInv, os
    <3> QED BY <3>1, <3>2
  <2> QED BY <1>1, <1>6, <1>7, <2>2, <2>3, <2>4, <2>5, FullHas DEF IrqInv, od, nd, os, ns
<1>14. CardInv'
  <2>1. nd.op = "open" /\ nd.var = "hSdc" => nd = od BY <1>4, <1>6
  <2>2. Creating(nd, "SDC") \/ (nd.op = "open" /\ nd.var = "hSdc") => hdl["hSdc"] = NULL
    BY <1>6, <2>1, FullHas DEF CardInv, od
  <2>3. AtCard(nd) => hdl["hSdc"] # NULL BY <1>6, FullHas DEF CardInv, od
  <2>4. Stage(ns) \in {0, Stage(os)} \/ NoMore(Stage(os), Stage(ns))
    <3>1. NoMore(7, 8) BY DEF NoMore
    <3> QED BY <1>7, <3>1
  <2> QED BY <1>1, <2>2, <2>3, <2>4, FullHas, KeepCard DEF os, ns, nd
<1>15. ListsDue'
  <2>0. nw.op = "receiveList" <=> ow.op = "receiveList" BY <1>3, <1>5a
  <2>1. Balance'
    BY <1>6, <1>7, <2>0, FullHas DEF Balance, Waits, Asked, Answered, Working, Wait, od, nd, os, ns,
                                     ow, nw
  <2> QED BY <2>1, BalanceNext
<1> QED BY <1>8, <1>10, <1>10a, <1>11, <1>12, <1>13, <1>14, <1>15 DEF RunInv

LEMMA CreateAsks ==
  ASSUME NEW p, NEW id, NEW free, RKTaskCreate(p, id, free)
  PROVE  UNCHANGED <<listed, TaskListHead, TaskAskQueue, schedItem, cause>>
BY DEF RKTaskCreate, Returns

CreateCall(b) == [Idle EXCEPT !.pc = "ask", !.TaskHandler = b]
LEMMA CreateAsksHow ==
  ASSUME NEW p, NEW id, NEW free, RKTaskCreate(p, id, free)
  PROVE  \/ \E a \in free : /\ TaskClassID' = [TaskClassID EXCEPT ![a] = id]
                           /\ call' = [call EXCEPT ![p] = CreateCall(a)]
         \/ call' = [call EXCEPT ![p] = Idle] /\ UNCHANGED TaskClassID
BY DEF RKTaskCreate, Returns, CreateCall

LEMMA CallTaskCreateRun ==
  ASSUME Full, NEW p \in Procs, CallTaskCreate(p), Scripts'
  PROVE  cause' = {} /\ RunInv'
<1> DEFINE o == Doing(p)
<1>0. /\ PfInv /\ Scripts /\ TMTypeOK /\ Owned /\ Agree /\ CallInv /\ BootInv /\ cause = {}
      /\ Matched /\ p \in All
  BY FullHas DEF PfInv, All
<1>1. /\ At(p, "taskCreate") /\ Done(p) /\ UNCHANGED drVars
      /\ UNCHANGED <<DeviceAskQueue, DeviceRespQueue>>
      /\ UNCHANGED <<wlanUp, wlanInitialised, linkUp>>
  BY DEF CallTaskCreate, OthersAlone, wlVars
<1>2. /\ o \in OpsOf(p) /\ o.op = "taskCreate" /\ Now(p) = o
      /\ p \in Scripted => Doing(p)' = Follow(p, o)
      /\ \A q \in All \ {p} : Doing(q)' = Doing(q)
  BY <1>0, <1>1, StepScripts
<1>2a. RKTaskCreate(p, o.id, Free1) BY <1>2 DEF CallTaskCreate
<1>3. p \in {"device", "shell", "wifi", "player"} /\ call[p].pc = "idle" BY <1>0, <1>1, Who
<1>3a. \/ p # "wifi" /\ Doing("wifi")' = Doing("wifi")
       \/ p = "wifi" /\ Doing("wifi")'.op \in {"wifiOn", "wlanUp"}
  <2>1. CASE p = "wifi"
    <3>1. o \in WifiOps /\ Doing("wifi")' = FollowWifi(o)
      BY <1>2, <2>1, Members DEF Scripted, Follow
    <3> QED BY <1>2, <2>1, <3>1, WifiServed
  <2>2. CASE p # "wifi" BY <1>2, <2>2, Members
  <2> QED BY <2>1, <2>2
<1> HIDE DEF o
<1>4. UNCHANGED <<listed, TaskListHead, TaskAskQueue, schedItem, cause>>
  BY <1>2a, CreateAsks
<1>5. \A e, b : ~Asks(e, b, p) BY <1>0, <1>3, Quiet
<1>6. call \in [Procs -> Call] /\ TaskClassID \in [Blocks -> TaskIDs \cup {NULL}]
  BY <1>0 DEF TMTypeOK
\* No request under way is about a block that is free.
<1>7. \A e \in Requests, b \in Blocks, q \in Procs \cup {NULL} : Asks(e, b, q) => b \in heap
  BY <1>0 DEF Asks, AsksCall, AsksItem, Owned, OwnedItem, Holds, Agree, Requests
<1>8. listed \subseteq heap BY <1>0 DEF Agree
<1>9. ASSUME NEW a \in Free1, TaskClassID' = [TaskClassID EXCEPT ![a] = o.id],
             call' = [call EXCEPT ![p] = CreateCall(a)]
      PROVE  RunInv'
  <2> DEFINE c == CreateCall(a)
  <2>0. a \in Blocks /\ a \notin heap BY <1>0 DEF Free1, TMTypeOK
  <2>1. c.pc = "ask" /\ c.TaskHandler = a /\ c.RkTaskEvent = "CREATE" BY DEF Idle, CreateCall
  <2>2. call'[p] = c /\ \A q \in Procs : q # p => call'[q] = call[q] BY <1>6, <1>9
  <2> HIDE DEF c
  <2>3. /\ TaskClassID'[a] = o.id
        /\ \A b \in Blocks \cap heap : TaskClassID'[b] = TaskClassID[b]
    BY <1>6, <1>9, <2>0
  <2>4. \A b \in listed : TaskClassID'[b] = TaskClassID[b]
    BY <1>0, <1>8, <2>3 DEF TMTypeOK
  <2>5. ASSUME NEW e \in Requests, NEW b \in Blocks, NEW q \in Procs \cup {NULL}, Asks(e, b, q)'
        PROVE  \/ Asks(e, b, q) /\ q # p /\ TaskClassID'[b] = TaskClassID[b]
               \/ q = p /\ TaskClassID'[b] = o.id /\ (e = "CREATE" <=> o.op = "taskCreate")
    <3>1. CASE AsksCall(e, b, q)' /\ q = p
      <4>1. b = a /\ e = "CREATE" BY <2>1, <2>2, <3>1 DEF AsksCall
      <4> QED BY <1>2, <2>3, <3>1, <4>1
    <3>2. CASE Asks(e, b, q) BY <1>5, <1>7, <2>3, <3>2
    <3>3. \/ AsksCall(e, b, q)' /\ q = p
          \/ Asks(e, b, q)
      <4>1. CASE AsksCall(e, b, q)' /\ q # p BY <2>2, <4>1 DEF AsksCall, Asks
      <4>2. CASE AsksItem(TaskAskQueue, e, b, q)' \/ AsksItem(schedItem, e, b, q)'
        BY <1>4, <4>2 DEF AsksItem, Asks
      <4> QED BY <2>5, <4>1, <4>2 DEF Asks
    <3> QED BY <3>1, <3>2, <3>3
  <2>6. p # "shell" => \A b \in Blocks : Asks("DELETE", b, "shell") => Asks("DELETE", b, "shell")'
    <3>1. SUFFICES ASSUME p # "shell", NEW b \in Blocks, Asks("DELETE", b, "shell")
                   PROVE  Asks("DELETE", b, "shell")'
      OBVIOUS
    <3>2. CASE AsksCall("DELETE", b, "shell") BY <2>2, <3>1, <3>2 DEF AsksCall, Asks
    <3>3. CASE AsksItem(TaskAskQueue, "DELETE", b, "shell") \/ AsksItem(schedItem, "DELETE", b, "shell")
      BY <1>4, <3>3 DEF AsksItem, Asks
    <3> QED BY <3>1, <3>2, <3>3 DEF Asks
  <2>7. CallInv'
    <3>1. ASSUME NEW q \in Procs, call'[q].pc = "ask", call'[q].RkTaskEvent = "DELETE"
          PROVE  call'[q].Mode = "ASYNC_MODE" <=> TaskClassID'[call'[q].TaskHandler] \in {"HTTP", "WWD"}
      <4>1. q # p /\ call'[q] = call[q] BY <2>1, <2>2, <3>1
      <4>2. call[q].TaskHandler \in listed
        BY <1>0, <3>1, <4>1 DEF Owned, Holds
      <4> QED BY <1>0, <2>4, <3>1, <4>1, <4>2 DEF CallInv
    <3>2. call'["wwd"] = call["wwd"] /\ call'["http"] = call["http"]
      BY <1>3, <2>2, PlatformAssumption
    <3>3. call'["wifi"].pc = "idle" \/ Doing("wifi")'.op \in {"wifiOn", "wlanUp"}
      <4>1. p # "wifi" => call'["wifi"] = call["wifi"] BY <2>2, Names
      <4> QED BY <1>0, <1>3a, <4>1 DEF CallInv
    <3> QED BY <1>0, <3>1, <3>2, <3>3 DEF CallInv
  <2>8. ~(o.op = "taskDelete") BY <1>2
  <2>9. cause' = {} BY <1>0, <1>4
  <2> QED BY <1>1, <1>2, <1>3, <1>4, <2>4, <2>5, <2>6, <2>7, <2>8, <2>9, AsksRun DEF o
<1>10. CASE call' = [call EXCEPT ![p] = Idle] /\ UNCHANGED TaskClassID
  <2>1. call'[p].pc = "idle" /\ \A q \in Procs : q # p => call'[q] = call[q]
    BY <1>6, <1>10 DEF Idle
  <2>2. \A e, b, q : Asks(e, b, q)' <=> Asks(e, b, q)
    <3>1. \A e, b, q : AsksCall(e, b, q)' <=> AsksCall(e, b, q) BY <1>3, <2>1 DEF AsksCall
    <3>2. \A e, b, q : AsksItem(TaskAskQueue, e, b, q)' <=> AsksItem(TaskAskQueue, e, b, q)
      BY <1>4 DEF AsksItem
    <3>3. \A e, b, q : AsksItem(schedItem, e, b, q)' <=> AsksItem(schedItem, e, b, q)
      BY <1>4 DEF AsksItem
    <3> QED BY <3>1, <3>2, <3>3 DEF Asks
  <2>3. CallInv'
    <3>1. \A q \in Procs : call'[q].pc = "ask" => call'[q] = call[q] BY <2>1
    <3>2. call'["wwd"] = call["wwd"] /\ call'["http"] = call["http"]
      BY <1>3, <2>1, PlatformAssumption
    <3>3. call'["wifi"].pc = "idle" \/ Doing("wifi")'.op \in {"wifiOn", "wlanUp"}
      <4>1. p # "wifi" => call'["wifi"] = call["wifi"] BY <2>1, Names
      <4> QED BY <1>0, <1>3a, <4>1 DEF CallInv
    <3> QED BY <1>0, <1>10, <3>1, <3>2, <3>3 DEF CallInv
  <2>4. ~(o.op = "taskDelete") BY <1>2
  <2>5. cause' = {} BY <1>0, <1>4
  <2>6. \A b \in Blocks : TaskClassID'[b] = TaskClassID[b] BY <1>10
  <2>7. listed \subseteq Blocks BY <1>0 DEF TMTypeOK
  <2>8. \A e \in Requests, b \in Blocks, q \in Procs \cup {NULL} : Asks(e, b, q)' =>
          \/ Asks(e, b, q) /\ q # p /\ TaskClassID'[b] = TaskClassID[b]
          \/ q = p /\ TaskClassID'[b] = o.id /\ (e = "CREATE" <=> o.op = "taskCreate")
    BY <1>5, <2>2, <2>6
  <2> QED BY <1>1, <1>2, <1>3, <1>4, <2>2, <2>3, <2>4, <2>5, <2>6, <2>7, <2>8, AsksRun DEF o
<1>11. cause' = {} BY <1>0, <1>4
<1>12. \/ \E a \in Free1 : /\ TaskClassID' = [TaskClassID EXCEPT ![a] = o.id]
                           /\ call' = [call EXCEPT ![p] = CreateCall(a)]
       \/ call' = [call EXCEPT ![p] = Idle] /\ UNCHANGED TaskClassID
  BY <1>2a, CreateAsksHow
<1> QED BY <1>9, <1>10, <1>11, <1>12

LEMMA CallTaskDeleteRun ==
  ASSUME Full, NEW p \in Procs, CallTaskDelete(p), Scripts', "twice" \notin cause'
  PROVE  cause' = {} /\ RunInv'
<1> DEFINE o == Doing(p)
<1>0. /\ PfInv /\ Scripts /\ TMTypeOK /\ CallInv /\ IrqInv /\ WifiInv /\ cause = {} /\ Matched
      /\ p \in All
  BY FullHas DEF PfInv, All
<1>1. /\ At(p, "taskDelete") /\ Done(p) /\ UNCHANGED drVars
      /\ UNCHANGED <<DeviceAskQueue, DeviceRespQueue>>
      /\ UNCHANGED <<wlanUp, wlanInitialised, linkUp>>
      /\ RKTaskDelete(p, Now(p).id, Now(p).mode)
  BY DEF CallTaskDelete, OthersAlone, wlVars
<1>2. /\ o \in OpsOf(p) /\ o.op = "taskDelete" /\ Now(p) = o
      /\ p \in Scripted => Doing(p)' = Follow(p, o)
      /\ \A q \in All \ {p} : Doing(q)' = Doing(q)
  BY <1>0, <1>1, StepScripts
<1>3. p \in {"shell", "player", "http", "wwd"} /\ call[p].pc = "idle" BY <1>0, <1>1, Who
\* Only a deletion of the HTTP and of the WWD task is asynchronous.
<1>4. o.mode = "ASYNC_MODE" <=> o.id \in {"HTTP", "WWD"}
  <2>1. CASE p = "shell" BY <1>2, <2>1, ShellHas, Members
  <2>2. CASE p = "player" BY <1>2, <2>2, OthersHave, Members
  <2>3. CASE p = "http" BY <1>2, <2>3, OthersHave, Members
  <2>4. CASE p = "wwd" BY <1>2, <2>4, OthersHave, Members
  <2> QED BY <1>3, <2>1, <2>2, <2>3, <2>4
<1>5. /\ UNCHANGED <<listed, TaskListHead, TaskAskQueue, schedItem, TaskClassID>>
      /\ cause' = {}
  BY <1>0, <1>1 DEF RKTaskDelete
<1>6. \A e, b : ~Asks(e, b, p) BY <1>0, <1>3, Quiet
<1>7. call \in [Procs -> Call] /\ listed \subseteq Blocks BY <1>0 DEF TMTypeOK
<1> HIDE DEF o
<1>8. ASSUME \A q \in Procs : q # p => call'[q] = call[q],
             \/ call'[p].pc = "idle" /\ RKTaskFind(o.id) = {}
             \/ \E a \in RKTaskFind(o.id) :
                  call'[p] = [pc |-> "ask", RkTaskEvent |-> "DELETE", TaskHandler |-> a,
                              Mode |-> o.mode]
      PROVE  RunInv'
  <2>1. \/ call'[p].pc = "idle"
        \/ /\ call'[p].pc = "ask" /\ call'[p].RkTaskEvent = "DELETE" /\ call'[p].Mode = o.mode
           /\ call'[p].TaskHandler \in listed /\ TaskClassID[call'[p].TaskHandler] = o.id
    <3>1. CASE call'[p].pc = "idle" BY <3>1
    <3>2. ASSUME NEW a \in RKTaskFind(o.id),
                 call'[p] = [pc |-> "ask", RkTaskEvent |-> "DELETE", TaskHandler |-> a,
                             Mode |-> o.mode]
          PROVE  /\ call'[p].pc = "ask" /\ call'[p].RkTaskEvent = "DELETE"
                 /\ call'[p].Mode = o.mode /\ call'[p].TaskHandler \in listed
                 /\ TaskClassID[call'[p].TaskHandler] = o.id
      BY <3>2 DEF RKTaskFind
    <3> QED BY <1>8, <3>1, <3>2
  <2>2. ASSUME NEW e \in Requests, NEW b \in Blocks, NEW q \in Procs \cup {NULL}, Asks(e, b, q)'
        PROVE  \/ Asks(e, b, q) /\ q # p /\ TaskClassID'[b] = TaskClassID[b]
               \/ q = p /\ TaskClassID'[b] = o.id /\ (e = "CREATE" <=> o.op = "taskCreate")
    <3>0. TaskClassID'[b] = TaskClassID[b] BY <1>5
    <3>1. CASE AsksCall(e, b, q)' /\ q = p
      <4>1. e = "DELETE" /\ TaskClassID[b] = o.id BY <2>1, <3>1 DEF AsksCall
      <4> QED BY <1>2, <3>0, <3>1, <4>1
    <3>2. CASE Asks(e, b, q) BY <1>6, <3>0, <3>2
    <3>3. \/ AsksCall(e, b, q)' /\ q = p
          \/ Asks(e, b, q)
      <4>1. CASE AsksCall(e, b, q)' /\ q # p BY <1>8, <4>1 DEF AsksCall, Asks
      <4>2. CASE AsksItem(TaskAskQueue, e, b, q)' \/ AsksItem(schedItem, e, b, q)'
        BY <1>5, <4>2 DEF AsksItem, Asks
      <4> QED BY <2>2, <4>1, <4>2 DEF Asks
    <3> QED BY <3>1, <3>2, <3>3
  <2>3. ASSUME NEW id \in {"SDIO_IRQ_TASK", "WIFI_APPLICATION"}, p = "shell", o.id = id,
               NEW b \in RKTaskFind(id)
        PROVE  Asks("DELETE", b, "shell")'
    <3>1. \A a, c \in RKTaskFind(id) : a = c BY <1>0 DEF IrqInv, WifiInv
    <3>2. PICK a \in RKTaskFind(id) :
            call'[p] = [pc |-> "ask", RkTaskEvent |-> "DELETE", TaskHandler |-> a, Mode |-> o.mode]
      BY <1>8, <2>3
    <3>3. a = b BY <3>1
    <3> QED BY <2>3, <3>2, <3>3 DEF Asks, AsksCall
  <2>4. p # "shell" => \A b \in Blocks : Asks("DELETE", b, "shell") => Asks("DELETE", b, "shell")'
    <3>1. SUFFICES ASSUME p # "shell", NEW b \in Blocks, Asks("DELETE", b, "shell")
                   PROVE  Asks("DELETE", b, "shell")'
      OBVIOUS
    <3>2. CASE AsksCall("DELETE", b, "shell") BY <1>8, <3>1, <3>2 DEF AsksCall, Asks
    <3>3. CASE AsksItem(TaskAskQueue, "DELETE", b, "shell") \/ AsksItem(schedItem, "DELETE", b, "shell")
      BY <1>5, <3>3 DEF AsksItem, Asks
    <3> QED BY <3>1, <3>2, <3>3 DEF Asks
  <2>5. CallInv'
    <3>1. ASSUME NEW q \in Procs, call'[q].pc = "ask", call'[q].RkTaskEvent = "DELETE"
          PROVE  call'[q].Mode = "ASYNC_MODE" <=> TaskClassID'[call'[q].TaskHandler] \in {"HTTP", "WWD"}
      <4>1. CASE q = p BY <1>4, <1>5, <2>1, <3>1, <4>1
      <4>2. CASE q # p BY <1>0, <1>5, <1>8, <3>1, <4>2 DEF CallInv
      <4> QED BY <4>1, <4>2
    <3>2. call'["wifi"] = call["wifi"] BY <1>3, <1>8, PlatformAssumption
    <3>3. ASSUME NEW q \in {"http", "wwd"}
          PROVE  \/ call'[q].pc = "idle"
                 \/ call'[q].pc = "ask" /\ call'[q].RkTaskEvent = "DELETE"
      <4>1. CASE p = q BY <2>1, <4>1
      <4>2. CASE p # q
        <5>1. call'[q] = call[q] BY <1>8, <4>2, PlatformAssumption
        <5> QED BY <1>0, <5>1 DEF CallInv
      <4> QED BY <4>1, <4>2
    <3>4. Doing("wifi")' = Doing("wifi") BY <1>2, <1>3, Members
    <3> QED BY <1>0, <3>1, <3>2, <3>3, <3>4 DEF CallInv
  <2>6. \A b \in listed : TaskClassID'[b] = TaskClassID[b] BY <1>5
  <2> QED BY <1>1, <1>2, <1>3, <1>5, <2>2, <2>3, <2>4, <2>5, <2>6, AsksRun DEF o
<1>9. \A q \in Procs : q # p => call'[q] = call[q]
  BY <1>1, <1>7 DEF RKTaskDelete, Returns
<1>10. CASE \E a \in RKTaskFind(o.id) :
              call' = [call EXCEPT ![p] = [pc |-> "ask", RkTaskEvent |-> "DELETE",
                                           TaskHandler |-> a, Mode |-> o.mode]]
  <2>1. \E a \in RKTaskFind(o.id) :
          call'[p] = [pc |-> "ask", RkTaskEvent |-> "DELETE", TaskHandler |-> a, Mode |-> o.mode]
    BY <1>7, <1>10
  <2> QED BY <1>5, <1>8, <1>9, <2>1
<1>11. CASE RKTaskFind(o.id) = {} /\ call' = [call EXCEPT ![p] = Idle]
  <2>1. call'[p].pc = "idle" BY <1>7, <1>11 DEF Idle
  <2> QED BY <1>5, <1>8, <1>9, <1>11, <2>1
<1> QED BY <1>1, <1>2, <1>5, <1>10, <1>11 DEF RKTaskDelete, Returns

----------------------------------------------------------------------------
(* The scheduler carries a request out.                                    *)
\* A shell that has not begun has asked for nothing.
LEMMA DormantShell ==
  ASSUME Doing("shell").op = "dormant", NEW id
  PROVE  ~CreateFits("shell", id) /\ (DeleteFits("shell", id) => id \in {"HTTP", "WWD"})
<1>1. ASSUME id \in {"WIFI_APPLICATION", "DLNA"} PROVE FollowShell(TaskCreate(id)).op # "dormant"
  <2>1. TaskCreate(id) \in ShellOps BY <1>1 DEF ShellOps, TaskCreate
  <2> QED BY <2>1, ShellFollows
<1>2. ASSUME id \in {"AUDIOCONTROL", "STREAMCONTROL", "SDIO_IRQ_TASK", "TCPIP_THREAD",
                    "WIFI_APPLICATION"}
      PROVE  FollowShell(TaskDelete(id, "SYNC_MODE")).op # "dormant"
  <2>1. TaskDelete(id, "SYNC_MODE") \in ShellOps BY <1>2 DEF ShellOps, TaskDelete
  <2> QED BY <2>1, ShellFollows
<1> QED BY <1>1, <1>2 DEF CreateFits, DeleteFits

LEMMA DormantWifi ==
  ASSUME Doing("wifi").op \in {"dormant", "nothing"}, NEW id
  PROVE  ~CreateFits("wifi", id) /\ (DeleteFits("wifi", id) => id \in {"HTTP", "WWD"})
<1>1. ASSUME id \in {"TCPIP_THREAD", "WWD"}
      PROVE  FollowWifi(TaskCreate(id)).op \in {"wifiOn", "wlanUp"}
  <2>1. TaskCreate(id) \in WifiOps /\ TaskCreate(id).op = "taskCreate"
    BY <1>1 DEF WifiOps, TaskCreate
  <2> QED BY <2>1, WifiServed
<1> QED BY <1>1 DEF CreateFits, DeleteFits

LEMMA NothingIs ==
  /\ Nothing.op = "nothing" /\ Stage(Nothing) = 0 /\ ~AtList(Nothing) /\ ~Booting(Nothing)
  /\ \A d : ~Removing(Nothing, d) /\ ~Creating(Nothing, d)
BY DEF Nothing, Stage, AtList, Booting, Removing, Creating

LEMMA DormantIs ==
  ASSUME NEW o, o.op = "dormant"
  PROVE  /\ Stage(o) = 0 /\ \A d : ~Removing(o, d)
BY NoStage, RemovingIs

\* What the request says of the one who made it.
LEMMA StartIs ==
  ASSUME Full, schedPc = "CREATE"
  PROVE  LET b == schedItem.TaskHandler
             w == schedItem.who
         IN
         /\ b \in Blocks /\ w \in Procs /\ b \in heap \ listed
         /\ schedItem # NULL /\ schedItem.RkTaskEvent = "CREATE"
         /\ Asks("CREATE", b, w) /\ CreateFits(w, ItemID)
         /\ ItemID = "SHELL" => /\ w = "device" /\ Creates(b, "device", "SHELL")
                                /\ Doing("device") = Only("listen")
         /\ ItemID = "WIFI_APPLICATION" => /\ w = "shell" /\ Creates(b, "shell", "WIFI_APPLICATION")
                                           /\ Doing("shell") = Only("awaitLink")
         /\ ItemID = "SDIO_IRQ_TASK" => /\ w = "device" /\ Creates(b, "device", "SDIO_IRQ_TASK")
                                        /\ Doing("device") = Created("SDIO", TRUE)
<1> DEFINE b == schedItem.TaskHandler  w == schedItem.who
<1>0. /\ Shape /\ TMTypeOK /\ Owned /\ RequestInv
  BY FullHas DEF PfInv
<1>1. /\ schedItem # NULL /\ schedItem.RkTaskEvent = "CREATE" /\ w # NULL
  BY <1>0 DEF Shape, Requests
<1>2. schedItem \in Item BY <1>0, <1>1 DEF TMTypeOK
<1>3. b \in Blocks /\ w \in Procs BY <1>1, <1>2 DEF Item
<1>4. b \in heap \ listed BY <1>0, <1>1 DEF Owned, OwnedItem, Holds
<1>5. Asks("CREATE", b, w) BY <1>1 DEF Asks, AsksItem
<1>6. CreateFits(w, ItemID) BY <1>0, <1>3, <1>5 DEF RequestInv, ItemID
<1> HIDE DEF b, w
<1>7. ItemID = TaskClassID[b] BY DEF ItemID, b
<1>8. CASE ItemID = "SHELL"
  <2>1. w = "device" /\ Doing("device") = FollowDevice(TaskCreate("SHELL"))
    BY <1>6, <1>8 DEF CreateFits
  <2>2. FollowDevice(TaskCreate("SHELL")) = Only("listen") BY DEF FollowDevice, TaskCreate
  <2> QED BY <1>1, <1>3, <1>4, <1>5, <1>6, <1>7, <1>8, <2>1, <2>2 DEF Creates, b, w
<1>9. CASE ItemID = "WIFI_APPLICATION"
  <2>1. w = "shell" /\ Doing("shell") = FollowShell(TaskCreate("WIFI_APPLICATION"))
    BY <1>6, <1>9 DEF CreateFits
  <2>2. FollowShell(TaskCreate("WIFI_APPLICATION")) = Only("awaitLink") BY DEF FollowShell, TaskCreate
  <2> QED BY <1>1, <1>3, <1>4, <1>5, <1>6, <1>7, <1>9, <2>1, <2>2 DEF Creates, b, w
<1>10. CASE ItemID = "SDIO_IRQ_TASK"
  <2>1. w = "device" /\ Doing("device") = FollowDevice(TaskCreate("SDIO_IRQ_TASK"))
    BY <1>6, <1>10 DEF CreateFits
  <2>2. FollowDevice(TaskCreate("SDIO_IRQ_TASK")) = Created("SDIO", TRUE)
    BY DEF FollowDevice, TaskCreate
  <2> QED BY <1>1, <1>3, <1>4, <1>5, <1>6, <1>7, <1>10, <2>1, <2>2 DEF Creates, b, w
<1>11. CASE ItemID \notin {"SHELL", "WIFI_APPLICATION", "SDIO_IRQ_TASK"}
  BY <1>1, <1>3, <1>4, <1>5, <1>6, <1>11 DEF b, w
<1> QED BY <1>8, <1>9, <1>10, <1>11

LEMMA StartDoing ==
  ASSUME Full, TaskStarts
  PROVE  /\ \A q \in All \ Runs(ItemID) : Doing(q)' = Doing(q)
         /\ Doing("device")' = Doing("device")
         /\ \/ Doing("shell")' = Doing("shell") /\ ItemID # "SHELL"
            \/ ItemID = "SHELL" /\ Doing("shell").op = "dormant" /\ Doing("shell")' = Nothing
         /\ \/ Doing("wifi")' = Doing("wifi") /\ ItemID # "WIFI_APPLICATION"
            \/ /\ ItemID = "WIFI_APPLICATION" /\ Doing("wifi").op = "dormant"
               /\ Doing("wifi")' = TaskCreate("TCPIP_THREAD")
<1> DEFINE id == ItemID
<1>0. PfInv /\ Scripts /\ BootInv /\ WifiInv BY FullHas
<1>1. /\ todo' = [p \in DOMAIN todo |-> IF p \in Runs(id) THEN TaskFun(id) ELSE todo[p]]
      /\ id = "SHELL" => TaskFun(id) = <<>>
  BY DEF TaskStarts, TaskFun
<1>2. schedPc = "CREATE" BY DEF TaskStarts
<1>3. /\ id = "SHELL" => Doing("shell").op = "dormant"
      /\ id = "WIFI_APPLICATION" => Doing("wifi").op = "dormant"
  <2>1. CASE id = "SHELL"
    <3>1. Creates(schedItem.TaskHandler, "device", "SHELL") /\ schedItem.TaskHandler \in Blocks
      BY <1>2, <2>1, StartIs
    <3> QED BY <1>0, <2>1, <3>1 DEF BootInv
  <2>2. CASE id = "WIFI_APPLICATION"
    <3>1. /\ Creates(schedItem.TaskHandler, "shell", "WIFI_APPLICATION")
          /\ schedItem.TaskHandler \in Blocks
      BY <1>2, <2>2, StartIs
    <3> QED BY <1>0, <2>2, <3>1 DEF WifiInv
  <2> QED BY <2>1, <2>2
<1> HIDE DEF id
<1>4. \A q \in All : Doing(q)' = IF q \in Runs(id) THEN First1(TaskFun(id)) ELSE Doing(q)
  <2> DEFINE s == TaskFun(id)
  <2>1. /\ todo' = [p \in DOMAIN todo |-> IF p \in Runs(id) THEN s ELSE todo[p]]
        /\ s = TaskFun(id) /\ (id = "SHELL" => s = <<>>)
    BY <1>1
  <2> HIDE DEF s
  <2>2. \A q \in All : Doing(q)' = IF q \in Runs(id) THEN First1(s) ELSE Doing(q)
    BY <1>0, <2>1, RunsScripts
  <2> QED BY <2>1, <2>2
<1>5. /\ "device" \notin Runs(id)
      /\ "shell" \in Runs(id) <=> id = "SHELL"
      /\ "wifi" \in Runs(id) <=> id = "WIFI_APPLICATION"
  BY DEF Runs
<1>6. First1(<<>>) = Nothing BY DEF First1
<1>7. First1(TaskFun("WIFI_APPLICATION")) = TaskCreate("TCPIP_THREAD")
  <2>1. TaskFun("WIFI_APPLICATION") = WifiApplication BY DEF TaskFun
  <2> QED BY <2>1, WifiPrograms DEF First1
<1>8. Doing("device")' = Doing("device") BY <1>4, <1>5, Members
<1>9. \/ Doing("shell")' = Doing("shell") /\ id # "SHELL"
      \/ id = "SHELL" /\ Doing("shell").op = "dormant" /\ Doing("shell")' = Nothing
  BY <1>1, <1>3, <1>4, <1>5, <1>6, Members
<1>10. \/ Doing("wifi")' = Doing("wifi") /\ id # "WIFI_APPLICATION"
       \/ id = "WIFI_APPLICATION" /\ Doing("wifi").op = "dormant" /\ Doing("wifi")' = TaskCreate("TCPIP_THREAD")
  BY <1>3, <1>4, <1>5, <1>7, Members
<1>11. \A q \in All \ Runs(id) : Doing(q)' = Doing(q) BY <1>4
<1> QED BY <1>8, <1>9, <1>10, <1>11 DEF id

LEMMA StartRun ==
  ASSUME Full, TaskStarts, Scripts'
  PROVE  cause' = {} /\ RunInv'
<1> DEFINE id == ItemID  b == schedItem.TaskHandler  w == schedItem.who
           os == Doing("shell")  ns == Doing("shell")'  ow == Doing("wifi")  nw == Doing("wifi")'
           od == Doing("device")
<1>0. /\ TMTypeOK /\ Matched /\ CallInv /\ cause = {} /\ BootInv
      /\ "device" \in Procs /\ "shell" \in Procs /\ "wifi" \in Procs
  BY FullHas, PlatformAssumption DEF PfInv
<1>1. /\ schedPc = "CREATE" /\ TaskCreated /\ UNCHANGED drVars
      /\ UNCHANGED <<DeviceAskQueue, DeviceRespQueue>>
      /\ UNCHANGED <<wlanUp, wlanInitialised, linkUp>>
  BY DEF TaskStarts, OthersAlone, wlVars
<1>2. /\ b \in Blocks /\ w \in Procs /\ b \in heap \ listed
      /\ schedItem # NULL /\ schedItem.RkTaskEvent = "CREATE"
      /\ Asks("CREATE", b, w) /\ CreateFits(w, id)
      /\ id = "SHELL" => /\ w = "device" /\ Creates(b, "device", "SHELL") /\ od = Only("listen")
      /\ id = "WIFI_APPLICATION" => /\ w = "shell" /\ Creates(b, "shell", "WIFI_APPLICATION")
                                    /\ os = Only("awaitLink")
      /\ id = "SDIO_IRQ_TASK" => /\ w = "device" /\ Creates(b, "device", "SDIO_IRQ_TASK")
                                 /\ od = Created("SDIO", TRUE)
  BY <1>1, StartIs
<1>3. /\ Doing("device")' = od
      /\ \/ ns = os /\ id # "SHELL"
         \/ id = "SHELL" /\ os.op = "dormant" /\ ns = Nothing
      /\ \/ nw = ow /\ id # "WIFI_APPLICATION"
         \/ id = "WIFI_APPLICATION" /\ ow.op = "dormant" /\ nw = TaskCreate("TCPIP_THREAD")
  BY StartDoing
<1>4. id = TaskClassID[b] BY DEF ItemID
<1>5. /\ UNCHANGED <<TaskClassID, TaskAskQueue, call, cause>>
      /\ listed' = listed \cup {b}
      /\ schedItem' = [schedItem EXCEPT !.RkTaskEvent = "CREATE_SUCCESS"]
      /\ TaskListHead' = TaskListHead
  <2>1. TaskListHead # NULL BY <1>0, TaskAssumption DEF BootInv, TMTypeOK
  <2> QED BY <1>1, <2>1 DEF TaskCreated, RKTaskRegister, AnswerWith
<1>6. UNCHANGED <<registered, devOp, Cnt, hdl>> BY <1>1 DEF drVars
<1> HIDE DEF id, b, w, os, ns, ow, nw, od
\* The request is no longer there, and it was the only one of its caller.
<1>7. \A e \in Requests, c \in Blocks, q \in Procs \cup {NULL} :
        Asks(e, c, q)' => Asks(e, c, q) /\ q # w
  <2>1. ASSUME NEW e \in Requests, NEW c \in Blocks, NEW q \in Procs \cup {NULL}, Asks(e, c, q)'
        PROVE  Asks(e, c, q) /\ q # w
    <3>1. ~AsksItem(schedItem, e, c, q)'
      <4>1. schedItem \in Item BY <1>0, <1>2 DEF TMTypeOK
      <4>2. schedItem'.RkTaskEvent = "CREATE_SUCCESS" BY <1>5, <4>1 DEF Item
      <4> QED BY <4>2 DEF AsksItem, Requests
    <3>2. AsksCall(e, c, q) \/ AsksItem(TaskAskQueue, e, c, q)
      BY <1>5, <2>1, <3>1 DEF Asks, AsksCall, AsksItem
    <3>3. ~AsksCall(e, c, w) /\ ~AsksItem(TaskAskQueue, e, c, w)
      BY <1>0, <1>2, OneRequest DEF w
    <3> QED BY <3>2, <3>3 DEF Asks
  <2> QED BY <2>1
<1>8. \A c \in Blocks : Asks("DELETE", c, "shell") => Asks("DELETE", c, "shell")'
  BY <1>2, <1>5 DEF Asks, AsksCall, AsksItem
<1>9. \A i : RKTaskFind(i)' = IF i = id THEN RKTaskFind(i) \cup {b} ELSE RKTaskFind(i)
  BY <1>4, <1>5 DEF RKTaskFind
<1>10. \A c \in Blocks, q \in Procs : \A i : Creates(c, q, i)' => Creates(c, q, i) /\ q # w
  BY <1>5, <1>7 DEF Creates, Requests
<1>11. RequestInv'
  <2>1. ASSUME NEW c \in Blocks, NEW q \in Procs \cup {NULL}, Asks("CREATE", c, q)'
        PROVE  CreateFits(q, TaskClassID[c])'
    <3>1. Asks("CREATE", c, q) BY <1>7, <2>1 DEF Requests
    <3>2. CreateFits(q, TaskClassID[c]) BY <3>1, FullHas DEF RequestInv
    <3>3. q = "shell" => ns = os BY <1>3, <3>2, DormantShell DEF os
    <3>4. q = "wifi" => nw = ow BY <1>3, <3>2, DormantWifi DEF ow
    <3> QED BY <1>3, <1>5, <3>2, <3>3, <3>4 DEF CreateFits, os, ns, ow, nw, od
  <2>2. ASSUME NEW c \in Blocks, NEW q \in Procs \cup {NULL}, Asks("DELETE", c, q)'
        PROVE  DeleteFits(q, TaskClassID[c])'
    <3>1. Asks("DELETE", c, q) BY <1>7, <2>2 DEF Requests
    <3>2. DeleteFits(q, TaskClassID[c]) BY <3>1, FullHas DEF RequestInv
    <3>3. q = "shell" /\ TaskClassID[c] \notin {"HTTP", "WWD"} => ns = os BY <1>3, <3>2, DormantShell DEF os
    <3> QED BY <1>5, <3>2, <3>3 DEF DeleteFits, os, ns
  <2> QED BY <2>1, <2>2 DEF RequestInv
<1>12. CallInv'
  <2>1. call["wifi"].pc = "idle" \/ nw = ow BY <1>0, <1>3 DEF CallInv, ow
  <2> QED BY <1>0, <1>5, <2>1 DEF CallInv, ow, nw
<1>13. WifiInv'
  <2>1. \A c \in RKTaskFind("WIFI_APPLICATION") : c \in Blocks BY <1>0 DEF RKTaskFind, TMTypeOK
  <2>2. CASE id = "WIFI_APPLICATION"
    <3>1. RKTaskFind("WIFI_APPLICATION") = {} BY <1>2, <2>2, FullHas DEF WifiInv
    <3>2. RKTaskFind("WIFI_APPLICATION")' = {b} BY <1>9, <2>2, <3>1
    <3>4. ns = Only("awaitLink") BY <1>2, <1>3, <2>2
    <3>5. Stage(ns) = 0 /\ ns.op # "taskCreate" /\ ns.op # "closeOver" /\ ~(0 > 0)
      BY <3>4, NoStage DEF Only
    <3>6. \A c \in Blocks : ~Creates(c, "shell", "WIFI_APPLICATION")' BY <1>0, <1>2, <1>10, <2>2
    <3> QED BY <3>2, <3>5, <3>6 DEF WifiInv, ns
  <2>3. CASE id # "WIFI_APPLICATION"
    <3>1. RKTaskFind("WIFI_APPLICATION")' = RKTaskFind("WIFI_APPLICATION") BY <1>9, <2>3
    <3>2. nw = ow BY <1>3, <2>3
    <3>3. ns = os \/ (ns.op # "taskCreate" /\ ns.op # "closeOver" /\ Stage(ns) = 0 /\ ~(0 > 0))
      BY <1>3, NothingIs
    <3>4. \A c \in Blocks : Creates(c, "shell", "WIFI_APPLICATION")' => Creates(c, "shell", "WIFI_APPLICATION")
      BY <1>0, <1>10
    <3> QED BY <1>8, <2>1, <3>1, <3>2, <3>3, <3>4, FullHas DEF WifiInv, os, ns, ow, nw
  <2> QED BY <2>2, <2>3
<1>13a. WlanInv'
  <2>0. WlanInv BY FullHas
  <2>1. CASE id = "WIFI_APPLICATION"
    <3>1. os = Only("awaitLink") /\ ns = Only("awaitLink") BY <1>2, <1>3, <2>1
    <3>2. Stage(os) = 0 /\ os.op = "awaitLink" BY <3>1, NoStage DEF Only
    <3>3. ow.op = "dormant" /\ nw = TaskCreate("TCPIP_THREAD") BY <1>3, <2>1
    <3>4. nw.op = "taskCreate" /\ nw.id = "TCPIP_THREAD" BY <3>3 DEF TaskCreate
    <3>5. ~OnBus(nw) /\ ~OnBus(ow) BY <3>3, <3>4 DEF OnBus
    <3>6. ~(0 \in 2 .. 6) OBVIOUS
    <3>7. ~wlanInitialised BY <2>0, <3>3 DEF WlanInv, ow
    <3>8. ~linkUp BY <2>0, <3>7 DEF WlanInv
    <3>9. ~wlanUp BY <2>0, <3>2, <3>3, <3>6, <3>7 DEF WlanInv, ow, os
    <3>10. hdl["hSdio"] = NULL BY <2>0, <3>3, <3>5 DEF WlanInv, ow
    <3>11. hdl'["hSdio"] = NULL BY <1>6, <3>10
    <3>12. ~wlanInitialised' /\ ~linkUp' /\ ~wlanUp' BY <1>1, <3>7, <3>8, <3>9
    <3>13. ns.op = "awaitLink" BY <3>1 DEF Only
    <3> QED BY <3>4, <3>5, <3>11, <3>12, <3>13 DEF WlanInv, ns, nw
  <2>2. CASE id # "WIFI_APPLICATION"
    <3>1. nw = ow BY <1>3, <2>2
    <3>2. CASE ns = os BY <2>0, <1>1, <1>6, <3>1, <3>2, KeepWlanShell DEF os, ns, ow, nw
    <3>3. CASE os.op = "dormant" /\ ns = Nothing
      <4>1. Stage(os) = 0 /\ Stage(ns) = 0 /\ ns.op = "nothing"
        BY <3>3, NothingIs, DormantIs
      <4>2. ~(0 \in 2 .. 6) /\ 0 < 2 /\ ~(0 >= 2) OBVIOUS
      <4> QED BY <2>0, <1>1, <1>6, <3>1, <3>3, <4>1, <4>2, KeepWlan DEF os, ns, ow, nw
    <3> QED BY <1>3, <3>2, <3>3
  <2> QED BY <2>1, <2>2
<1>14. BootInv'
  <2>1. TaskListHead' \in listed' /\ TaskClassID'[TaskListHead'] = "DEVICE_TASK"
    BY <1>0, <1>5 DEF BootInv
  <2>2. CASE id = "SHELL"
    <3>1. ~Booting(od)
      <4>1. od.op = "listen" BY <1>2, <2>2 DEF Only
      <4> QED BY <4>1 DEF Booting
    <3>2. \A c \in Blocks : ~Creates(c, "device", "SHELL")' BY <1>0, <1>2, <1>10, <2>2
    <3> QED BY <1>3, <2>1, <3>1, <3>2 DEF BootInv, od
  <2>3. CASE id # "SHELL"
    <3>1. \A c \in Blocks : Creates(c, "device", "SHELL")' => Creates(c, "device", "SHELL")
      BY <1>0, <1>10
    <3>2. ns = os BY <1>3, <2>3
    <3> QED BY <1>0, <1>3, <2>1, <3>1, <3>2 DEF BootInv, od, os, ns
  <2> QED BY <2>2, <2>3
<1>15. \A d : Removing(ns, d) <=> Removing(os, d) BY <1>3, NothingIs, DormantIs
<1>16. DevOpInv' BY <1>3, <1>6, <1>15, FullHas, KeepDevOp DEF os, ns, od
<1>17. IrqInv'
  <2>1. \A c \in Blocks : Creates(c, "device", "SDIO_IRQ_TASK")' =>
          Creates(c, "device", "SDIO_IRQ_TASK") /\ w # "device"
    BY <1>0, <1>10
  <2>2. CASE id = "SDIO_IRQ_TASK"
    <3>1. RKTaskFind("SDIO_IRQ_TASK") = {} BY <1>2, <2>2, FullHas DEF IrqInv
    <3>2. RKTaskFind("SDIO_IRQ_TASK")' = {b} BY <1>9, <2>2, <3>1
    <3>3. od.op = "created" /\ od.ok = TRUE /\ od.dev = "SDIO" BY <1>2, <2>2 DEF Created
    <3>4. Creating(od, "SDIO") BY <3>3 DEF Creating
    <3>5. ~(ns.op = "deleted" /\ ns.dev = "SDIO")
      <4>1. ~Removing(os, "SDIO") BY <3>4, NotBoth, CardDevices DEF od, os
      <4> QED BY <1>15, <4>1 DEF Removing
    <3>6. \A c \in Blocks : ~Creates(c, "device", "SDIO_IRQ_TASK")' BY <1>2, <2>1, <2>2
    <3> QED BY <1>3, <3>2, <3>3, <3>4, <3>5, <3>6 DEF IrqInv, od, ns
  <2>3. CASE id # "SDIO_IRQ_TASK"
    <3>1. RKTaskFind("SDIO_IRQ_TASK")' = RKTaskFind("SDIO_IRQ_TASK") BY <1>9, <2>3
    <3>2. RKTaskFind("SDIO_IRQ_TASK") \subseteq Blocks BY <1>0 DEF RKTaskFind, TMTypeOK
    <3>3. ns.op = "deleted" => ns = os BY <1>3, NothingIs
    <3>4. Removing(os, "SDIO") => Removing(ns, "SDIO") BY <1>15
    <3> QED BY <1>3, <1>6, <1>8, <2>1, <3>1, <3>2, <3>3, <3>4, FullHas DEF IrqInv, od, os, ns
  <2> QED BY <2>2, <2>3
<1>18. CardInv'
  <2>1. Stage(ns) \in {0, Stage(os)} BY <1>3, NothingIs
  <2> QED BY <1>3, <1>6, <2>1, FullHas, KeepCard DEF CardInv, od, os, ns
<1>19. ListsDue'
  <2>1. ns.op = "receiveList" <=> os.op = "receiveList" BY <1>3, NothingIs
  <2>2. nw.op = "receiveList" <=> ow.op = "receiveList" BY <1>3 DEF TaskCreate
  <2>3. Balance'
    BY <1>1, <1>3, <2>1, <2>2, FullHas DEF Balance, Waits, Asked, Answered, Working, Wait, od, os, ns, ow, nw
  <2>4. cause' = {} BY <1>0, <1>5
  <2> QED BY <2>3, <2>4, BalanceNext
<1>20. cause' = {} BY <1>0, <1>5
<1> QED BY <1>11, <1>12, <1>13, <1>13a, <1>14, <1>16, <1>17, <1>18, <1>19, <1>20 DEF RunInv

(* The tasks that anybody deletes.                                         *)
Deletable == {"HTTP", "WWD", "AUDIOCONTROL", "STREAMCONTROL", "SDIO_IRQ_TASK", "TCPIP_THREAD",
             "WIFI_APPLICATION"}
\* What a request to delete says of the one who made it.
LEMMA EndIs ==
  ASSUME Full, schedPc = "DELETE"
  PROVE  LET b == schedItem.TaskHandler
             w == schedItem.who
         IN
         /\ b \in listed /\ b \in Blocks /\ w \in Procs \cup {NULL}
         /\ schedItem # NULL /\ schedItem \in Item /\ schedItem.RkTaskEvent = "DELETE"
         /\ ItemID \in Deletable
         /\ ItemID = "WIFI_APPLICATION" => w = "shell" /\ Doing("shell") = Only("closeOver")
         /\ ItemID = "SDIO_IRQ_TASK" => w = "shell" /\ Doing("shell") = Deleted("SDIO")
<1> DEFINE b == schedItem.TaskHandler  w == schedItem.who
<1>0. Shape /\ TMTypeOK /\ Owned /\ RequestInv BY FullHas DEF PfInv
<1>1. schedItem # NULL /\ schedItem.RkTaskEvent = "DELETE" BY <1>0 DEF Shape, Requests
<1>2. schedItem \in Item BY <1>0, <1>1 DEF TMTypeOK
<1>3. b \in Blocks /\ w \in Procs \cup {NULL} BY <1>2 DEF Item
<1>4. b \in listed BY <1>0, <1>1 DEF Owned, OwnedItem, Holds
<1>5. Asks("DELETE", b, w) BY <1>1 DEF Asks, AsksItem
<1>6. DeleteFits(w, ItemID) BY <1>0, <1>3, <1>5 DEF RequestInv, ItemID
<1> HIDE DEF b, w
<1>7. ItemID \in Deletable BY <1>6 DEF DeleteFits, Deletable
<1>8. ItemID = "WIFI_APPLICATION" => w = "shell" /\ Doing("shell") = Only("closeOver")
  <2>1. FollowShell(TaskDelete("WIFI_APPLICATION", "SYNC_MODE")) = Only("closeOver")
    BY DEF FollowShell, TaskDelete
  <2> QED BY <1>6, <2>1 DEF DeleteFits
<1>9. ItemID = "SDIO_IRQ_TASK" => w = "shell" /\ Doing("shell") = Deleted("SDIO")
  <2>1. FollowShell(TaskDelete("SDIO_IRQ_TASK", "SYNC_MODE")) = Deleted("SDIO")
    BY DEF FollowShell, TaskDelete
  <2> QED BY <1>6, <2>1 DEF DeleteFits
<1> QED BY <1>1, <1>2, <1>3, <1>4, <1>7, <1>8, <1>9 DEF b, w

LEMMA EndDoing ==
  ASSUME Full, TaskEnds
  PROVE  /\ Doing("device")' = Doing("device") /\ Doing("shell")' = Doing("shell")
         /\ \/ Doing("wifi")' = Doing("wifi") /\ ItemID # "WIFI_APPLICATION"
            \/ ItemID = "WIFI_APPLICATION" /\ Doing("wifi")'.op = "dormant"
<1> DEFINE id == ItemID
<1>0. PfInv /\ Scripts BY FullHas
<1>1. /\ todo' = [p \in DOMAIN todo |-> IF p \in Runs(id) THEN Dormant ELSE todo[p]]
      /\ schedPc = "DELETE"
  BY DEF TaskEnds
<1>2. id \in Deletable BY <1>1, EndIs
<1> HIDE DEF id
<1>3. \A q \in All : Doing(q)' = IF q \in Runs(id) THEN First1(Dormant) ELSE Doing(q)
  <2> DEFINE s == Dormant
  <2>1. /\ todo' = [p \in DOMAIN todo |-> IF p \in Runs(id) THEN s ELSE todo[p]]
        /\ s = Dormant
    BY <1>1
  <2> HIDE DEF s
  <2>2. \A q \in All : Doing(q)' = IF q \in Runs(id) THEN First1(s) ELSE Doing(q)
    BY <1>0, <2>1, RunsScripts
  <2> QED BY <2>1, <2>2
<1>4. /\ "device" \notin Runs(id) /\ "shell" \notin Runs(id)
      /\ "wifi" \in Runs(id) <=> id = "WIFI_APPLICATION"
  BY <1>2 DEF Runs, Deletable
<1>5. First1(Dormant).op = "dormant" BY DormantPrograms DEF First1
<1>6. Doing("device")' = Doing("device") /\ Doing("shell")' = Doing("shell") BY <1>3, <1>4, Members
<1>7. \/ Doing("wifi")' = Doing("wifi") /\ id # "WIFI_APPLICATION"
      \/ id = "WIFI_APPLICATION" /\ Doing("wifi")'.op = "dormant"
  BY <1>3, <1>4, <1>5, Members
<1> QED BY <1>6, <1>7 DEF id

LEMMA EndRun ==
  ASSUME Full, TaskEnds, Scripts'
  PROVE  cause' = {} /\ RunInv'
<1> DEFINE id == ItemID  b == schedItem.TaskHandler  w == schedItem.who  killed == Runs(ItemID)
           os == Doing("shell")  ow == Doing("wifi")  nw == Doing("wifi")'
<1>0. /\ TMTypeOK /\ Matched /\ CallInv /\ cause = {} /\ BootInv /\ WifiInv /\ IrqInv /\ CardInv
      /\ WlanInv
      /\ "device" \in Procs /\ "shell" \in Procs /\ "wifi" \in Procs /\ "http" \in Procs
      /\ "wwd" \in Procs
  BY FullHas, PlatformAssumption DEF PfInv
<1>1. /\ schedPc = "DELETE" /\ TaskDeleted(killed) /\ UNCHANGED drVars
      /\ UNCHANGED <<DeviceAskQueue, DeviceRespQueue>>
      /\ UNCHANGED <<wlanUp, wlanInitialised, linkUp>>
  BY DEF TaskEnds, OthersAlone, wlVars
<1>2. /\ b \in listed /\ b \in Blocks /\ w \in Procs \cup {NULL}
      /\ schedItem # NULL /\ schedItem \in Item /\ schedItem.RkTaskEvent = "DELETE"
      /\ id \in Deletable
      /\ id = "WIFI_APPLICATION" => w = "shell" /\ os = Only("closeOver")
      /\ id = "SDIO_IRQ_TASK" => w = "shell" /\ os = Deleted("SDIO")
  BY <1>1, EndIs
<1>3. /\ Doing("device")' = Doing("device") /\ Doing("shell")' = os
      /\ \/ nw = ow /\ id # "WIFI_APPLICATION"
         \/ id = "WIFI_APPLICATION" /\ nw.op = "dormant"
  BY EndDoing
<1>4. id = TaskClassID[b] BY DEF ItemID
<1>5. killed \subseteq {"http", "wwd"} \/ (killed = {"wifi"} /\ id = "WIFI_APPLICATION")
  BY <1>2 DEF Runs, Deletable
<1>6. b # TaskListHead BY <1>0, <1>2, <1>4 DEF BootInv, Deletable
<1> HIDE DEF id, b, w, killed, os, ow, nw
\* When the shell has asked for the end of the Wi-Fi task, that is not in a call.
<1>6a. id = "WIFI_APPLICATION" =>
         /\ os.op = "closeOver" /\ Stage(os) = 8 /\ ow.op \in {"nothing", "dormant"}
         /\ call["wifi"].pc = "idle"
  <2>1. SUFFICES ASSUME id = "WIFI_APPLICATION"
                 PROVE  /\ os.op = "closeOver" /\ Stage(os) = 8
                        /\ ow.op \in {"nothing", "dormant"} /\ call["wifi"].pc = "idle"
    OBVIOUS
  <2>2. os.op = "closeOver" BY <1>2, <2>1 DEF Only
  <2>3. Stage(os) = 8 /\ 8 > 0 BY <2>2 DEF Stage
  <2>4. ow.op \in {"nothing", "dormant"} BY <1>0, <2>3 DEF WifiInv, os, ow
  <2>5. call["wifi"].pc = "idle" BY <1>0, <2>4 DEF CallInv, ow
  <2> QED BY <2>2, <2>3, <2>4, <2>5
<1>6b. killed \subseteq {"http", "wifi", "wwd"} BY <1>5
<1>7. killed \cap Waiting = {}
  <2>1. \A q \in killed : call[q].pc = "idle" \/ (call[q].pc = "ask" /\ call[q].RkTaskEvent = "DELETE")
    BY <1>0, <1>5, <1>6a DEF CallInv
  <2> QED BY <2>1 DEF Waiting
<1>8. /\ UNCHANGED <<TaskClassID, TaskAskQueue, TaskListHead>>
      /\ listed' = listed \ {b}
      /\ call' = [p \in Procs |-> IF p \in killed THEN Idle ELSE call[p]]
      /\ schedItem' = NULL \/ \E e \in {"DELETE_SUCCESS", "DELETE_FAIL"} :
                                schedItem' = [schedItem EXCEPT !.RkTaskEvent = e]
      /\ cause' = {}
  <2>1. /\ TaskListHead' = IF b = TaskListHead THEN NULL ELSE TaskListHead
        /\ listed' = IF b = TaskListHead THEN {} ELSE listed \ {b}
        /\ cause' = cause \cup (IF b = TaskListHead THEN {"head"} ELSE {})
                   \cup (IF killed \cap Waiting = {} THEN {} ELSE {"waiter"})
        /\ UNCHANGED <<TaskClassID, TaskAskQueue>>
        /\ call' = [p \in Procs |-> IF p \in killed THEN Idle ELSE call[p]]
    BY <1>1 DEF TaskDeleted, RKTaskUnRegister, b
  <2>2. schedItem' = NULL \/ \E e \in {"DELETE_SUCCESS", "DELETE_FAIL"} :
                                schedItem' = [schedItem EXCEPT !.RkTaskEvent = e]
    BY <1>1 DEF TaskDeleted, AnswerWith
  <2> QED BY <1>0, <1>6, <1>7, <2>1, <2>2
<1>9. UNCHANGED <<registered, devOp, Cnt, hdl>> BY <1>1 DEF drVars
<1>10. \A e \in Requests : \A c, q : ~AsksItem(schedItem, e, c, q)'
  BY <1>2, <1>8 DEF AsksItem, Requests, Item
<1>11. \A q \in Procs : call'[q] = IF q \in killed THEN Idle ELSE call[q] BY <1>8
<1>12. \A e \in Requests, c \in Blocks, q \in Procs \cup {NULL} : Asks(e, c, q)' => Asks(e, c, q)
  <2>1. ASSUME NEW e \in Requests, NEW c \in Blocks, NEW q \in Procs \cup {NULL}, Asks(e, c, q)'
        PROVE  Asks(e, c, q)
    <3>1. CASE AsksCall(e, c, q)'
      <4>1. q \in Procs /\ call'[q] = call[q] BY <1>11, <3>1 DEF AsksCall, Idle
      <4> QED BY <3>1, <4>1 DEF AsksCall, Asks
    <3>2. CASE AsksItem(TaskAskQueue, e, c, q)' BY <1>8, <3>2 DEF AsksItem, Asks
    <3> QED BY <1>10, <2>1, <3>1, <3>2 DEF Asks
  <2> QED BY <2>1
<1>13. \A c \in Blocks : Asks("DELETE", c, "shell") /\ c # b => Asks("DELETE", c, "shell")'
  <2>1. SUFFICES ASSUME NEW c \in Blocks, Asks("DELETE", c, "shell"), c # b
                 PROVE  Asks("DELETE", c, "shell")'
    OBVIOUS
  <2>2. CASE AsksCall("DELETE", c, "shell")
    <3>1. call'["shell"] = call["shell"] BY <1>0, <1>6b, <1>11
    <3> QED BY <2>2, <3>1 DEF AsksCall, Asks
  <2>3. CASE AsksItem(TaskAskQueue, "DELETE", c, "shell") BY <1>8, <2>3 DEF AsksItem, Asks
  <2>4. ~AsksItem(schedItem, "DELETE", c, "shell") BY <2>1 DEF AsksItem, b
  <2> QED BY <2>1, <2>2, <2>3, <2>4 DEF Asks
<1>14. \A i : RKTaskFind(i)' = IF i = id THEN RKTaskFind(i) \ {b} ELSE RKTaskFind(i)
  BY <1>4, <1>8 DEF RKTaskFind
<1>15. \A c \in Blocks, q \in Procs : \A i : Creates(c, q, i)' => Creates(c, q, i)
  BY <1>8, <1>12 DEF Creates, Requests
<1>16. b \in RKTaskFind(id) BY <1>2, <1>4 DEF RKTaskFind
<1>17. RequestInv'
  <2>1. ASSUME NEW c \in Blocks, NEW q \in Procs \cup {NULL}, Asks("CREATE", c, q)'
        PROVE  CreateFits(q, TaskClassID[c])'
    <3>1. Asks("CREATE", c, q) BY <1>12, <2>1 DEF Requests
    <3>2. CreateFits(q, TaskClassID[c]) BY <3>1, FullHas DEF RequestInv
    <3>3. q = "wifi" => nw = ow BY <1>3, <1>6a, <3>2, DormantWifi DEF ow
    <3> QED BY <1>3, <1>8, <3>2, <3>3 DEF CreateFits, os, ow, nw
  <2>2. ASSUME NEW c \in Blocks, NEW q \in Procs \cup {NULL}, Asks("DELETE", c, q)'
        PROVE  DeleteFits(q, TaskClassID[c])'
    <3>1. Asks("DELETE", c, q) BY <1>12, <2>2 DEF Requests
    <3>2. DeleteFits(q, TaskClassID[c]) BY <3>1, FullHas DEF RequestInv
    <3> QED BY <1>3, <1>8, <3>2 DEF DeleteFits, os
  <2> QED BY <2>1, <2>2 DEF RequestInv
<1>18. CallInv'
  <2>1. \A q \in Procs : call'[q].pc = "ask" => call'[q] = call[q] BY <1>11 DEF Idle
  <2>2. \A q \in {"wifi", "http", "wwd"} : call'[q].pc = "idle" \/ call'[q] = call[q]
    BY <1>0, <1>11 DEF Idle
  <2>3. call'["wifi"].pc = "idle" \/ nw.op \in {"wifiOn", "wlanUp"}
    BY <1>0, <1>3, <1>6a, <2>2 DEF CallInv, ow
  <2>4. \A q \in Procs : call'[q].pc = "ask" /\ call'[q].RkTaskEvent = "DELETE" =>
          (call'[q].Mode = "ASYNC_MODE" <=> TaskClassID'[call'[q].TaskHandler] \in {"HTTP", "WWD"})
    BY <1>0, <1>8, <2>1 DEF CallInv
  <2>5. \A q \in {"http", "wwd"} :
          call'[q].pc = "idle" \/ (call'[q].pc = "ask" /\ call'[q].RkTaskEvent = "DELETE")
    BY <1>0, <2>2 DEF CallInv
  <2> QED BY <2>3, <2>4, <2>5 DEF CallInv, nw
<1>19. WifiInv'
  <2>2. CASE id = "WIFI_APPLICATION"
    <3>1. RKTaskFind("WIFI_APPLICATION")' = {} BY <1>0, <1>14, <1>16, <2>2 DEF WifiInv
    <3>2. nw.op = "dormant" BY <1>3, <2>2
    <3> QED BY <3>1, <3>2 DEF WifiInv, nw
  <2>3. CASE id # "WIFI_APPLICATION"
    <3>1. RKTaskFind("WIFI_APPLICATION")' = RKTaskFind("WIFI_APPLICATION") BY <1>14, <2>3
    <3>2. nw = ow BY <1>3, <2>3
    <3>3. \A c \in Blocks : Creates(c, "shell", "WIFI_APPLICATION")' => Creates(c, "shell", "WIFI_APPLICATION")
      BY <1>0, <1>15
    <3>4. \A c \in RKTaskFind("WIFI_APPLICATION") : c \in Blocks /\ c # b
      BY <1>0, <1>4, <2>3 DEF RKTaskFind, TMTypeOK
    <3> QED BY <1>0, <1>3, <1>13, <3>1, <3>2, <3>3, <3>4 DEF WifiInv, os, ow, nw
  <2> QED BY <2>2, <2>3
<1>19a. WlanInv'
  <2>1. CASE id = "WIFI_APPLICATION"
    <3>1. os.op = "closeOver" /\ Stage(os) = 8 /\ ow.op # "join" BY <1>6a, <2>1
    <3>2. 8 >= 3 /\ 8 >= 2 /\ ~(8 < 2) /\ ~(8 \in 2 .. 6) OBVIOUS
    <3>3. nw.op = "dormant" BY <1>3, <2>1
    <3>4. ~OnBus(nw) BY <3>3 DEF OnBus
    <3>5. ~wlanInitialised BY <1>0, <3>1, <3>2 DEF WlanInv, os
    <3>6. ~linkUp BY <1>0, <3>5 DEF WlanInv
    <3>7. ~wlanUp BY <1>0, <3>1, <3>2, <3>5 DEF WlanInv, os, ow
    <3>8. hdl["hSdio"] = NULL BY <1>0, <3>1, <3>2 DEF CardInv, os
    <3>9. hdl'["hSdio"] = NULL BY <1>9, <3>8
    <3>10. ~wlanInitialised' /\ ~linkUp' /\ ~wlanUp' BY <1>1, <3>5, <3>6, <3>7
    <3>11. Doing("shell")'.op = "closeOver" BY <1>3, <3>1
    <3> QED BY <3>3, <3>4, <3>9, <3>10, <3>11 DEF WlanInv, nw
  <2>2. CASE id # "WIFI_APPLICATION"
    <3>1. nw = ow BY <1>3, <2>2
    <3> QED BY <1>0, <1>1, <1>3, <1>9, <3>1, KeepWlanShell DEF os, ow, nw
  <2> QED BY <2>1, <2>2
<1>20. BootInv'
  <2>1. \A c \in Blocks : Creates(c, "device", "SHELL")' => Creates(c, "device", "SHELL")
    BY <1>0, <1>15
  <2> QED BY <1>0, <1>3, <1>6, <1>8, <2>1 DEF BootInv, os
<1>21. DevOpInv' BY <1>3, <1>9, FullHas, KeepDevOp DEF os
<1>22. IrqInv'
  <2>1. CASE id = "SDIO_IRQ_TASK"
    <3>1. RKTaskFind("SDIO_IRQ_TASK")' = {} BY <1>0, <1>14, <1>16, <2>1 DEF IrqInv
    <3> QED BY <3>1 DEF IrqInv
  <2>2. CASE id # "SDIO_IRQ_TASK"
    <3>1. RKTaskFind("SDIO_IRQ_TASK")' = RKTaskFind("SDIO_IRQ_TASK") BY <1>14, <2>2
    <3>2. \A c \in RKTaskFind("SDIO_IRQ_TASK") : c \in Blocks /\ c # b
      BY <1>0, <1>4, <2>2 DEF RKTaskFind, TMTypeOK
    <3>3. \A c \in Blocks : Creates(c, "device", "SDIO_IRQ_TASK")' => Creates(c, "device", "SDIO_IRQ_TASK")
      BY <1>0, <1>15
    <3> QED BY <1>0, <1>3, <1>9, <1>13, <3>1, <3>2, <3>3 DEF IrqInv, os
  <2> QED BY <2>1, <2>2
<1>23. CardInv' BY <1>0, <1>3, <1>9, KeepCard DEF CardInv, os
<1>24. ListsDue'
  <2>1. nw.op = "receiveList" <=> ow.op = "receiveList"
    <3>1. CASE id = "WIFI_APPLICATION" BY <1>3, <1>6a, <3>1
    <3>2. CASE id # "WIFI_APPLICATION" BY <1>3, <3>2
    <3> QED BY <3>1, <3>2
  <2>2. Balance'
    BY <1>1, <1>3, <2>1, FullHas DEF Balance, Waits, Asked, Answered, Working, Wait, os, ow, nw
  <2> QED BY <1>8, <2>2, BalanceNext
<1> QED BY <1>8, <1>17, <1>18, <1>19, <1>19a, <1>20, <1>21, <1>22, <1>23, <1>24 DEF RunInv

----------------------------------------------------------------------------
(* All steps together.                                                     *)
LEMMA InitRun == ASSUME Init PROVE PfInv /\ Clean /\ IInv
<1> DEFINE first == CHOOSE b \in Blocks : TRUE
<1>1. first \in Blocks /\ "DEVICE_TASK" \in TaskIDs BY PlatformAssumption
<1>2. TMInit(first, "DEVICE_TASK") /\ DRInit BY DEF Init
<1> HIDE DEF first
<1>3. PfInv /\ Scripts BY InitPf, InitScripts
<1>4. Clean
  BY <1>2 DEF TMInit, Clean, Agree, Owned, OwnedItem, Apart, ApartCalls, ApartItems, Needs,
              Matched, MatchedItem, NotSame, Idle
<1>5. /\ TaskListHead = first /\ listed = {first}
      /\ TaskClassID = [b \in Blocks |-> IF b = first THEN "DEVICE_TASK" ELSE NULL]
      /\ TaskAskQueue = NULL /\ schedItem = NULL /\ cause = {}
      /\ \A p \in Procs : call[p].pc = "idle"
  BY <1>2 DEF TMInit, Idle
<1>6. TaskClassID[first] = "DEVICE_TASK" BY <1>1, <1>5
<1>7. \A e, b, p : ~Asks(e, b, p) BY <1>5 DEF Asks, AsksCall, AsksItem
<1>8. \A id : id # "DEVICE_TASK" => RKTaskFind(id) = {} BY <1>5, <1>6 DEF RKTaskFind
<1>9. /\ Doing("device") = Create("DMA")
      /\ Doing("shell").op = "dormant" /\ Doing("wifi").op = "dormant"
  <2>1. todo["device"] = DeviceTask /\ todo["shell"] = Dormant /\ todo["wifi"] = Dormant
    BY Members DEF Init, All, Sched
  <2> QED BY <2>1, DevicePrograms, DormantPrograms DEF Doing
<1>10. /\ registered = {"UART"} /\ Cnt["SDIO"] = 0 /\ Cnt["SDC"] = 0
       /\ devOp = NULL /\ hdl["hSdc"] = NULL /\ hdl["hSdio"] = NULL
  BY <1>2, PlatformAssumption DEF DRInit
<1>11. /\ \A d \in Devices : ~Creating(Doing("device"), d)
       /\ \A d \in Devices : ~Removing(Doing("shell"), d)
  BY <1>9 DEF Creating, Removing, Create
<1>12. RequestInv BY <1>7 DEF RequestInv
<1>13. CallInv BY <1>5, PlatformAssumption DEF CallInv
<1>14. WifiInv
  <2>1. RKTaskFind("WIFI_APPLICATION") = {} BY <1>8
  <2>2. Stage(Doing("shell")) = 0 /\ ~(0 > 0) BY <1>9, NoStage
  <2> QED BY <1>9, <2>1, <2>2 DEF WifiInv
<1>14a. WlanInv
  <2>1. ~wlanUp /\ ~wlanInitialised /\ ~linkUp BY DEF Init
  <2>2. ~OnBus(Doing("wifi")) BY <1>9 DEF OnBus
  <2> QED BY <1>9, <1>10, <2>1, <2>2 DEF WlanInv
<1>15. BootInv BY <1>5, <1>6, <1>9 DEF BootInv
<1>16. DevOpInv BY <1>10, <1>11 DEF DevOpInv
<1>17. IrqInv
  <2>1. RKTaskFind("SDIO_IRQ_TASK") = {} BY <1>8
  <2> QED BY <2>1 DEF IrqInv
<1>18. CardInv
  <2>1. Stage(Doing("shell")) = 0 BY <1>9, NoStage
  <2>2. /\ ~(0 \in 2 .. 3) /\ ~(0 \in 2 .. 5) /\ ~(0 >= 3)
        /\ ~(0 \in 4 .. 7) /\ ~(0 \in 5 .. 7) /\ ~(0 \in 6 .. 7)
    OBVIOUS
  <2>3. Cnt["SDIO"] <= 1 /\ Cnt["SDC"] <= 1 BY <1>10
  <2>4. /\ Creating(Doing("device"), "SDC") \/ (Doing("device").op = "open" /\ Doing("device").var = "hSdc")
             => hdl["hSdc"] = NULL
    BY <1>10
  <2>5. "SDIO" \notin registered /\ ~AtCard(Doing("device"))
    BY <1>9, <1>10 DEF AtCard, Creating, Create
  <2> QED BY <1>10, <2>1, <2>2, <2>3, <2>4, <2>5 DEF CardInv
<1>19. ListsDue
  <2>1. DeviceAskQueue = FALSE /\ DeviceRespQueue = NULL BY DEF Init
  <2>2. ~AtList(Doing("device")) BY <1>9 DEF AtList, Create
  <2>3. Wait(Doing("shell")) = 0 /\ Wait(Doing("wifi")) = 0 BY <1>9 DEF Wait
  <2>4. Balance BY <2>1, <2>2, <2>3 DEF Balance, Waits, Asked, Answered, Working
  <2> QED BY <1>3, <1>5, <2>4, BalanceIs
<1> QED BY <1>3, <1>4, <1>5, <1>12, <1>13, <1>14, <1>14a, <1>15, <1>16, <1>17, <1>18, <1>19 DEF IInv, RunInv

\* A step on which none of the three causes is added keeps the rest of the invariant.
LEMMA StepRun ==
  ASSUME Full, Next, Scripts', Orderly', Clean'
  PROVE  cause' = {} /\ RunInv'
<1>0. "twice" \notin cause' /\ "crossed" \notin cause' /\ "noTask" \notin cause' BY DEF Orderly
<1>1. ASSUME NEW p \in Procs, TaskStep(p) PROVE cause' = {} /\ RunInv'
  <2>1. CASE CallTaskCreate(p) BY <2>1, CallTaskCreateRun
  <2>2. CASE CallTaskDelete(p) BY <1>0, <2>2, CallTaskDeleteRun
  <2>3. CASE CallSends(p) BY <2>3, SendsRun
  <2>4. CASE CallReceives(p) BY <1>0, <2>4, ReceivesRun
  <2>5. CASE \/ AskList(p) \/ ReceiveList(p) \/ ChangeRunning(p) \/ HttpClose(p)
             \/ CallCreate(p) \/ CallCreated(p) \/ CallDelete(p) \/ CallDeleted(p)
             \/ SendAnswer(p)
    BY <2>5, RegistrySteps
  <2> QED BY <1>1, <2>1, <2>2, <2>3, <2>4, <2>5 DEF TaskStep
<1>2. CASE \E p \in Procs \cup {Sched} : DeviceStep(p) BY <1>2, RegistrySteps
<1>3. CASE \/ Listen \/ Play \/ DecStart \/ StopIgnored \/ AwaitLink \/ Deinit \/ CloseOver
           \/ WifiOn \/ BusInit \/ WlanUp \/ Join \/ Poll \/ Command
  BY <1>3, RegistrySteps
<1>4. CASE Receive BY <1>4, ReceiveRun
<1>5. CASE TaskStarts BY <1>5, StartRun
<1>6. CASE TaskFails
  <2>1. "noTask" \in cause' BY <1>6 DEF TaskFails, NoKernelTask
  <2> QED BY <1>0, <2>1
<1>7. CASE TaskEnds BY <1>7, EndRun
<1>8. CASE StaleBlock
  <2>1. broken' = TRUE /\ cause' = cause BY <1>8 DEF StaleBlock, UseAfterFree
  <2>2. cause' = {} BY <2>1, FullHas
  <2> QED BY <2>1, <2>2 DEF Clean
<1>9. CASE Respond BY <1>9, RespondRun
<1> QED BY <1>1, <1>2, <1>3, <1>4, <1>5, <1>6, <1>7, <1>8, <1>9 DEF Next, Step

LEMMA NextRun ==
  ASSUME PfInv, Clean, IInv, [Next]_vars
  PROVE  PfInv' /\ Clean' /\ IInv'
<1>1. Maps /\ PfInv' BY NextMaps
<1>2. [TMNext]_tmVars BY <1>1 DEF Maps
<1>3. Clean'
  <2>1. CASE UNCHANGED tmVars
    BY <2>1 DEF tmVars, Clean, Agree, Owned, OwnedItem, Holds, Apart, ApartCalls, ApartItems,
                Needs, Matched, MatchedItem, NotSame
  <2>2. CASE TMNext BY <2>2, CleanNext DEF PfInv
  <2> QED BY <1>2, <2>1, <2>2
<1>4. Scripts' BY NextScripts DEF IInv
<1>5. cause \subseteq cause'
  <2>1. CASE UNCHANGED tmVars BY <2>1 DEF tmVars
  <2>2. CASE TMNext BY <2>2, CauseGrows
  <2> QED BY <1>2, <2>1, <2>2
<1>6. ASSUME Orderly' PROVE cause' = {} /\ RunInv'
  <2>1. Orderly BY <1>5, <1>6 DEF Orderly
  <2>2. cause = {} /\ RunInv BY <2>1 DEF IInv
  <2>3. Full BY <2>2 DEF Full, IInv, Clean, CleanState
  <2>4. CASE Next BY <1>3, <1>4, <1>6, <2>3, <2>4, StepRun
  <2>5. CASE UNCHANGED vars
    <3>1. UNCHANGED tmVars /\ UNCHANGED drVars /\ UNCHANGED pfVars BY <2>5 DEF vars
    <3>2. \A q : Doing(q)' = Doing(q) BY <3>1 DEF pfVars, Doing
    <3>3. CallInv' BY <2>2, <3>1, <3>2, SameService DEF RunInv, CallInv
    <3>4. /\ UNCHANGED <<DeviceAskQueue, DeviceRespQueue>>
          /\ UNCHANGED <<wlanUp, wlanInitialised, linkUp>>
      BY <3>1 DEF pfVars, wlVars
    <3>5. cause' = {} BY <2>2, <3>1, SameService
    <3> QED BY <1>4, <2>3, <3>1, <3>2, <3>3, <3>4, <3>5, SameService, RequestsMove
  <2> QED BY <2>4, <2>5
<1> QED BY <1>1, <1>3, <1>4, <1>6 DEF IInv

LEMMA AlwaysRun == Spec => [](PfInv /\ Clean /\ IInv)
<1>1. PfInv /\ Clean /\ IInv /\ [Next]_vars => (PfInv /\ Clean /\ IInv)' BY NextRun
<1> QED BY <1>1, InitRun, PTL DEF Spec

(* Every task follows its program; and as long as no caller takes          *)
(* another's answer, no task is deleted twice at once and FreeRTOS has     *)
(* memory for every task, every task is where its requests to the two      *)
(* services say.                                                           *)
THEOREM PlatformInvariant == Spec => []IInv
BY AlwaysRun, PTL

\* What the theorems below take from the invariant.
LEMMA InOrder ==
  ASSUME PfInv, Clean, IInv, Orderly
  PROVE  cause = {} /\ Full
BY DEF IInv, Full, Clean, CleanState

(* The interrupt task of the card lives inside the card's device, and      *)
(* there is never a second one, unless one of the causes has happened:     *)
(* SdioDev_Create and SdioDevDeInit ask for it and for its end under       *)
(* osDeviceReqSem.                                                         *)
THEOREM PlatformIrqTask == Spec => []IrqTaskWithCard
<1>1. PfInv /\ Clean /\ IInv => IrqTaskWithCard
  <2> SUFFICES ASSUME PfInv, Clean, IInv, cause = {}
               PROVE  /\ Cardinality(IrqTasks) <= 1
                      /\ devOp = NULL /\ "SDIO" \notin registered => IrqTasks = {}
    BY DEF IrqTaskWithCard
  <2>1. Full BY InOrder DEF Orderly
  <2>2. IrqTasks = RKTaskFind("SDIO_IRQ_TASK") BY DEF IrqTasks, RKTaskFind
  <2>3. IrqInv /\ DevOpInv BY <2>1, FullHas
  <2>4. Cardinality(IrqTasks) <= 1
    <3>1. CASE IrqTasks = {} BY <3>1, FS_EmptySet
    <3>2. CASE \E b \in IrqTasks : TRUE
      <4>1. PICK b \in IrqTasks : TRUE BY <3>2
      <4>2. IrqTasks = {b} BY <2>2, <2>3, <4>1 DEF IrqInv
      <4>3. Cardinality({b}) = 1 BY FS_Singleton
      <4> QED BY <4>2, <4>3
    <3> QED BY <3>1, <3>2
  <2>5. devOp = NULL /\ "SDIO" \notin registered => IrqTasks = {}
    <3>1. HAVE devOp = NULL /\ "SDIO" \notin registered
    <3>2. "SDIO" \in Devices /\ "SDC" \in Devices BY PlatformAssumption
    <3>3. /\ [op |-> "create", who |-> "device", dev |-> "SDIO"] # NULL
          /\ [op |-> "delete", who |-> "shell", dev |-> "SDIO"] # NULL
      <4>1. /\ [op |-> "create", who |-> "device", dev |-> "SDIO"] \in DevOp
            /\ [op |-> "delete", who |-> "shell", dev |-> "SDIO"] \in DevOp
        BY <3>2, PlatformAssumption DEF DevOp
      <4> QED BY <4>1, DeviceAssumption
    <3>4. ~Creating(Doing("device"), "SDIO") /\ ~Removing(Doing("shell"), "SDIO")
      BY <2>3, <3>1, <3>2, <3>3 DEF DevOpInv
    <3> QED BY <2>2, <2>3, <3>1, <3>4 DEF IrqInv
  <2> QED BY <2>4, <2>5
<1> QED BY <1>1, AlwaysRun, PTL

(* As long as the calls go in order, every caller that waits for the       *)
(* device manager has one answer due: asked for, worked at, or sent.       *)
THEOREM PlatformListsDue == Spec => [](Orderly => ListsDue)
<1>1. IInv => (Orderly => ListsDue) BY DEF IInv, RunInv
<1> QED BY <1>1, PlatformInvariant, PTL

(* As long as the calls go in order, wifi.delete brings Wi-Fi down         *)
(* completely or has nothing to bring down: when it comes to stop lwIP's   *)
(* thread, neither device of the card was refused its deletion, because    *)
(* the one variable each was opened into was closed before and nobody      *)
(* opened it again meanwhile; and when it is over, by whichever of its     *)
(* returns, the bus is down and the card closed.                           *)
THEOREM PlatformCardReleased == Spec => [](Orderly => CardReleased)
<1>1. PfInv /\ Clean /\ IInv => (Orderly => CardReleased)
  <2> SUFFICES ASSUME PfInv, Clean, IInv, Orderly
               PROVE  /\ At("shell", "taskDelete") /\ Now("shell").id = "TCPIP_THREAD" =>
                            registered \cap {"SDC", "SDIO"} = {} /\ ~wlanUp
                      /\ At("shell", "closeOver") => ~wlanUp /\ hdl["hSdio"] = NULL
    BY DEF CardReleased
  <2>1. Full BY InOrder
  <2>2. CardInv /\ WlanInv /\ WifiInv BY <2>1, FullHas
  \* Once the bus is down, nothing of Wi-Fi is up.
  <2>3. Stage(Doing("shell")) \in {7, 8} => ~wlanUp
    <3>1. HAVE Stage(Doing("shell")) \in {7, 8}
    <3>2. PICK k \in {7, 8} : Stage(Doing("shell")) = k BY <3>1
    <3>3. k > 0 /\ ~(k < 2) /\ ~(k \in 2 .. 6) BY <3>2
    <3>4. Doing("wifi").op # "join" BY <2>2, <3>2, <3>3 DEF WifiInv
    <3>5. ~wlanInitialised BY <2>2, <3>2, <3>3 DEF WlanInv
    <3> QED BY <2>2, <3>2, <3>3, <3>4, <3>5 DEF WlanInv
  <2>4. ASSUME At("shell", "taskDelete"), Now("shell").id = "TCPIP_THREAD"
        PROVE  registered \cap {"SDC", "SDIO"} = {} /\ ~wlanUp
    <3>1. Doing("shell").op = "taskDelete" /\ Doing("shell").id = "TCPIP_THREAD"
      BY <2>4 DEF At, Now, Doing
    <3>2. Stage(Doing("shell")) = 7 BY <3>1 DEF Stage
    <3>3. 7 \in 4 .. 7 /\ 7 \in 6 .. 7 OBVIOUS
    <3>4. "SDIO" \notin registered /\ "SDC" \notin registered BY <2>2, <3>2, <3>3 DEF CardInv
    <3>5. ~wlanUp BY <2>3, <3>2
    <3> QED BY <3>4, <3>5
  <2>5. ASSUME At("shell", "closeOver") PROVE ~wlanUp /\ hdl["hSdio"] = NULL
    <3>1. Doing("shell").op = "closeOver" BY <2>5 DEF At, Doing
    <3>2. Stage(Doing("shell")) = 8 /\ 8 >= 3 BY <3>1 DEF Stage
    <3>3. hdl["hSdio"] = NULL BY <2>2, <3>2 DEF CardInv
    <3>4. ~wlanUp BY <2>3, <3>2
    <3> QED BY <3>3, <3>4
  <2> QED BY <2>4, <2>5
<1> QED BY <1>1, AlwaysRun, PTL

(* As long as the calls go in order, no task is deleted while it waits for *)
(* the scheduler's answer or holds osDeviceReqSem.                         *)
THEOREM PlatformDeletedOutside == Spec => [](Orderly => DeletedOutside)
<1>1. PfInv /\ Clean /\ IInv => (Orderly => DeletedOutside)
  <2> SUFFICES ASSUME PfInv, Clean, IInv, Orderly
               PROVE  /\ "waiter" \notin cause
                      /\ devOp # NULL => todo[devOp.who] # Dormant
    BY DEF DeletedOutside
  <2>1. Full /\ cause = {} BY InOrder
  <2>2. ASSUME devOp # NULL PROVE todo[devOp.who] # Dormant
    <3>0. DevOpInv /\ DRInv BY <2>1, FullHas DEF PfInv
    <3>1. devOp \in DevOp /\ devOp.dev \in Devices BY <2>2, <3>0 DEF DRInv, DRTypeOK, DevOp
    <3>2. \A p : todo[p] = Dormant => Doing(p).op = "dormant" BY DormantPrograms DEF Doing
    <3>3. CASE Creating(Doing("device"), devOp.dev)
      <4>1. devOp.who = "device" BY <3>0, <3>1, <3>3 DEF DevOpInv
      <4>2. Doing("device").op # "dormant" BY <3>3 DEF Creating
      <4> QED BY <3>2, <4>1, <4>2
    <3>4. CASE Removing(Doing("shell"), devOp.dev)
      <4>1. devOp.who = "shell" BY <3>0, <3>1, <3>4 DEF DevOpInv
      <4>2. Doing("shell").op # "dormant" BY <3>4 DEF Removing
      <4> QED BY <3>2, <4>1, <4>2
    <3> QED BY <2>2, <3>0, <3>3, <3>4 DEF DevOpInv
  <2> QED BY <2>1, <2>2
<1> QED BY <1>1, AlwaysRun, PTL
=============================================================================
