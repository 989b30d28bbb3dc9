--------------------------- MODULE PlatformProofs ---------------------------
(***************************************************************************)
(* Platform implements TaskManager and DeviceRegistry: every step is one   *)
(* that these modules allow, or leaves their variables alone.  What they   *)
(* promise therefore holds for the tasks of Platform.  Two facts are       *)
(* needed: what a task has to do is a sequence of well-formed operations   *)
(* (TodoOK), and a handle that is not NULL is the handle of its variable's *)
(* device and, unless the device is one of Unbalanced, was not closed      *)
(* (HandlesOK).                                                            *)
(*                                                                         *)
(* The second half is about the order of the operations: what a task has   *)
(* to do is always the rest of one of its programs (Scripts).              *)
(***************************************************************************)
EXTENDS PlatformInv, TaskManagerProofs, DeviceRegistryProofs, SequenceTheorems

All == Procs \cup {Sched}
TodoOK == todo \in [All -> Seq(Ops)]

HandlesOK ==
  \A v \in Handles :
    /\ hdl[v] \in {NULL, DeviceOf(v)}
    /\ hdl[v] # NULL /\ DeviceOf(v) \notin Unbalanced => v \in opened

QueuesOK ==
  /\ DeviceAskQueue \in BOOLEAN
  /\ DeviceRespQueue \in {"RK_SUCCESS", "RK_ERROR", NULL}
  /\ running \in BOOLEAN
  /\ commands \in 0 .. MaxCommands
  /\ wlanUp \in BOOLEAN /\ wlanInitialised \in BOOLEAN /\ linkUp \in BOOLEAN
  /\ quitFlag \in BOOLEAN

PfInv == TMTypeOK /\ Shape /\ DRInv /\ TodoOK /\ HandlesOK /\ QueuesOK

----------------------------------------------------------------------------
(* Operations *)

LEMMA Names ==
  /\ "device" \in Procs /\ "shell" \in Procs /\ "player" \in Procs
  /\ "wifi" \in Procs /\ "wwd" \in Procs
  /\ \A id : Runs(id) \subseteq Procs
  /\ "FILE" \in Unbalanced /\ "FIFO" \in Unbalanced
  /\ \A v \in Handles : DeviceOf(v) \in Devices
BY PlatformAssumption DEF Runs, DeviceOf

LEMMA OpsAre ==
  /\ \A name \in {"listen", "askList", "receiveList", "play", "decStart", "httpClose",
                  "awaitLink", "deinit", "closeOver", "wifiOn", "busInit", "wlanUp", "join",
                  "poll", "hang"} : Only(name) \in Ops
  /\ \A id \in TaskIDs : TaskCreate(id) \in Ops
  /\ \A id \in TaskIDs, m \in Modes : TaskDelete(id, m) \in Ops
  /\ \A d \in Devices : Create(d) \in Ops /\ Delete(d) \in Ops /\ Deleted(d) \in Ops
  /\ \A d \in Devices, ok \in BOOLEAN : Created(d, ok) \in Ops
  /\ \A v \in Handles \ {BootHandle}, n \in {"err", "again", "on", "quit", "hang"} :
       Open(v, n) \in Ops
  /\ \A v \in Handles \ {BootHandle} : Close(v, TRUE) \in Ops
  /\ \A v \in Handles : DeviceOf(v) \in Unbalanced => Close(v, FALSE) \in Ops
  /\ \A s \in {"RK_SUCCESS", "RK_ERROR"} : Answer(s) \in Ops
  /\ \A b \in BOOLEAN : SetRunning(b) \in Ops
BY DEF Ops, Only, Deleted, TaskCreate, TaskDelete, Create, Delete, Created, Open, Close,
       Answer, SetRunning

LEMMA OpsHave ==
  ASSUME NEW o \in Ops
  PROVE  /\ o.op \in {"taskCreate", "taskDelete"} => o.id \in TaskIDs
         /\ o.op = "taskDelete" => o.mode \in Modes
         /\ o.op \in {"create", "delete"} => o.dev \in Devices
         /\ o.op = "created" => o.ok \in BOOLEAN
         /\ o.op = "open" => o.var \in Handles \ {BootHandle}
         /\ o.op = "close" =>
              \/ o.var \in Handles \ {BootHandle} /\ o.clear = TRUE
              \/ o.var \in Handles /\ DeviceOf(o.var) \in Unbalanced /\ o.clear = FALSE
         /\ o.op = "answer" => o.status \in {"RK_SUCCESS", "RK_ERROR"}
         /\ o.op = "setRunning" => o.val \in BOOLEAN
<1>1. o.op \in {"taskCreate", "taskDelete"} => o.id \in TaskIDs BY DEF Ops
<1>2. o.op = "taskDelete" => o.mode \in Modes BY DEF Ops
<1>3. o.op \in {"create", "delete"} => o.dev \in Devices BY DEF Ops
<1>4. o.op = "created" => o.ok \in BOOLEAN BY DEF Ops
<1>5. o.op = "open" => o.var \in Handles \ {BootHandle} BY DEF Ops
<1>6. o.op = "close" =>
        \/ o.var \in Handles \ {BootHandle} /\ o.clear = TRUE
        \/ o.var \in Handles /\ DeviceOf(o.var) \in Unbalanced /\ o.clear = FALSE
  BY DEF Ops
<1>7. o.op = "answer" => o.status \in {"RK_SUCCESS", "RK_ERROR"} BY DEF Ops
<1>8. o.op = "setRunning" => o.val \in BOOLEAN BY DEF Ops
<1> QED BY <1>1, <1>2, <1>3, <1>4, <1>5, <1>6, <1>7, <1>8

(* Everything a task or the scheduler is given to do.                      *)
LEMMA Programs ==
  /\ <<>> \in Seq(Ops) /\ Dormant \in Seq(Ops) /\ DeviceTask \in Seq(Ops)
  /\ SdioFifoList \in Seq(Ops) /\ CreateDeviceList \in Seq(Ops) /\ WifiDel \in Seq(Ops)
  /\ HTTPQuit \in Seq(Ops) /\ BringUp \in Seq(Ops) /\ BusDeinit \in Seq(Ops)
  /\ \A id \in TaskIDs : <<TaskCreate(id)>> \in Seq(Ops)
  /\ \A id : TaskFun(id) \in Seq(Ops) /\ TaskInitFun(id) \in Seq(Ops)
             /\ TaskDeInitFun(id) \in Seq(Ops)
  /\ \A d : CreateBody(d) \in Seq(Ops) /\ DeleteBody(d) \in Seq(Ops)
<1>0. "SYNC_MODE" \in Modes /\ "ASYNC_MODE" \in Modes BY DEF Modes
<1>1. \A v \in {"hFileList", "hFileA", "hFifo"} :
        v \in Handles /\ DeviceOf(v) \in Unbalanced
  BY PlatformAssumption DEF DeviceOf
<1>2. \A v \in {"hFileList", "hFileA", "hFifo"} : Close(v, FALSE) \in Ops
  BY <1>1, OpsAre
<1>3. \A v \in {"hDma", "hSdc", "hFileList", "hSdio", "hFifo", "PAudio", "hFifoA", "hFileA",
               "hAudioA", "hBcoreA", "hFifoS"} :
        /\ \A n \in {"err", "again", "on", "quit", "hang"} : Open(v, n) \in Ops
        /\ Close(v, TRUE) \in Ops
  BY OpsAre, PlatformAssumption
<1>4. \A d \in {"DMA", "FILE", "AUDIO", "BCORE", "SDC", "SDIO", "FIFO"} :
        Create(d) \in Ops /\ Delete(d) \in Ops
  BY OpsAre, PlatformAssumption
<1>5. \A id \in {"BCORE", "SHELL", "WIFI_APPLICATION", "TCPIP_THREAD", "WWD",
                "SDIO_IRQ_TASK", "HTTP", "AUDIOCONTROL", "STREAMCONTROL"} :
        /\ TaskCreate(id) \in Ops
        /\ TaskDelete(id, "SYNC_MODE") \in Ops /\ TaskDelete(id, "ASYNC_MODE") \in Ops
  BY <1>0, OpsAre, PlatformAssumption
<1>6. \A name \in {"listen", "askList", "receiveList", "play", "httpClose", "deinit",
                  "closeOver", "wifiOn", "busInit", "wlanUp", "join", "poll"} :
        Only(name) \in Ops
  BY OpsAre
<1>7. Answer("RK_SUCCESS") \in Ops /\ SetRunning(FALSE) \in Ops BY OpsAre
<1>8. Dormant \in Seq(Ops)
  <2>1. [op |-> "dormant"] \in Ops BY DEF Ops
  <2> QED BY <2>1 DEF Dormant
<1>9. DeviceTask \in Seq(Ops) BY <1>4, <1>5, <1>6 DEF DeviceTask
<1>10. SdioFifoList \in Seq(Ops)
  <2> DEFINE close == Close("hFileList", FALSE)
  <2>1. close \in Ops BY <1>2
  <2> HIDE DEF close
  <2>2. << Open("hDma", "err"), Create("SDC"), Open("hSdc", "err"), Create("SDIO"),
           Open("hFileList", "err"), close, Create("FIFO"), Answer("RK_SUCCESS") >> \in Seq(Ops)
    BY <1>3, <1>4, <1>7, <2>1
  <2> QED BY <2>2 DEF SdioFifoList, close
<1>11. CreateDeviceList \in Seq(Ops) BY <1>6 DEF CreateDeviceList
<1>12. WifiDel \in Seq(Ops) BY <1>5, <1>6 DEF WifiDel
<1>22. BusDeinit \in Seq(Ops)
  <2> DEFINE sdio == Close("hSdio", TRUE)  sdc == Close("hSdc", TRUE)  dma == Close("hDma", TRUE)
  <2>1. sdio \in Ops /\ sdc \in Ops /\ dma \in Ops BY <1>3
  <2> HIDE DEF sdio, sdc, dma
  <2>2. << sdio, Delete("SDIO"), sdc, Delete("SDC"), dma, Answer("RK_SUCCESS") >> \in Seq(Ops)
    BY <1>4, <1>7, <2>1
  <2> QED BY <2>2 DEF BusDeinit, sdio, sdc, dma
<1>13. HTTPQuit \in Seq(Ops)
  <2> DEFINE over == SetRunning(FALSE)
  <2>1. over \in Ops BY <1>7
  <2> HIDE DEF over
  <2>2. << over, TaskDelete("HTTP", "ASYNC_MODE") >> \in Seq(Ops) BY <1>5, <2>1
  <2> QED BY <2>2 DEF HTTPQuit, over
<1>14. ASSUME NEW id PROVE TaskInitFun(id) \in Seq(Ops)
  <2> DEFINE close == Close("hFileA", FALSE)
  <2>1. close \in Ops BY <1>2
  <2> HIDE DEF close
  <2>2. << Open("hFifoA", "hang"), Open("hFileA", "hang"), Open("hAudioA", "hang"),
           Open("hBcoreA", "hang"), close >> \in Seq(Ops)
    BY <1>3, <2>1
  <2> QED BY <2>2, EmptySeq DEF TaskInitFun, close
<1>15. ASSUME NEW id PROVE TaskDeInitFun(id) \in Seq(Ops)
  <2> DEFINE C(v) == Close(v, TRUE)
  <2>1. /\ C("hAudioA") \in Ops /\ C("hFileA") \in Ops /\ C("hBcoreA") \in Ops
        /\ C("hFifoA") \in Ops /\ C("hFifoS") \in Ops
    BY <1>3
  <2> HIDE DEF C
  <2>2. /\ << C("hAudioA"), C("hFileA"), C("hBcoreA"), C("hFifoA") >> \in Seq(Ops)
        /\ << C("hFifoS") >> \in Seq(Ops)
    BY <2>1
  <2> QED BY <2>2, EmptySeq DEF TaskDeInitFun, C
<1>16. ASSUME NEW d PROVE CreateBody(d) \in Seq(Ops) /\ DeleteBody(d) \in Seq(Ops)
  <2>1. /\ << TaskCreate("SDIO_IRQ_TASK") >> \in Seq(Ops)
        /\ << TaskDelete("SDIO_IRQ_TASK", "SYNC_MODE") >> \in Seq(Ops)
    BY <1>5
  <2> QED BY <2>1, EmptySeq DEF CreateBody, DeleteBody
<1>17. WifiApplication \in Seq(Ops) /\ WWDTask \in Seq(Ops)
  BY <1>5, <1>6 DEF WifiApplication, WWDTask
<1>23. BringUp \in Seq(Ops)
  <2>1. << Open("hSdio", "again"), Only("busInit"), TaskCreate("WWD"), Only("wlanUp") >>
           \in Seq(Ops)
    BY <1>3, <1>5, <1>6
  <2> QED BY <1>11, <2>1, ConcatProperties DEF BringUp
<1>18. Player \in Seq(Ops) BY <1>3, <1>5, <1>6 DEF Player
<1>19. HTTPTask \in Seq(Ops)
  <2> DEFINE over == SetRunning(FALSE)  close == Close("hFifo", FALSE)
  <2>1. over \in Ops /\ close \in Ops BY <1>2, <1>7
  <2> HIDE DEF over, close
  <2>2. << Open("hFifo", "quit"), over, close, TaskDelete("HTTP", "ASYNC_MODE") >> \in Seq(Ops)
    BY <1>3, <1>5, <2>1
  <2> QED BY <2>2 DEF HTTPTask, over, close
<1>20. ASSUME NEW id PROVE TaskFun(id) \in Seq(Ops)
  BY <1>17, <1>18, <1>19, EmptySeq DEF TaskFun
<1>21. \A id \in TaskIDs : <<TaskCreate(id)>> \in Seq(Ops) BY OpsAre
<1> QED
  BY <1>8, <1>9, <1>10, <1>11, <1>12, <1>13, <1>14, <1>15, <1>16, <1>20, <1>21, <1>22, <1>23,
     EmptySeq

LEMMA ThenTodo ==
  ASSUME TodoOK, NEW p \in All, todo[p] # <<>>, NEW s \in Seq(Ops), Then(p, s)
  PROVE  TodoOK'
<1>1. todo[p] \in Seq(Ops) BY DEF TodoOK
<1>2. Tail(todo[p]) \in Seq(Ops) BY <1>1, HeadTailProperties
<1>3. s \o Tail(todo[p]) \in Seq(Ops) BY <1>2, ConcatProperties
<1> QED BY <1>3 DEF TodoOK, Then

LEMMA ErrTodo == ASSUME TodoOK, NEW p \in All, Err(p) PROVE TodoOK'
<1>1. todo[p] \in Seq(Ops) BY DEF TodoOK
<1>2. PICK i \in DOMAIN todo[p] :
        todo' = [todo EXCEPT ![p] = << Answer("RK_ERROR") >> \o SubSeq(todo[p], i + 1, Len(todo[p]))]
  BY DEF Err
<1>3. Len(todo[p]) \in Nat /\ DOMAIN todo[p] = 1 .. Len(todo[p]) BY <1>1, LenProperties
<1>4. \A k \in i + 1 .. Len(todo[p]) : todo[p][k] \in Ops
  BY <1>1, <1>3, ElementOfSeq
<1>5. SubSeq(todo[p], i + 1, Len(todo[p])) \in Seq(Ops)
  BY <1>3, <1>4, SubSeqProperties
<1>6. << Answer("RK_ERROR") >> \in Seq(Ops) BY OpsAre
<1>7. << Answer("RK_ERROR") >> \o SubSeq(todo[p], i + 1, Len(todo[p])) \in Seq(Ops)
  BY <1>5, <1>6, ConcatProperties
<1> QED BY <1>2, <1>7 DEF TodoOK

(* The operation a task is at.                                             *)
LEMMA AtOp ==
  ASSUME TodoOK, NEW p \in All, NEW name, At(p, name)
  PROVE  ~broken /\ todo[p] # <<>> /\ Now(p) \in Ops /\ Now(p).op = name
<1>1. todo[p] \in Seq(Ops) BY DEF TodoOK
<1> QED BY <1>1, HeadTailProperties DEF At, Ready, Now

LEMMA DoneTodo ==
  ASSUME TodoOK, NEW p \in All, NEW name, At(p, name), Done(p)
  PROVE  TodoOK'
BY AtOp, ThenTodo, Programs DEF Done

----------------------------------------------------------------------------
(* What a step of Platform is for the two services. *)

Maps == [TMNext]_tmVars /\ [DRNext]_drVars
Keeps == TodoOK' /\ HandlesOK' /\ QueuesOK'

LEMMA SameHandles == ASSUME HandlesOK, UNCHANGED drVars PROVE HandlesOK'
BY DEF HandlesOK, drVars

(* The calls of the task service and the steps inside them.                *)
LEMMA CallsMap ==
  ASSUME PfInv, NEW p \in Procs,
         CallTaskCreate(p) \/ CallTaskDelete(p) \/ CallSends(p) \/ CallReceives(p)
  PROVE  Maps /\ Keeps
<1> USE DEF PfInv
<1>0. UNCHANGED drVars /\ OthersAlone
  BY DEF CallTaskCreate, CallTaskDelete, CallSends, CallReceives, OthersAlone, pfVars
<1>1. HandlesOK' /\ QueuesOK' BY <1>0, SameHandles DEF QueuesOK, OthersAlone, wlVars
<1>2. CASE CallTaskCreate(p)
  <2>1. /\ ~broken /\ Now(p).id \in TaskIDs
    BY <1>2, AtOp, OpsHave DEF CallTaskCreate, All
  <2>2. TodoOK' BY <1>2, DoneTodo DEF CallTaskCreate, All
  <2>3. RKTaskCreate(p, Now(p).id, Free1) BY <1>2 DEF CallTaskCreate
  <2>4. Free1 \subseteq Blocks \ heap /\ (Free1 = {} => Blocks \ heap = {})
    BY DEF Free1, TMTypeOK
  <2>5. RKTaskCreate(p, Now(p).id, Blocks \ heap)
    BY <2>3, <2>4 DEF RKTaskCreate
  <2> QED BY <1>0, <1>1, <2>1, <2>2, <2>5 DEF Maps, Keeps, TMNext, Caller
<1>3. CASE CallTaskDelete(p)
  <2>1. ~broken /\ Now(p).id \in TaskIDs /\ Now(p).mode \in Modes
    BY <1>3, AtOp, OpsHave DEF CallTaskDelete, All
  <2>2. TodoOK' BY <1>3, DoneTodo DEF CallTaskDelete, All
  <2>3. RKTaskDelete(p, Now(p).id, Now(p).mode) BY <1>3 DEF CallTaskDelete
  <2> QED BY <1>0, <1>1, <2>1, <2>2, <2>3 DEF Maps, Keeps, TMNext, Caller
<1>4. CASE CallSends(p) \/ CallReceives(p)
  <2>1. ~broken /\ (AskSend(p) \/ RespReceive(p)) /\ UNCHANGED pfVars
    BY <1>4 DEF CallSends, CallReceives
  <2>2. TodoOK' BY <2>1 DEF pfVars, TodoOK
  <2> QED BY <1>0, <1>1, <2>1, <2>2 DEF Maps, Keeps, TMNext, Caller
<1> QED BY <1>2, <1>3, <1>4

(* The scheduler.                                                          *)
LEMMA SchedulerMaps ==
  ASSUME PfInv, Receive \/ TaskStarts \/ TaskFails \/ TaskEnds \/ StaleBlock \/ Respond
  PROVE  Maps /\ Keeps
<1> USE DEF PfInv
<1>0. UNCHANGED drVars /\ OthersAlone /\ ~broken
  BY DEF Receive, TaskStarts, TaskFails, TaskEnds, StaleBlock, Respond, OthersAlone, pfVars
<1>1. HandlesOK' /\ QueuesOK' BY <1>0, SameHandles DEF QueuesOK, OthersAlone, wlVars
<1>2. Scheduler
  BY Names DEF Receive, TaskStarts, TaskFails, TaskEnds, StaleBlock, Respond, Scheduler
<1>3. TodoOK'
  <2>1. CASE Receive
    BY <2>1, Programs DEF Receive, TodoOK, All
  <2>2. CASE TaskStarts
    BY <2>2, Programs DEF TaskStarts, TodoOK
  <2>3. CASE TaskEnds
    BY <2>3, Programs DEF TaskEnds, TodoOK
  <2>4. CASE TaskFails \/ StaleBlock \/ Respond
    BY <2>4 DEF TaskFails, StaleBlock, Respond, pfVars, TodoOK
  <2> QED BY <2>1, <2>2, <2>3, <2>4
<1> QED BY <1>0, <1>1, <1>2, <1>3 DEF Maps, Keeps, TMNext

(* The steps that concern neither service.                                 *)
LEMMA OthersMap ==
  ASSUME PfInv,
         \/ Command \/ Listen \/ AwaitLink \/ CloseOver \/ Play \/ StopIgnored
         \/ \E p \in Procs : \/ AskList(p) \/ ReceiveList(p) \/ ChangeRunning(p)
                             \/ HttpClose(p) \/ SendAnswer(p)
  PROVE  Maps /\ Keeps
<1> USE DEF PfInv
<1>0. UNCHANGED <<tmVars, drVars>>
  BY DEF Command, Listen, AwaitLink, CloseOver, Play, StopIgnored, AskList, ReceiveList,
         ChangeRunning, HttpClose, SendAnswer
<1>1. HandlesOK' BY <1>0, SameHandles
<1>2. CASE Command
  <2>1. /\ commands < MaxCommands /\ commands' = commands + 1
        /\ UNCHANGED <<DeviceAskQueue, DeviceRespQueue, running, wlVars>>
    BY <1>2 DEF Command
  <2>2. QueuesOK'
    <3>1. commands' \in 0 .. MaxCommands BY <2>1, PlatformAssumption DEF QueuesOK
    <3> QED BY <2>1, <3>1 DEF QueuesOK, wlVars
  <2>3. PICK s \in Seq(Ops) : todo' = [todo EXCEPT !["shell"] = s]
    <3>1. <<TaskCreate("DLNA")>> \in Seq(Ops) BY Programs, PlatformAssumption
    <3>2. << TaskCreate("WIFI_APPLICATION"), Only("awaitLink") >> \in Seq(Ops)
      BY OpsAre, PlatformAssumption
    <3>3. << TaskDelete("AUDIOCONTROL", "SYNC_MODE"), TaskDelete("STREAMCONTROL", "SYNC_MODE") >>
             \in Seq(Ops)
      <4>1. "SYNC_MODE" \in Modes BY DEF Modes
      <4> QED BY <4>1, OpsAre, PlatformAssumption
    <3> QED BY <1>2, <3>1, <3>2, <3>3, Programs DEF Command
  <2>4. TodoOK' BY <2>3 DEF TodoOK
  <2> QED BY <1>0, <1>1, <2>2, <2>4 DEF Maps, Keeps
<1>3. CASE Listen
  <2>1. todo["device"] \in Seq(Ops) BY Names DEF TodoOK, All
  <2>2. SdioFifoList \o todo["device"] \in Seq(Ops) BY <2>1, Programs, ConcatProperties
  <2>3. TodoOK' BY <1>3, <2>2 DEF Listen, TodoOK
  <2>4. QueuesOK' BY <1>3 DEF Listen, QueuesOK, wlVars
  <2> QED BY <1>0, <1>1, <2>3, <2>4 DEF Maps, Keeps
<1>4. CASE AwaitLink \/ CloseOver \/ StopIgnored
  <2>1. TodoOK' BY <1>4, Names, DoneTodo DEF AwaitLink, CloseOver, StopIgnored, All
  <2>2. QueuesOK'
    BY <1>4 DEF AwaitLink, CloseOver, StopIgnored, OthersAlone, wlVars, QueuesOK
  <2> QED BY <1>0, <1>1, <2>1, <2>2 DEF Maps, Keeps
<1>5. ASSUME NEW p \in Procs,
             AskList(p) \/ ReceiveList(p) \/ ChangeRunning(p) \/ HttpClose(p) \/ SendAnswer(p)
      PROVE  Maps /\ Keeps
  <2>0. p \in All BY DEF All
  <2>1. CASE AskList(p)
    <3>1. TodoOK' BY <2>0, <2>1, DoneTodo DEF AskList
    <3>2. QueuesOK' BY <2>1 DEF AskList, QueuesOK, wlVars
    <3> QED BY <1>0, <1>1, <3>1, <3>2 DEF Maps, Keeps
  <2>2. CASE ReceiveList(p)
    <3>1. TodoOK' BY <2>0, <2>2, DoneTodo DEF ReceiveList
    <3>2. QueuesOK' BY <2>2 DEF ReceiveList, QueuesOK, wlVars
    <3> QED BY <1>0, <1>1, <3>1, <3>2 DEF Maps, Keeps
  <2>3. CASE ChangeRunning(p)
    <3>1. TodoOK' BY <2>0, <2>3, DoneTodo DEF ChangeRunning
    <3>2. Now(p).val \in BOOLEAN BY <2>0, <2>3, AtOp, OpsHave DEF ChangeRunning
    <3>3. QueuesOK' BY <2>3, <3>2 DEF ChangeRunning, QueuesOK, wlVars
    <3> QED BY <1>0, <1>1, <3>1, <3>3 DEF Maps, Keeps
  <2>4. CASE SendAnswer(p)
    <3>1. TodoOK' BY <2>0, <2>4, DoneTodo DEF SendAnswer
    <3>2. Now(p).status \in {"RK_SUCCESS", "RK_ERROR"}
      BY <2>0, <2>4, AtOp, OpsHave DEF SendAnswer
    <3>3. wlanUp' \in BOOLEAN BY <2>4 DEF SendAnswer, QueuesOK
    <3>4. DeviceRespQueue' \in {"RK_SUCCESS", "RK_ERROR", NULL}
      BY <2>4, <3>2 DEF SendAnswer, QueuesOK
    <3>5. UNCHANGED <<DeviceAskQueue, running, commands, wlanInitialised, linkUp, quitFlag>>
      BY <2>4 DEF SendAnswer
    <3>6. QueuesOK' BY <3>3, <3>4, <3>5 DEF QueuesOK
    <3> QED BY <1>0, <1>1, <3>1, <3>6 DEF Maps, Keeps
  <2>5. CASE HttpClose(p)
    <3> DEFINE over == SetRunning(FALSE)  close == Close("hFifo", TRUE)
    <3>1. over \in Ops /\ close \in Ops BY OpsAre, PlatformAssumption
    <3>2. TaskDelete("HTTP", "ASYNC_MODE") \in Ops BY OpsAre, PlatformAssumption DEF Modes
    <3> DEFINE s == (IF running THEN << TaskDelete("HTTP", "ASYNC_MODE"), close >> ELSE <<>>)
                      \o << over >>
    <3>3. Then(p, s) /\ todo[p] # <<>> BY <2>0, <2>5, AtOp DEF HttpClose
    <3> HIDE DEF over, close
    <3>4. /\ << TaskDelete("HTTP", "ASYNC_MODE"), close >> \in Seq(Ops) /\ << over >> \in Seq(Ops)
          /\ <<>> \in Seq(Ops)
      BY <3>1, <3>2
    <3>5. s \in Seq(Ops) BY <3>4, ConcatProperties
    <3>6. TodoOK' BY <2>0, <3>3, <3>5, ThenTodo
    <3>7. QueuesOK' BY <2>5 DEF HttpClose, OthersAlone, QueuesOK, wlVars
    <3> QED BY <1>0, <1>1, <3>6, <3>7 DEF Maps, Keeps
  <2> QED BY <1>5, <2>1, <2>2, <2>3, <2>4, <2>5
<1>6. CASE Play
  <2>0. "player" \in All BY Names DEF All
  <2>1. TodoOK'
    <3>1. CASE Done("player") BY <1>6, <2>0, <3>1, DoneTodo DEF Play
    <3>2. CASE Then("player", << TaskCreate("HTTP"), SetRunning(TRUE), Only("decStart"),
                                 Only("httpClose") >>)
      <4> DEFINE on == SetRunning(TRUE)
      <4>1. /\ on \in Ops /\ TaskCreate("HTTP") \in Ops
            /\ Only("decStart") \in Ops /\ Only("httpClose") \in Ops
        BY OpsAre, PlatformAssumption
      <4> HIDE DEF on
      <4>2. << TaskCreate("HTTP"), on, Only("decStart"), Only("httpClose") >> \in Seq(Ops)
        BY <4>1
      <4>3. todo["player"] # <<>> BY <1>6, <2>0, AtOp DEF Play
      <4> QED BY <2>0, <3>2, <4>2, <4>3, ThenTodo DEF on
    <3> QED BY <1>6, <3>1, <3>2 DEF Play
  <2>2. QueuesOK' BY <1>6 DEF Play, OthersAlone, wlVars, QueuesOK
  <2> QED BY <1>0, <1>1, <2>1, <2>2 DEF Maps, Keeps
<1> QED BY <1>2, <1>3, <1>4, <1>5, <1>6

(* The steps that change what the Wi-Fi stack knows of itself.             *)
LEMMA WlanMaps ==
  ASSUME PfInv, Deinit \/ WifiOn \/ BusInit \/ WlanUp \/ Join \/ Poll
  PROVE  Maps /\ Keeps
<1> USE DEF PfInv
<1>0. UNCHANGED <<tmVars, drVars>> BY DEF Deinit, WifiOn, BusInit, WlanUp, Join, Poll
<1>1. HandlesOK' BY <1>0, SameHandles
<1>2. "shell" \in All /\ "wifi" \in All /\ "wwd" \in All BY Names DEF All
<1>3. QueuesOK'
  <2>1. UNCHANGED <<DeviceAskQueue, DeviceRespQueue, running, commands>>
    BY DEF Deinit, WifiOn, BusInit, WlanUp, Join, Poll, OthersAlone
  <2>2. CASE WifiOn \/ BusInit
    BY <2>2 DEF WifiOn, BusInit, OthersAlone, wlVars, QueuesOK
  <2>3. CASE WlanUp BY <2>3 DEF WlanUp, QueuesOK
  <2>4. CASE Join BY <2>4 DEF Join, QueuesOK
  <2>5. CASE Poll BY <2>5 DEF Poll, QueuesOK
  <2>6. CASE Deinit
    <3>1. /\ wlanUp' \in BOOLEAN /\ wlanInitialised' \in BOOLEAN /\ linkUp' \in BOOLEAN
          /\ quitFlag' \in BOOLEAN
      BY <2>6 DEF Deinit, QueuesOK
    <3> QED BY <2>1, <3>1 DEF QueuesOK
  <2> QED BY <2>2, <2>3, <2>4, <2>5, <2>6
<1>4. TodoOK'
  <2>1. CASE todo' = [todo EXCEPT !["wifi"] = <<>>] BY <2>1, EmptySeq DEF TodoOK
  <2>2. CASE BusInit /\ Done("wifi") BY <1>2, <2>2, DoneTodo DEF BusInit
  <2>3. CASE WlanUp /\ Done("wifi") BY <1>2, <2>3, DoneTodo DEF WlanUp
  <2>4. CASE Join \/ Poll BY <1>2, <2>4, DoneTodo DEF Join, Poll
  <2>5. CASE WifiOn
    <3>1. todo["wifi"] # <<>> BY <1>2, <2>5, AtOp DEF WifiOn
    <3>2. (IF wlanUp THEN <<>> ELSE BringUp) \in Seq(Ops) BY Programs
    <3> QED BY <1>2, <2>5, <3>1, <3>2, ThenTodo DEF WifiOn
  <2>6. CASE Deinit
    <3>1. todo["shell"] # <<>> BY <1>2, <2>6, AtOp DEF Deinit
    <3>2. CASE wlanInitialised
      <4> DEFINE k == TaskDelete("TCPIP_THREAD", "SYNC_MODE")
                 b == IF wlanUp THEN BusDeinit ELSE <<>>
      <4>1. k \in Ops BY OpsAre, PlatformAssumption DEF Modes
      <4>2. b \in Seq(Ops) BY Programs
      <4>3. Then("shell", b \o << k >>) BY <2>6, <3>2 DEF Deinit
      <4> HIDE DEF k, b
      <4>4. << k >> \in Seq(Ops) BY <4>1
      <4>5. b \o << k >> \in Seq(Ops) BY <4>2, <4>4, ConcatProperties
      <4> QED BY <1>2, <3>1, <4>3, <4>5, ThenTodo
    <3>3. CASE ~wlanInitialised BY <1>2, <2>6, <3>3, DoneTodo DEF Deinit
    <3> QED BY <3>2, <3>3
  <2> QED BY <2>1, <2>2, <2>3, <2>4, <2>5, <2>6 DEF BusInit, WlanUp
<1> QED BY <1>0, <1>1, <1>3, <1>4 DEF Maps, Keeps

(* The calls of the device registry that create and delete.                *)
LEMMA CreatesMap ==
  ASSUME PfInv, NEW p \in Procs,
         CallCreate(p) \/ CallCreated(p) \/ CallDelete(p) \/ CallDeleted(p)
  PROVE  Maps /\ Keeps
<1> USE DEF PfInv
<1>0. p \in All /\ UNCHANGED tmVars /\ OthersAlone
  BY DEF All, CallCreate, CallCreated, CallDelete, CallDeleted
<1>1. QueuesOK' BY <1>0 DEF QueuesOK, OthersAlone, wlVars
<1>2. UNCHANGED <<hdl, opened>>
  BY DEF CallCreate, CallCreated, CallDelete, CallDeleted, CreateRefused, DeleteRefused,
         NothingDone, drVars, CreateBegin, CreateEnd, DeleteBegin, DeleteEnd
<1>3. HandlesOK' BY <1>2 DEF HandlesOK
<1>4. CASE CallCreate(p)
  <2> DEFINE d == Now(p).dev
  <2>1. d \in Devices /\ todo[p] # <<>> BY <1>0, <1>4, AtOp, OpsHave DEF CallCreate
  <2>2. /\ CreateBody(d) \o << Created(d, TRUE) >> \in Seq(Ops)
        /\ << Created(d, FALSE) >> \in Seq(Ops)
    <3> DEFINE good == Created(d, TRUE)  bad == Created(d, FALSE)
    <3>1. good \in Ops /\ bad \in Ops BY <2>1, OpsAre
    <3> HIDE DEF good, bad
    <3>2. << good >> \in Seq(Ops) /\ << bad >> \in Seq(Ops) BY <3>1
    <3>3. CreateBody(d) \o << good >> \in Seq(Ops) BY <3>2, Programs, ConcatProperties
    <3> QED BY <3>2, <3>3 DEF good, bad
  <2>3. TodoOK'
    <3>1. CASE Err(p) BY <1>0, <3>1, ErrTodo
    <3>2. CASE Then(p, CreateBody(d) \o << Created(d, TRUE) >>)
      BY <1>0, <2>1, <2>2, <3>2, ThenTodo
    <3>3. CASE Then(p, << Created(d, FALSE) >>)
      BY <1>0, <2>1, <2>2, <3>3, ThenTodo
    <3> QED BY <1>4, <3>1, <3>2, <3>3 DEF CallCreate
  <2>4. CreateRefused(d) \/ CreateBegin(p, d) BY <1>4 DEF CallCreate
  <2> QED BY <1>0, <1>1, <1>3, <2>1, <2>3, <2>4 DEF Maps, Keeps, DRNext
<1>5. CASE CallCreated(p)
  <2>1. Now(p).ok \in BOOLEAN BY <1>0, <1>5, AtOp, OpsHave DEF CallCreated
  <2>2. TodoOK' BY <1>0, <1>5, DoneTodo, ErrTodo DEF CallCreated
  <2>3. CreateEnd(p, Now(p).ok) BY <1>5 DEF CallCreated
  <2>4. \E ok \in BOOLEAN : CreateEnd(p, ok) BY <2>1, <2>3
  <2> QED BY <1>0, <1>1, <1>3, <2>2, <2>4 DEF Maps, Keeps, DRNext
<1>6. CASE CallDelete(p)
  <2> DEFINE d == Now(p).dev
  <2>1. d \in Devices /\ todo[p] # <<>> BY <1>0, <1>6, AtOp, OpsHave DEF CallDelete
  <2>2. << Deleted(d) >> \in Seq(Ops)
    <3> DEFINE o == Deleted(d)
    <3>1. o \in Ops BY <2>1, OpsAre
    <3> HIDE DEF o
    <3> QED BY <3>1 DEF o
  <2>3. DeleteBody(d) \o << Deleted(d) >> \in Seq(Ops) BY <2>2, Programs, ConcatProperties
  <2>4. TodoOK'
    <3>1. CASE Err(p) BY <1>0, <3>1, ErrTodo
    <3>2. CASE Then(p, DeleteBody(d) \o << Deleted(d) >>)
      BY <1>0, <2>1, <2>3, <3>2, ThenTodo
    <3> QED BY <1>6, <3>1, <3>2 DEF CallDelete
  <2>5. DeleteRefused(d) \/ DeleteBegin(p, d) BY <1>6 DEF CallDelete
  <2> QED BY <1>0, <1>1, <1>3, <2>1, <2>4, <2>5 DEF Maps, Keeps, DRNext
<1>7. CASE CallDeleted(p)
  <2>1. TodoOK' BY <1>0, <1>7, DoneTodo DEF CallDeleted
  <2>2. DeleteEnd(p, TRUE) BY <1>7 DEF CallDeleted
  <2>3. \E ok \in BOOLEAN : DeleteEnd(p, ok) BY <2>2
  <2> QED BY <1>0, <1>1, <1>3, <2>1, <2>3 DEF Maps, Keeps, DRNext
<1> QED BY <1>4, <1>5, <1>6, <1>7

(* RKDev_Open fills a variable with the handle of its device, or NULL.     *)
LEMMA OpenMaps ==
  ASSUME PfInv, NEW p \in All, CallOpen(p)
  PROVE  Maps /\ Keeps
<1> USE DEF PfInv
<1> DEFINE v == Now(p).var  d == DeviceOf(v)
<1>1. v \in Handles \ {BootHandle} /\ d \in Devices /\ ~broken /\ todo[p] # <<>>
  BY AtOp, OpsHave, Names DEF CallOpen
<1>2. DevOpen(d, v) /\ UNCHANGED tmVars /\ OthersAlone BY DEF CallOpen
<1>3. QueuesOK' BY <1>2 DEF QueuesOK, OthersAlone, wlVars
<1>4. TodoOK'
  <2>1. CASE Done(p) BY <2>1, DoneTodo DEF CallOpen
  <2>2. CASE UNCHANGED todo BY <2>2 DEF TodoOK
  <2>3. CASE Err(p) BY <2>3, ErrTodo
  <2>4. CASE todo' = [todo EXCEPT ![p] = << Only("hang") >>]
    <3>1. << Only("hang") >> \in Seq(Ops) BY OpsAre
    <3> QED BY <2>4, <3>1 DEF TodoOK
  <2>5. CASE todo' = [todo EXCEPT ![p] = HTTPQuit]
    BY <2>5, Programs DEF TodoOK
  <2>6. Now(p).onNull \in {"err", "again", "on", "quit", "hang"}
    <3>1. Now(p) \in Ops /\ Now(p).op = "open" BY AtOp DEF CallOpen
    <3> QED BY <3>1 DEF Ops
  <2> QED BY <2>1, <2>2, <2>3, <2>4, <2>5, <2>6 DEF CallOpen
<1>5. HandlesOK'
  <2> SUFFICES ASSUME NEW w \in Handles
               PROVE  /\ hdl'[w] \in {NULL, DeviceOf(w)}
                      /\ hdl'[w] # NULL /\ DeviceOf(w) \notin Unbalanced => w \in opened'
    BY DEF HandlesOK
  <2>1. CASE w = v
    BY <1>1, <1>2, <2>1, DeviceAssumption DEF DevOpen, DRInv, DRTypeOK
  <2>2. CASE w # v
    <3>1. hdl'[w] = hdl[w] /\ (w \in opened => w \in opened')
      BY <1>1, <1>2, <2>2 DEF DevOpen, DRInv, DRTypeOK
    <3> QED BY <3>1 DEF HandlesOK
  <2> QED BY <2>1, <2>2
<1> QED BY <1>1, <1>2, <1>3, <1>4, <1>5 DEF Maps, Keeps, DRNext

(* RKDev_Close is called with an open handle, or with one of an unbalanced *)
(* device.                                                                 *)
LEMMA CloseMaps ==
  ASSUME PfInv, NEW p \in All, CallClose(p)
  PROVE  Maps /\ Keeps
<1> USE DEF PfInv
<1> DEFINE v == Now(p).var  c == Now(p).clear
<1>1. /\ \/ v \in Handles \ {BootHandle} /\ c = TRUE
         \/ v \in Handles /\ DeviceOf(v) \in Unbalanced /\ c = FALSE
      /\ ~broken
  BY AtOp, OpsHave DEF CallClose
<1>2. UNCHANGED tmVars /\ OthersAlone BY DEF CallClose
<1>3. QueuesOK' BY <1>2 DEF QueuesOK, OthersAlone, wlVars
<1>4. TodoOK' BY DoneTodo DEF CallClose
<1>5. CASE hdl[v] = NULL
  <2>1. UNCHANGED drVars BY <1>5 DEF CallClose
  <2> QED BY <1>2, <1>3, <1>4, <2>1, SameHandles DEF Maps, Keeps
<1>6. CASE hdl[v] # NULL
  <2>1. DevClose(v, c) BY <1>6 DEF CallClose
  <2>2. v \in Handles \ {BootHandle}
    <3>1. DeviceOf(BootHandle) \notin Unbalanced BY PlatformAssumption DEF DeviceOf
    <3> QED BY <1>1, <3>1
  <2>3. hdl[v] = DeviceOf(v) /\ (v \in opened \/ hdl[v] \in Unbalanced)
    BY <1>6, <2>2 DEF HandlesOK
  <2>4. [DRNext]_drVars
    <3>1. \E clear \in BOOLEAN : (v \in opened \/ hdl[v] \in Unbalanced) /\ DevClose(v, clear)
      BY <1>1, <2>1, <2>3
    <3> QED BY <2>2, <3>1 DEF DRNext
  <2>5. HandlesOK'
    <3> SUFFICES ASSUME NEW w \in Handles
                 PROVE  /\ hdl'[w] \in {NULL, DeviceOf(w)}
                        /\ hdl'[w] # NULL /\ DeviceOf(w) \notin Unbalanced => w \in opened'
      BY DEF HandlesOK
    <3>1. CASE w = v
      <4>1. CASE c = TRUE BY <2>1, <2>2, <3>1, <4>1 DEF DevClose, DRInv, DRTypeOK
      <4>2. CASE c = FALSE
        <5>1. hdl' = hdl /\ DeviceOf(v) \in Unbalanced BY <1>1, <2>1, <4>2 DEF DevClose
        <5> QED BY <3>1, <5>1 DEF HandlesOK
      <4> QED BY <1>1, <4>1, <4>2
    <3>2. CASE w # v
      <4>1. hdl'[w] = hdl[w] /\ (w \in opened => w \in opened')
        BY <2>1, <2>2, <3>2 DEF DevClose, DRInv, DRTypeOK
      <4> QED BY <4>1 DEF HandlesOK
    <3> QED BY <3>1, <3>2
  <2> QED BY <1>2, <1>3, <1>4, <2>4, <2>5 DEF Maps, Keeps
<1> QED BY <1>5, <1>6

(* The audio control task passes the FIFO's handle on.                     *)
LEMMA DecStartMaps == ASSUME PfInv, DecStart PROVE Maps /\ Keeps
<1> USE DEF PfInv
<1>0. "player" \in All /\ UNCHANGED tmVars /\ OthersAlone BY Names DEF All, DecStart
<1>1. QueuesOK' BY <1>0 DEF QueuesOK, OthersAlone, wlVars
<1>4. TodoOK' BY <1>0, DoneTodo DEF DecStart
<1>2. CASE UNCHANGED drVars
  BY <1>0, <1>1, <1>2, <1>4, SameHandles DEF Maps, Keeps
<1>3. CASE DevCopy("hFifoA", "hFifoS")
  <2>4. /\ "hFifoA" \in Handles \ {BootHandle} /\ "hFifoS" \in Handles \ {BootHandle}
        /\ DeviceOf("hFifoA") = "FIFO" /\ DeviceOf("hFifoS") = "FIFO" /\ "FIFO" \in Unbalanced
    BY PlatformAssumption DEF DeviceOf
  <2>5. HandlesOK'
    <3>1. hdl' = [hdl EXCEPT !["hFifoS"] = hdl["hFifoA"]] /\ opened' = opened \ {"hFifoS"}
      BY <1>3 DEF DevCopy
    <3>2. hdl["hFifoA"] \in {NULL, "FIFO"} BY <2>4 DEF HandlesOK
    <3> SUFFICES ASSUME NEW w \in Handles
                 PROVE  /\ hdl'[w] \in {NULL, DeviceOf(w)}
                        /\ hdl'[w] # NULL /\ DeviceOf(w) \notin Unbalanced => w \in opened'
      BY DEF HandlesOK
    <3>3. CASE w = "hFifoS" BY <2>4, <3>1, <3>2, <3>3 DEF DRInv, DRTypeOK
    <3>4. CASE w # "hFifoS"
      <4>1. hdl'[w] = hdl[w] /\ (w \in opened => w \in opened')
        BY <2>4, <3>1, <3>4 DEF DRInv, DRTypeOK
      <4> QED BY <4>1 DEF HandlesOK
    <3> QED BY <3>3, <3>4
  <2> QED BY <1>0, <1>1, <1>3, <1>4, <2>4, <2>5 DEF Maps, Keeps, DRNext
<1> QED BY <1>2, <1>3 DEF DecStart

----------------------------------------------------------------------------
LEMMA InitPf == ASSUME Init PROVE PfInv
<1>1. (CHOOSE b \in Blocks : TRUE) \in Blocks /\ "DEVICE_TASK" \in TaskIDs
  BY PlatformAssumption
<1>2. TMTypeOK /\ Shape BY <1>1, InitTypeShape DEF Init
<1>3. DRInv BY InitInv DEF Init
<1>4. TodoOK BY Programs DEF Init, TodoOK, All
<1>5. HandlesOK BY PlatformAssumption, DeviceAssumption DEF Init, DRInit, HandlesOK, DeviceOf
<1>6. QueuesOK
  <2>1. commands \in 0 .. MaxCommands BY PlatformAssumption DEF Init
  <2>2. DeviceAskQueue = FALSE /\ DeviceRespQueue = NULL /\ running = FALSE BY DEF Init
  <2>3. wlanUp = FALSE /\ wlanInitialised = FALSE /\ linkUp = FALSE /\ quitFlag = FALSE BY DEF Init
  <2> QED BY <2>1, <2>2, <2>3 DEF QueuesOK
<1> QED BY <1>2, <1>3, <1>4, <1>5, <1>6 DEF PfInv

LEMMA NextMaps == ASSUME PfInv, [Next]_vars PROVE Maps /\ PfInv'
<1>1. Maps /\ Keeps
  <2>1. CASE UNCHANGED vars
    <3>1. UNCHANGED <<tmVars, drVars, pfVars>> BY <2>1 DEF vars
    <3>2. TodoOK' /\ QueuesOK' BY <3>1 DEF PfInv, TodoOK, QueuesOK, pfVars, wlVars
    <3> QED BY <3>1, <3>2, SameHandles DEF PfInv, Maps, Keeps
  <2>2. ASSUME NEW p \in Procs, TaskStep(p) PROVE Maps /\ Keeps
    <3>1. CASE CallTaskCreate(p) \/ CallTaskDelete(p) \/ CallSends(p) \/ CallReceives(p)
      BY <3>1, CallsMap
    <3>2. CASE CallCreate(p) \/ CallCreated(p) \/ CallDelete(p) \/ CallDeleted(p)
      BY <3>2, CreatesMap
    <3>3. CASE AskList(p) \/ ReceiveList(p) \/ ChangeRunning(p) \/ HttpClose(p) \/ SendAnswer(p)
      BY <3>3, OthersMap
    <3> QED BY <2>2, <3>1, <3>2, <3>3 DEF TaskStep
  <2>3. ASSUME NEW p \in Procs \cup {Sched}, DeviceStep(p) PROVE Maps /\ Keeps
    BY <2>3, OpenMaps, CloseMaps DEF DeviceStep, All
  <2>4. CASE Listen \/ AwaitLink \/ CloseOver \/ Play \/ StopIgnored \/ Command
    BY <2>4, OthersMap
  <2>5. CASE DecStart BY <2>5, DecStartMaps
  <2>7. CASE Deinit \/ WifiOn \/ BusInit \/ WlanUp \/ Join \/ Poll BY <2>7, WlanMaps
  <2>6. CASE Receive \/ TaskStarts \/ TaskFails \/ TaskEnds \/ StaleBlock \/ Respond
    BY <2>6, SchedulerMaps
  <2> QED BY <2>1, <2>2, <2>3, <2>4, <2>5, <2>6, <2>7 DEF Next, Step
<1>2. (TMTypeOK /\ Shape)'
  <2>1. CASE UNCHANGED tmVars BY <2>1 DEF PfInv, tmVars, TMTypeOK, Shape
  <2>2. CASE TMNext BY <2>2, CallerTypeShape, SchedulerTypeShape DEF PfInv, TMNext
  <2> QED BY <1>1, <2>1, <2>2 DEF Maps
<1>3. DRInv' BY <1>1, NextInv DEF PfInv, Maps
<1> QED BY <1>1, <1>2, <1>3 DEF PfInv, Keeps

(* Every variable keeps its type: the tasks only have well-formed          *)
(* operations to do, and no open count is negative.                        *)
THEOREM PlatformTypes == Spec => []TypeOK
<1>1. PfInv => TypeOK BY DEF PfInv, DRInv, TodoOK, QueuesOK, All, TypeOK
<1> QED BY <1>1, InitPf, NextMaps, PTL DEF Spec

(* The tasks of Platform use the task service as TaskManager lets any      *)
(* caller use it.                                                          *)
THEOREM PlatformUsesTasks == Spec => TMSpec
<1>1. Init => \E b \in Blocks, id \in TaskIDs : TMInit(b, id)
  <2> SUFFICES ASSUME Init PROVE \E b \in Blocks, id \in TaskIDs : TMInit(b, id)
    OBVIOUS
  <2>1. (CHOOSE b \in Blocks : TRUE) \in Blocks /\ "DEVICE_TASK" \in TaskIDs
    BY PlatformAssumption
  <2> QED BY <2>1 DEF Init
<1>2. PfInv /\ [Next]_vars => [TMNext]_tmVars /\ PfInv' BY NextMaps DEF Maps
<1> QED BY <1>1, <1>2, InitPf, PTL DEF Spec, TMSpec

(* The tasks use the registry as DeviceRegistry expects of its clients.    *)
THEOREM PlatformUsesRegistry == Spec => UsesRegistry
<1>1. Init => DRInit BY DEF Init
<1>2. PfInv /\ [Next]_vars => [DRNext]_drVars /\ PfInv' BY NextMaps DEF Maps
<1> QED BY <1>1, <1>2, InitPf, PTL DEF Spec, DRSpec, UsesRegistry

(* Hence every caller that waits for the scheduler task has one answer     *)
(* due, unless a task was deleted while it waited.                         *)
THEOREM PlatformAnswers == Spec => []AnswersDue
BY PlatformUsesTasks, TaskAnswers, PTL

(* Hence list, heap and kernel agree unless one of four causes happened.   *)
THEOREM PlatformIntegrity == Spec => []Integrity
BY PlatformUsesTasks, TaskIntegrity, PTL

(* Hence what the tasks ask for is carried out once, and before their      *)
(* calls return, unless one of the causes happened.                        *)
THEOREM PlatformServes == Spec => ServesCalls
BY PlatformUsesTasks, TaskServes, PTL

(* Hence no device is lost.                                                *)
THEOREM PlatformLosesNothing == Spec => []NoDeviceLost
BY PlatformUsesRegistry, RegistryLosesNothing, PTL DEF UsesRegistry

(* Hence no device is deleted while one of its variables is open.          *)
THEOREM PlatformKeepsOpen == Spec => []OpenMeansRegistered
BY PlatformUsesRegistry, RegistryKeepsOpen, PTL DEF UsesRegistry

----------------------------------------------------------------------------
(* Scripts as sequences: taking the first operation away, dropping those   *)
(* up to any point, and putting others in front.                           *)
First1(t) == IF t = <<>> THEN Nothing ELSE Head(t)

LEMMA TailScript ==
  ASSUME NEW p, NEW S, NEW t \in Seq(S), t # <<>>
  PROVE  /\ Head(t) \in S /\ Tail(t) \in Seq(S)
         /\ Script(p, t) => Script(p, Tail(t)) /\ First1(Tail(t)) = Follow(p, Head(t))
<1>1. /\ Len(t) \in Nat /\ Len(t) > 0 /\ Head(t) = t[1] /\ Head(t) \in S
      /\ Tail(t) \in Seq(S) /\ Len(Tail(t)) = Len(t) - 1
  OBVIOUS
<1>2. \A i \in 1 .. Len(t) - 1 : Tail(t)[i] = t[i + 1] BY <1>1
<1>3. ASSUME Script(p, t) PROVE Script(p, Tail(t))
  <2>1. SUFFICES ASSUME NEW i \in 1 .. Len(Tail(t))
                 PROVE  (IF i = Len(Tail(t)) THEN Nothing ELSE Tail(t)[i + 1])
                          = Follow(p, Tail(t)[i])
    BY DEF Script
  <2>2. i \in Nat /\ i >= 1 /\ i <= Len(t) - 1 BY <1>1
  <2>3. i + 1 \in 1 .. Len(t) /\ (i + 1 = Len(t) <=> i = Len(Tail(t))) BY <1>1, <2>2
  <2>4. Tail(t)[i] = t[i + 1] BY <1>1, <1>2
  <2>5. CASE i = Len(Tail(t)) BY <1>3, <2>3, <2>4, <2>5 DEF Script
  <2>6. CASE i # Len(Tail(t))
    <3>0. Len(t) \in Nat /\ i # Len(t) - 1 BY <1>1, <2>6
    <3>1. i + 1 \in 1 .. Len(t) - 1 BY <2>2, <3>0
    <3>2. Tail(t)[i + 1] = t[i + 1 + 1] BY <1>2, <3>1
    <3> QED BY <1>3, <2>3, <2>4, <2>6, <3>2 DEF Script
  <2> QED BY <2>5, <2>6
<1>4. ASSUME Script(p, t) PROVE First1(Tail(t)) = Follow(p, Head(t))
  <2>1. 1 \in 1 .. Len(t) BY <1>1
  <2>2. (IF 1 = Len(t) THEN Nothing ELSE t[1 + 1]) = Follow(p, t[1])
    BY <1>4, <2>1 DEF Script
  <2>3. Tail(t) = <<>> <=> Len(Tail(t)) = 0
    <3>1. Tail(t) \in Seq(S) BY <1>1
    <3> QED BY <3>1, EmptySeq
  <2>4. Tail(t) # <<>> => Head(Tail(t)) = t[1 + 1]
    <3>1. HAVE Tail(t) # <<>>
    <3>2. 1 \in 1 .. Len(t) - 1 BY <1>1, <2>3, <3>1
    <3>3. Head(Tail(t)) = Tail(t)[1] BY <1>1, <3>1
    <3> QED BY <1>2, <3>2, <3>3
  <2> QED BY <1>1, <2>2, <2>3, <2>4 DEF First1
<1> QED BY <1>1, <1>3, <1>4

LEMMA RestScript ==
  ASSUME NEW p, NEW S, NEW t \in Seq(S), NEW k \in DOMAIN t, Script(p, t)
  PROVE  LET r == SubSeq(t, k + 1, Len(t)) IN
         r \in Seq(S) /\ Script(p, r) /\ First1(r) = Follow(p, t[k])
<1> DEFINE r == SubSeq(t, k + 1, Len(t))  n == Len(t)
<1>1. n \in Nat /\ DOMAIN t = 1 .. n /\ k \in Nat /\ 1 <= k /\ k <= n BY LenProperties
<1>2. \A i \in k + 1 .. n : t[i] \in S BY <1>1, ElementOfSeq
<1>3. /\ r \in Seq(S) /\ Len(r) = n - k
      /\ \A i \in 1 .. n - k : r[i] = t[k + i]
  <2>1. k + 1 \in 1 .. n + 1 /\ n - (k + 1) + 1 = n - k BY <1>1
  <2>2. r \in Seq(S) BY <1>1, <1>2, SubSeqProperties
  <2>3. /\ Len(r) = IF k + 1 <= n THEN n - (k + 1) + 1 ELSE 0
        /\ \A i \in 1 .. n - (k + 1) + 1 : r[i] = t[k + 1 + i - 1]
    BY <1>1, <1>2, SubSeqProperties
  <2>4. Len(r) = n - k
    <3> DEFINE l == Len(r)
    <3>1. l = IF k + 1 <= n THEN n - (k + 1) + 1 ELSE 0 BY <2>3
    <3> HIDE DEF l, n, r
    <3>2. l = n - k BY <1>1, <3>1
    <3> QED BY <3>2 DEF l
  <2>5. ASSUME NEW i \in 1 .. n - k PROVE r[i] = t[k + i]
    <3>1. i \in 1 .. n - (k + 1) + 1 BY <1>1
    <3>2. k + 1 + i - 1 = k + i BY <1>1
    <3> QED BY <2>3, <3>1, <3>2
  <2> QED BY <2>2, <2>4, <2>5
<1> HIDE DEF r
<1>4. ASSUME NEW i \in 1 .. Len(r)
      PROVE  (IF i = Len(r) THEN Nothing ELSE r[i + 1]) = Follow(p, r[i])
  <2>1. i \in Nat /\ 1 <= i /\ i <= n - k BY <1>1, <1>3
  <2>2. k + i \in 1 .. n /\ r[i] = t[k + i] /\ (k + i = n <=> i = Len(r)) BY <1>1, <1>3, <2>1
  <2>3. (IF k + i = n THEN Nothing ELSE t[k + i + 1]) = Follow(p, t[k + i])
    BY <2>2 DEF Script
  <2>4. i # Len(r) => r[i + 1] = t[k + i + 1]
    <3>1. HAVE i # Len(r)
    <3>2. i + 1 \in 1 .. n - k /\ k + (i + 1) = k + i + 1 BY <1>1, <1>3, <2>1, <3>1
    <3> QED BY <1>3, <3>2
  <2> QED BY <2>2, <2>3, <2>4
<1>5. First1(r) = Follow(p, t[k])
  <2>1. (IF k = n THEN Nothing ELSE t[k + 1]) = Follow(p, t[k]) BY <1>1 DEF Script
  <2>2. r = <<>> <=> k = n
    <3>1. r = <<>> <=> Len(r) = 0 BY <1>3, EmptySeq
    <3> QED BY <1>1, <1>3, <3>1
  <2>3. k # n => Head(r) = t[k + 1]
    <3>1. HAVE k # n
    <3>2. 1 \in 1 .. n - k BY <1>1, <3>1
    <3>3. Head(r) = r[1] BY <1>3, <2>2, <3>1, HeadTailProperties
    <3> QED BY <1>3, <3>2, <3>3
  <2> QED BY <2>1, <2>2, <2>3 DEF First1
<1>6. Script(p, r) BY <1>4 DEF Script
<1> QED BY <1>3, <1>5, <1>6 DEF r

(* A piece of a script, whose operations follow each other.                *)
Chain(p, q) == \A i \in 1 .. Len(q) - 1 : q[i + 1] = Follow(p, q[i])

LEMMA JoinScript ==
  ASSUME NEW p, NEW S, NEW q \in Seq(S), NEW t \in Seq(S), q # <<>>, Script(p, t), Chain(p, q),
         First1(t) = Follow(p, q[Len(q)])
  PROVE  /\ q \o t \in Seq(S) /\ Script(p, q \o t)
         /\ q \o t # <<>> /\ Head(q \o t) = Head(q)
<1>1. /\ Len(q) \in Nat /\ Len(q) > 0 /\ Len(t) \in Nat
      /\ q \o t \in Seq(S) /\ Len(q \o t) = Len(q) + Len(t)
  OBVIOUS
<1>2. /\ \A i \in 1 .. Len(q) : (q \o t)[i] = q[i]
      /\ \A j \in 1 .. Len(t) : (q \o t)[Len(q) + j] = t[j]
  BY <1>1
<1>3. Script(p, q \o t)
  <2>1. SUFFICES ASSUME NEW i \in 1 .. Len(q \o t)
                 PROVE  (IF i = Len(q \o t) THEN Nothing ELSE (q \o t)[i + 1])
                          = Follow(p, (q \o t)[i])
    BY DEF Script
  <2>2. i \in Nat /\ i >= 1 /\ i <= Len(q) + Len(t) BY <1>1
  <2>3. CASE i < Len(q)
    <3>1. i \in 1 .. Len(q) - 1 /\ i \in 1 .. Len(q) /\ i + 1 \in 1 .. Len(q)
          /\ i # Len(q \o t)
      BY <1>1, <2>2, <2>3
    <3> QED BY <1>2, <3>1 DEF Chain
  <2>4. CASE i = Len(q)
    <3>1. t = <<>> <=> Len(t) = 0 OBVIOUS
    <3>2. i \in 1 .. Len(q) /\ (i = Len(q \o t) <=> t = <<>>) BY <1>1, <2>2, <2>4, <3>1
    <3>3. t # <<>> => Head(t) = t[1] /\ (q \o t)[i + 1] = t[1]
      <4>1. HAVE t # <<>>
      <4>2. 1 \in 1 .. Len(t) BY <1>1, <3>1, <4>1
      <4> QED BY <1>2, <2>4, <4>1, <4>2
    <3> QED BY <1>2, <2>4, <3>2, <3>3 DEF First1
  <2>5. CASE i > Len(q)
    <3>1. PICK j \in 1 .. Len(t) : i = Len(q) + j
      <4>1. i - Len(q) \in 1 .. Len(t) /\ i = Len(q) + (i - Len(q)) BY <1>1, <2>2, <2>5
      <4> QED BY <4>1
    <3>2. (q \o t)[i] = t[j] /\ (j = Len(t) <=> i = Len(q \o t))
      <4>1. (q \o t)[i] = t[j] BY <1>2, <3>1
      <4>2. j = Len(t) <=> i = Len(q \o t)
        <5> DEFINE a == Len(q)  b == Len(t)  c == Len(q \o t)
        <5>1. a \in Nat /\ b \in Nat /\ c = a + b /\ i = a + j /\ j \in Nat BY <1>1, <3>1
        <5> HIDE DEF a, b, c
        <5>2. j = b <=> i = c BY <5>1
        <5> QED BY <5>2 DEF b, c
      <4> QED BY <4>1, <4>2
    <3>3. j # Len(t) => (q \o t)[i + 1] = t[j + 1]
      <4>1. HAVE j # Len(t)
      <4>2. j + 1 \in 1 .. Len(t) /\ i + 1 = Len(q) + (j + 1) BY <1>1, <3>1, <4>1
      <4> QED BY <1>2, <4>2
    <3>4. (IF j = Len(t) THEN Nothing ELSE t[j + 1]) = Follow(p, t[j]) BY DEF Script
    <3> QED BY <3>2, <3>3, <3>4
  <2>6. i < Len(q) \/ i = Len(q) \/ i > Len(q) BY <2>2
  <2> QED BY <2>3, <2>4, <2>5, <2>6
<1> QED BY <1>1, <1>3

(* A script with nothing after it.                                         *)
LEMMA WholeScript ==
  ASSUME NEW p, NEW S, NEW q \in Seq(S), q # <<>>, Chain(p, q), Follow(p, q[Len(q)]) = Nothing
  PROVE  Script(p, q)
<1>1. /\ <<>> \in Seq(S) /\ Script(p, <<>>) /\ First1(<<>>) = Nothing /\ q \o <<>> = q
  <2>1. <<>> \in Seq(S) /\ Len(<<>>) = 0 BY EmptySeq
  <2>2. Script(p, <<>>) BY <2>1 DEF Script
  <2>3. q \o <<>> = q BY ConcatEmptySeq
  <2> QED BY <2>1, <2>2, <2>3 DEF First1
<1>2. Script(p, q \o <<>>)
  <2> DEFINE t == <<>>
  <2>1. t \in Seq(S) /\ Script(p, t) /\ First1(t) = Nothing BY <1>1
  <2> HIDE DEF t
  <2>2. Script(p, q \o t) BY <2>1, JoinScript
  <2> QED BY <2>2 DEF t
<1> QED BY <1>1, <1>2

----------------------------------------------------------------------------
(* What a task is doing, before and after a step. *)

LEMMA Members ==
  /\ All = {"device", "shell", "wifi", "wwd", "player", "http", Sched}
  /\ Scripted \subseteq Procs /\ Scripted \subseteq All
  /\ \A p \in All : Nothing \notin OpsOf(p)
  /\ OpsOf("device") = DeviceOps /\ OpsOf("shell") = ShellOps /\ OpsOf("wifi") = WifiOps
  /\ OpsOf("http") = HttpOps /\ OpsOf("player") = PlayerOps /\ OpsOf(Sched) = SchedOps
  /\ OpsOf("wwd") = WwdOps
<1>1. All = {"device", "shell", "wifi", "wwd", "player", "http", Sched} BY PlatformAssumption DEF All
<1>2. Scripted \subseteq Procs /\ Scripted \subseteq All BY PlatformAssumption DEF Scripted, All
<1>3. /\ OpsOf("device") = DeviceOps /\ OpsOf("shell") = ShellOps /\ OpsOf("wifi") = WifiOps
      /\ OpsOf("http") = HttpOps /\ OpsOf("player") = PlayerOps /\ OpsOf(Sched) = SchedOps
      /\ OpsOf("wwd") = WwdOps
  BY DEF OpsOf, Sched
<1>4. \A o \in DeviceOps : o.op # "nothing" BY DEF DeviceOps
<1>5. \A o \in ShellOps : o.op # "nothing" BY DEF ShellOps
<1>6. \A o \in WifiOps \cup HttpOps \cup WwdOps : o.op # "nothing"
  BY DEF WifiOps, HttpOps, WwdOps
<1>7. \A o \in PlayerOps : o.op # "nothing" BY DEF PlayerOps
<1>8. \A o \in SchedOps : o.op # "nothing" BY DEF SchedOps
<1>9. Nothing.op = "nothing" BY DEF Nothing
<1>10. \A p \in All : Nothing \notin OpsOf(p)
  BY <1>1, <1>3, <1>4, <1>5, <1>6, <1>7, <1>8, <1>9
<1> QED BY <1>1, <1>2, <1>3, <1>10

LEMMA DoingIs ==
  ASSUME Ordered, NEW p \in All
  PROVE  /\ todo[p] \in Seq(OpsOf(p))
         /\ todo[p] = <<>> <=> Doing(p) = Nothing
         /\ todo[p] # <<>> => Doing(p) = Head(todo[p]) /\ Doing(p) \in OpsOf(p)
<1>1. todo[p] \in Seq(OpsOf(p)) BY DEF Ordered, All
<1>2. todo[p] # <<>> => Head(todo[p]) \in OpsOf(p) BY <1>1, TailScript
<1> QED BY <1>1, <1>2, Members DEF Doing

LEMMA AtDoing ==
  ASSUME Ordered, NEW p \in All, NEW name, At(p, name)
  PROVE  /\ Ready(p) /\ todo[p] # <<>> /\ Now(p) = Doing(p)
         /\ Doing(p) \in OpsOf(p) /\ Doing(p).op = name
BY DoingIs DEF At, Now

LEMMA OthersDoing ==
  ASSUME TodoOK, NEW p \in All, NEW s, todo' = [todo EXCEPT ![p] = s]
  PROVE  /\ todo'[p] = s /\ Doing(p)' = First1(s)
         /\ \A q \in All \ {p} : todo'[q] = todo[q] /\ Doing(q)' = Doing(q)
BY DEF TodoOK, Doing, First1

LEMMA SameDoing ==
  ASSUME UNCHANGED todo PROVE (Scripts => Scripts') /\ \A q : Doing(q)' = Doing(q)
BY DEF Scripts, Ordered, Listing, AtList, Doing, Script

(* The task gets a new sequence of operations.                             *)
LEMMA NewOrdered ==
  ASSUME TodoOK, Ordered, NEW p \in All, NEW s \in Seq(OpsOf(p)),
         p \in Scripted => Script(p, s), todo' = [todo EXCEPT ![p] = s]
  PROVE  Ordered'
<1>1. \A q \in All \ {p} : todo'[q] = todo[q] BY OthersDoing
<1>2. todo'[p] = s BY OthersDoing
<1>3. \A q \in All : todo'[q] \in Seq(OpsOf(q)) BY <1>1, <1>2 DEF Ordered, All
<1>4. ASSUME NEW q \in Scripted PROVE Script(q, todo'[q])
  <2>1. q \in All BY Members
  <2>2. Script(q, todo[q]) BY DEF Ordered
  <2> QED BY <1>1, <1>2, <2>1, <2>2
<1> QED BY <1>3, <1>4 DEF Ordered, All, Script

LEMMA DoneOrdered ==
  ASSUME TodoOK, Ordered, NEW p \in All, todo[p] # <<>>, Done(p)
  PROVE  /\ Ordered' /\ todo' = [todo EXCEPT ![p] = Tail(todo[p])]
         /\ p \in Scripted => Doing(p)' = Follow(p, Doing(p))
         /\ \A q \in All \ {p} : todo'[q] = todo[q] /\ Doing(q)' = Doing(q)
<1> DEFINE t == todo[p]
<1>1. t \in Seq(OpsOf(p)) /\ Doing(p) = Head(t) BY DoingIs
<1>2. /\ Tail(t) \in Seq(OpsOf(p))
      /\ Script(p, t) => Script(p, Tail(t)) /\ First1(Tail(t)) = Follow(p, Head(t))
  BY <1>1, TailScript
<1>3. todo' = [todo EXCEPT ![p] = Tail(t)]
  <2>1. <<>> \o Tail(t) = Tail(t) BY <1>2, ConcatEmptySeq
  <2> QED BY <2>1 DEF Done, Then
<1>4. p \in Scripted => Script(p, t) BY DEF Ordered
<1> HIDE DEF t
<1>5. Ordered' BY <1>2, <1>3, <1>4, NewOrdered
<1>6. Doing(p)' = First1(Tail(t)) BY <1>3, OthersDoing
<1> QED BY <1>1, <1>2, <1>3, <1>4, <1>5, <1>6, OthersDoing DEF t

LEMMA ThenOrdered ==
  ASSUME TodoOK, Ordered, NEW p \in All, todo[p] # <<>>, NEW s \in Seq(OpsOf(p)), s # <<>>,
         p \in Scripted => Chain(p, s) /\ Follow(p, s[Len(s)]) = Follow(p, Doing(p)),
         Then(p, s)
  PROVE  /\ Ordered' /\ todo' = [todo EXCEPT ![p] = s \o Tail(todo[p])]
         /\ Doing(p)' = Head(s)
         /\ \A q \in All \ {p} : todo'[q] = todo[q] /\ Doing(q)' = Doing(q)
<1> DEFINE t == Tail(todo[p])
<1>1. todo[p] \in Seq(OpsOf(p)) /\ Doing(p) = Head(todo[p]) BY DoingIs
<1>2. p \in Scripted => Script(p, todo[p]) BY DEF Ordered
<1>3. /\ t \in Seq(OpsOf(p))
      /\ p \in Scripted => Script(p, t) /\ First1(t) = Follow(p, Doing(p))
  BY <1>1, <1>2, TailScript
<1>4. todo' = [todo EXCEPT ![p] = s \o t] BY DEF Then
<1> HIDE DEF t
<1>5. s \o t \in Seq(OpsOf(p)) /\ s \o t # <<>> /\ Head(s \o t) = Head(s)
  BY <1>3
<1>6. p \in Scripted => Script(p, s \o t) BY <1>3, JoinScript
<1>7. Ordered' BY <1>4, <1>5, <1>6, NewOrdered
<1>8. Doing(p)' = Head(s) BY <1>4, <1>5, OthersDoing DEF First1
<1> QED BY <1>4, <1>7, <1>8, OthersDoing DEF t

(* goto err: the answer comes next, whatever was left before it.           *)
LEMMA ErrOrdered ==
  ASSUME TodoOK, Ordered, NEW p \in {"device", "shell"}, Err(p)
  PROVE  /\ Ordered' /\ Doing(p)' = Answer("RK_ERROR")
         /\ \A q \in All \ {p} : todo'[q] = todo[q] /\ Doing(q)' = Doing(q)
         /\ \E i \in DOMAIN todo[p] : todo[p][i].op = "answer"
         /\ \E i \in DOMAIN todo'[p] : todo'[p][i].op = "answer"
<1>0. p \in All /\ p \in Scripted BY Members DEF Scripted
<1> DEFINE t == todo[p]
<1>1. t \in Seq(OpsOf(p)) /\ Script(p, t) BY <1>0, DoingIs DEF Ordered
<1>2. PICK i \in DOMAIN t :
        /\ t[i].op = "answer"
        /\ todo' = [todo EXCEPT ![p] = << Answer("RK_ERROR") >> \o SubSeq(t, i + 1, Len(t))]
  BY DEF Err
<1> DEFINE r == SubSeq(t, i + 1, Len(t))  a == Answer("RK_ERROR")
<1>3. r \in Seq(OpsOf(p)) /\ Script(p, r) /\ First1(r) = Follow(p, t[i]) BY <1>1, RestScript
<1>4. a \in OpsOf(p) /\ Follow(p, a) = Follow(p, t[i])
  <2>1. a \in DeviceOps /\ a \in ShellOps BY DEF DeviceOps, ShellOps, Answer
  <2>2. a.op = "answer" BY DEF Answer
  <2>3. FollowDevice(a) = Only("listen") /\ FollowDevice(t[i]) = Only("listen")
    BY <1>2, <2>2 DEF FollowDevice
  <2>4. FollowShell(a) = FollowShell(t[i]) BY <1>2, <2>2 DEF FollowShell
  <2> QED BY <2>1, <2>3, <2>4, Members DEF Follow
<1> HIDE DEF r, a, t
<1>5. << a >> \in Seq(OpsOf(p)) /\ << a >> # <<>> /\ Len(<< a >>) = 1 /\ << a >>[1] = a
      /\ Head(<< a >>) = a
  BY <1>4
<1>6. Chain(p, << a >>) BY <1>5 DEF Chain
<1>7. /\ << a >> \o r \in Seq(OpsOf(p)) /\ Script(p, << a >> \o r)
      /\ << a >> \o r # <<>> /\ Head(<< a >> \o r) = a
  <2> DEFINE q == << a >>
  <2>1. /\ q \in Seq(OpsOf(p)) /\ q # <<>> /\ Chain(p, q) /\ Head(q) = a
        /\ First1(r) = Follow(p, q[Len(q)])
    BY <1>3, <1>4, <1>5, <1>6
  <2> HIDE DEF q
  <2>2. /\ q \o r \in Seq(OpsOf(p)) /\ Script(p, q \o r)
        /\ q \o r # <<>> /\ Head(q \o r) = Head(q)
    BY <1>3, <2>1, JoinScript
  <2> QED BY <2>1, <2>2 DEF q
<1>8. todo' = [todo EXCEPT ![p] = << a >> \o r] BY <1>2 DEF a, r, t
<1>9. Ordered' BY <1>0, <1>7, <1>8, NewOrdered
<1>10. Doing(p)' = a BY <1>0, <1>7, <1>8, OthersDoing DEF First1
<1>11. todo'[p] = << a >> \o r BY <1>0, <1>8, OthersDoing
<1>12. 1 \in DOMAIN todo'[p] /\ todo'[p][1] = a BY <1>7, <1>11
<1>13. a.op = "answer" BY DEF a, Answer
<1>14. \E j \in DOMAIN todo[p] : todo[p][j].op = "answer" BY <1>2 DEF t
<1> QED BY <1>0, <1>8, <1>9, <1>10, <1>12, <1>13, <1>14, OthersDoing DEF a

----------------------------------------------------------------------------
(* What follows an operation in each of the three programs. *)

LEMMA DeviceFollows ==
  ASSUME NEW o \in DeviceOps
  PROVE  LET n == FollowDevice(o) IN
         /\ o.op # "answer" => (AtList(n) <=> AtList(o))
         /\ o.op = "answer" => AtList(o) /\ ~AtList(n) /\ n = Only("listen")
         /\ o.op = "listen" => n = Nothing /\ ~AtList(o)
         /\ Booting(n) => Booting(o)
         /\ \A d : Creating(n, d) => o.op = "taskCreate" /\ o.id = "SDIO_IRQ_TASK" /\ d = "SDIO"
         /\ o.op = "taskCreate" /\ o.id = "SDIO_IRQ_TASK" => n = Created("SDIO", TRUE)
         /\ n.op = "open" /\ n.var = "hSdc" => o.op \in {"create", "created"} /\ o.dev = "SDC"
         /\ n.op = "taskCreate" => n.id # "SDIO_IRQ_TASK"
         /\ n.op = "created" => n.ok = TRUE
<1> USE DEF AtList, Booting, Creating, Nothing, Only, TaskCreate, Create, Created, Open, Close,
            Answer
<1>1. CASE o.op = "create" \/ o.op = "created"
  <2>1. o.dev \in {"DMA", "FILE", "AUDIO", "BCORE", "SDC", "SDIO", "FIFO"}
    BY <1>1 DEF DeviceOps
  <2>2. FollowDevice(o) = AfterCreate(o.dev) BY <1>1 DEF FollowDevice
  <2>3. CASE o.dev \in {"DMA", "FILE", "AUDIO", "BCORE"}
    <3>1. \/ FollowDevice(o) = Create("FILE") \/ FollowDevice(o) = Create("AUDIO")
          \/ FollowDevice(o) = Create("BCORE") \/ FollowDevice(o) = TaskCreate("BCORE")
      BY <2>2, <2>3 DEF AfterCreate
    <3> QED BY <1>1, <2>3, <3>1
  <2>4. CASE o.dev \in {"SDC", "SDIO", "FIFO"}
    <3>1. \/ FollowDevice(o) = Open("hSdc", "err") /\ o.dev = "SDC"
          \/ FollowDevice(o) = Open("hFileList", "err")
          \/ FollowDevice(o) = Answer("RK_SUCCESS")
      BY <2>2, <2>4 DEF AfterCreate
    <3> QED BY <1>1, <2>4, <3>1
  <2> QED BY <2>1, <2>3, <2>4
<1>2. CASE o.op = "taskCreate"
  <2>1. o.id \in {"BCORE", "SHELL", "SDIO_IRQ_TASK"} BY <1>2 DEF DeviceOps
  <2> QED BY <1>2, <2>1 DEF FollowDevice
<1>3. CASE o.op = "open"
  <2>1. o.var \in {"hDma", "hSdc", "hFileList"} BY <1>3 DEF DeviceOps
  <2> QED BY <1>3, <2>1 DEF FollowDevice
<1>4. CASE o.op = "close" BY <1>4 DEF FollowDevice
<1>5. CASE o.op = "answer" BY <1>5 DEF FollowDevice
<1>6. CASE o.op = "listen" BY <1>6 DEF FollowDevice
<1>7. o.op \in {"create", "created", "taskCreate", "open", "close", "answer", "listen"}
  BY DEF DeviceOps
<1> QED BY <1>1, <1>2, <1>3, <1>4, <1>5, <1>6, <1>7

LEMMA ShellFollows ==
  ASSUME NEW o \in ShellOps
  PROVE  LET n == FollowShell(o) IN
         /\ o.op \in {"dormant", "awaitLink", "askList", "receiveList", "httpClose", "taskCreate",
                      "setRunning"} => Stage(n) = Stage(o)
         /\ o.op = "deinit" => Stage(o) = 1 /\ Stage(n) = 8
         /\ o.op = "closeOver" => Stage(o) = 8 /\ Stage(n) = 0
         /\ o.op = "deleted" => Stage(n) = (IF o.dev = "SDIO" THEN 4 ELSE 6)
         /\ o.op = "answer" => Stage(o) = 6 /\ n = TaskDelete("TCPIP_THREAD", "SYNC_MODE")
         /\ o.op = "close" =>
              CASE o.var = "hFifo" -> Stage(o) = 1 /\ Stage(n) = 1
                [] o.var = "hSdio" -> Stage(o) = 2 /\ Stage(n) = 3
                [] o.var = "hSdc" -> Stage(o) = 4 /\ Stage(n) = 5
                [] o.var = "hDma" -> Stage(o) = 6 /\ Stage(n) = 6
         /\ o.op = "taskDelete" =>
              CASE o.id = "TCPIP_THREAD" -> Stage(o) = 7 /\ Stage(n) = 8
                [] o.id = "WIFI_APPLICATION" -> Stage(o) = 8 /\ n = Only("closeOver")
                [] OTHER -> Stage(n) = Stage(o)
         /\ \A d : Removing(n, d) => o.op = "taskDelete" /\ o.id = "SDIO_IRQ_TASK" /\ d = "SDIO"
         /\ o.op = "taskDelete" /\ o.id = "SDIO_IRQ_TASK" => n = Deleted("SDIO")
         /\ n.op = "deleted" => o.op = "taskDelete" /\ o.id = "SDIO_IRQ_TASK"
         /\ n.op # "taskCreate" /\ n.op # "dormant"
         /\ n.op = "receiveList" <=> o.op = "askList"
<1> USE DEF Removing, Stage, Nothing, Only, TaskDelete, Delete, Deleted, Close, Answer, SetRunning
<1>1. CASE o.op = "taskCreate"
  <2>1. o.id \in {"WIFI_APPLICATION", "DLNA"} BY <1>1 DEF ShellOps
  <2>2. CASE o.id = "WIFI_APPLICATION" BY <1>1, <2>2 DEF FollowShell
  <2>3. CASE o.id = "DLNA" BY <1>1, <2>3 DEF FollowShell
  <2> QED BY <2>1, <2>2, <2>3
<1>2. CASE o.op = "taskDelete"
  <2>1. o.id \in {"AUDIOCONTROL", "STREAMCONTROL", "SDIO_IRQ_TASK", "TCPIP_THREAD",
                  "WIFI_APPLICATION", "HTTP"}
    BY <1>2 DEF ShellOps
  <2>2. CASE o.id = "AUDIOCONTROL" BY <1>2, <2>2 DEF FollowShell
  <2>3. CASE o.id = "STREAMCONTROL" BY <1>2, <2>3 DEF FollowShell
  <2>4. CASE o.id = "SDIO_IRQ_TASK" BY <1>2, <2>4 DEF FollowShell
  <2>5. CASE o.id = "TCPIP_THREAD" BY <1>2, <2>5 DEF FollowShell
  <2>6. CASE o.id = "WIFI_APPLICATION" BY <1>2, <2>6 DEF FollowShell
  <2>7. CASE o.id = "HTTP" BY <1>2, <2>7 DEF FollowShell
  <2> QED BY <2>1, <2>2, <2>3, <2>4, <2>5, <2>6, <2>7
<1>3. CASE o.op = "close"
  <2>1. o.var \in {"hFifo", "hSdio", "hSdc", "hDma"} BY <1>3 DEF ShellOps
  <2>2. CASE o.var = "hFifo" BY <1>3, <2>2 DEF FollowShell
  <2>3. CASE o.var = "hSdio" BY <1>3, <2>3 DEF FollowShell
  <2>4. CASE o.var = "hSdc" BY <1>3, <2>4 DEF FollowShell
  <2>5. CASE o.var = "hDma" BY <1>3, <2>5 DEF FollowShell
  <2> QED BY <2>1, <2>2, <2>3, <2>4, <2>5
<1>4. CASE o.op = "delete" \/ o.op = "deleted"
  <2>1. o.dev \in {"SDC", "SDIO"} BY <1>4 DEF ShellOps
  <2>2. CASE o.op = "delete" BY <2>1, <2>2 DEF FollowShell
  <2>3. CASE o.op = "deleted" BY <2>1, <2>3 DEF FollowShell
  <2> QED BY <1>4, <2>2, <2>3
<1>5. CASE o.op \in {"httpClose", "setRunning", "deinit"} BY <1>5 DEF FollowShell
<1>6. CASE o.op \in {"askList", "dormant", "awaitLink", "receiveList"} BY <1>6 DEF FollowShell
<1>8. CASE o.op = "closeOver" BY <1>8 DEF FollowShell
<1>9. CASE o.op = "answer" BY <1>9 DEF FollowShell
<1>7. o.op \in {"dormant", "awaitLink", "askList", "receiveList", "httpClose", "deinit",
                "closeOver", "taskCreate", "taskDelete", "delete", "deleted", "close", "answer",
                "setRunning"}
  BY DEF ShellOps
<1> QED BY <1>1, <1>2, <1>3, <1>4, <1>5, <1>6, <1>7, <1>8, <1>9

LEMMA WifiFollows ==
  ASSUME NEW o \in WifiOps
  PROVE  LET n == FollowWifi(o) IN
         /\ n.op = "receiveList" <=> o.op = "askList"
         /\ o.op = "receiveList" => n.op = "open"
         /\ o.op = "open" => n = Only("busInit") /\ o = Open("hSdio", "again")
         /\ o.op = "busInit" => n = TaskCreate("WWD")
         /\ o.op = "taskCreate" =>
              CASE o.id = "WWD" -> n = Only("wlanUp") [] o.id = "TCPIP_THREAD" -> n = Only("wifiOn")
         /\ o.op \in {"wifiOn", "wlanUp"} => n = Only("join")
         /\ o.op \in {"dormant", "join"} => n = Nothing
         /\ n.op # "dormant"
<1> USE DEF Only, Open, TaskCreate, Nothing
<1>1. CASE o.op = "taskCreate"
  <2>1. o.id \in {"TCPIP_THREAD", "WWD"} BY <1>1 DEF WifiOps
  <2> QED BY <1>1, <2>1 DEF FollowWifi
<1>2. CASE o.op = "open"
  <2>1. o = Open("hSdio", "again") BY <1>2 DEF WifiOps
  <2> QED BY <1>2, <2>1 DEF FollowWifi
<1>3. CASE o.op \in {"dormant", "wifiOn", "askList", "receiveList", "busInit", "wlanUp", "join"}
  BY <1>3 DEF FollowWifi
<1>4. o.op \in {"dormant", "wifiOn", "askList", "receiveList", "busInit", "wlanUp", "join",
                "taskCreate", "open"}
  BY DEF WifiOps
<1> QED BY <1>1, <1>2, <1>3, <1>4

(* The fields of an operation of each of the three.                        *)
LEMMA DeviceHas ==
  ASSUME NEW o \in DeviceOps
  PROVE  /\ o.op \in {"create", "created", "taskCreate", "open", "close", "answer", "listen"}
         /\ o.op \in {"create", "created"} =>
              o.dev \in {"DMA", "FILE", "AUDIO", "BCORE", "SDC", "SDIO", "FIFO"}
         /\ o.op = "created" => o = Created(o.dev, o.ok) /\ o.ok \in BOOLEAN
         /\ o.op = "taskCreate" => /\ o.id \in {"BCORE", "SHELL", "SDIO_IRQ_TASK"}
                                   /\ o = TaskCreate(o.id)
         /\ o.op = "open" => o.var \in {"hDma", "hSdc", "hFileList"} /\ o.onNull = "err"
         /\ o.op = "close" => o.var = "hFileList" /\ o.clear = FALSE
<1> USE DEF DeviceOps, Created, TaskCreate
<1>1. o.op \in {"create", "created", "taskCreate", "open", "close", "answer", "listen"} OBVIOUS
<1>2. o.op \in {"create", "created"} =>
              o.dev \in {"DMA", "FILE", "AUDIO", "BCORE", "SDC", "SDIO", "FIFO"}
  OBVIOUS
<1>3. o.op = "created" => o = Created(o.dev, o.ok) /\ o.ok \in BOOLEAN OBVIOUS
<1>4. o.op = "taskCreate" => o.id \in {"BCORE", "SHELL", "SDIO_IRQ_TASK"} /\ o = TaskCreate(o.id)
  OBVIOUS
<1>5. o.op = "open" => o.var \in {"hDma", "hSdc", "hFileList"} /\ o.onNull = "err" OBVIOUS
<1>6. o.op = "close" => o.var = "hFileList" /\ o.clear = FALSE OBVIOUS
<1> QED BY <1>1, <1>2, <1>3, <1>4, <1>5, <1>6

LEMMA ShellHas ==
  ASSUME NEW o \in ShellOps
  PROVE  /\ o.op \in {"dormant", "awaitLink", "askList", "receiveList", "httpClose", "deinit",
                      "closeOver", "taskCreate", "taskDelete", "delete", "deleted", "close",
                      "answer", "setRunning"}
         /\ o.op = "taskCreate" => o.id \in {"WIFI_APPLICATION", "DLNA"} /\ o = TaskCreate(o.id)
         /\ o.op = "taskDelete" =>
              \/ o.id = "HTTP" /\ o.mode = "ASYNC_MODE"
              \/ /\ o.id \in {"AUDIOCONTROL", "STREAMCONTROL", "SDIO_IRQ_TASK", "TCPIP_THREAD",
                               "WIFI_APPLICATION"}
                 /\ o = TaskDelete(o.id, "SYNC_MODE") /\ o.mode = "SYNC_MODE"
         /\ o.op \in {"delete", "deleted"} => o.dev \in {"SDC", "SDIO"}
         /\ o.op = "close" => o.var \in {"hFifo", "hSdio", "hSdc", "hDma"} /\ o.clear = TRUE
<1> USE DEF ShellOps, TaskCreate, TaskDelete
<1>1. o.op \in {"dormant", "awaitLink", "askList", "receiveList", "httpClose", "deinit",
                "closeOver", "taskCreate", "taskDelete", "delete", "deleted", "close", "answer",
                "setRunning"}
  OBVIOUS
<1>2. o.op = "taskCreate" => o.id \in {"WIFI_APPLICATION", "DLNA"} /\ o = TaskCreate(o.id)
  OBVIOUS
<1>3. o.op = "taskDelete" =>
        \/ o.id = "HTTP" /\ o.mode = "ASYNC_MODE"
        \/ /\ o.id \in {"AUDIOCONTROL", "STREAMCONTROL", "SDIO_IRQ_TASK", "TCPIP_THREAD",
                         "WIFI_APPLICATION"}
           /\ o = TaskDelete(o.id, "SYNC_MODE") /\ o.mode = "SYNC_MODE"
  OBVIOUS
<1>4. o.op \in {"delete", "deleted"} => o.dev \in {"SDC", "SDIO"} OBVIOUS
<1>5. o.op = "close" => o.var \in {"hFifo", "hSdio", "hSdc", "hDma"} /\ o.clear = TRUE OBVIOUS
<1> QED BY <1>1, <1>2, <1>3, <1>4, <1>5

LEMMA OthersHave ==
  /\ \A o \in WifiOps :
       /\ o.op \in {"dormant", "wifiOn", "askList", "receiveList", "open", "busInit", "wlanUp",
                    "join", "taskCreate"}
       /\ o.op = "taskCreate" => o.id \in {"TCPIP_THREAD", "WWD"}
       /\ o.op = "open" => o.var = "hSdio"
  /\ \A o \in WwdOps :
       /\ o.op \in {"dormant", "poll", "taskDelete"}
       /\ o.op = "taskDelete" => o.id = "WWD" /\ o.mode = "ASYNC_MODE"
  /\ \A o \in HttpOps :
       /\ o.op \in {"dormant", "taskDelete", "open", "close", "setRunning"}
       /\ o.op = "taskDelete" => o.id = "HTTP" /\ o.mode = "ASYNC_MODE"
       /\ o.op \in {"open", "close"} => o.var = "hFifo"
  /\ \A o \in PlayerOps :
       /\ o.op \in {"dormant", "play", "decStart", "httpClose", "taskCreate", "taskDelete",
                    "open", "close", "setRunning"}
       /\ o.op = "taskCreate" => o.id \in {"AUDIOCONTROL", "STREAMCONTROL", "HTTP"}
       /\ o.op = "taskDelete" => o.id = "HTTP" /\ o.mode = "ASYNC_MODE"
       /\ o.op \in {"open", "close"} => o.var \in {"PAudio", "hFifo"}
  /\ \A o \in SchedOps :
       /\ o.op \in {"hang", "open", "close"}
       /\ o.op \in {"open", "close"} =>
            o.var \in {"hFifoA", "hFileA", "hAudioA", "hBcoreA", "hFifoS"}
<1>1. ASSUME NEW o \in WifiOps
      PROVE  /\ o.op \in {"dormant", "wifiOn", "askList", "receiveList", "open", "busInit",
                          "wlanUp", "join", "taskCreate"}
             /\ o.op = "taskCreate" => o.id \in {"TCPIP_THREAD", "WWD"}
             /\ o.op = "open" => o.var = "hSdio"
  BY DEF WifiOps
<1>5. ASSUME NEW o \in WwdOps
      PROVE  /\ o.op \in {"dormant", "poll", "taskDelete"}
             /\ o.op = "taskDelete" => o.id = "WWD" /\ o.mode = "ASYNC_MODE"
  BY DEF WwdOps
<1>2. ASSUME NEW o \in HttpOps
      PROVE  /\ o.op \in {"dormant", "taskDelete", "open", "close", "setRunning"}
             /\ o.op = "taskDelete" => o.id = "HTTP" /\ o.mode = "ASYNC_MODE"
             /\ o.op \in {"open", "close"} => o.var = "hFifo"
  BY DEF HttpOps
<1>3. ASSUME NEW o \in PlayerOps
      PROVE  /\ o.op \in {"dormant", "play", "decStart", "httpClose", "taskCreate",
                          "taskDelete", "open", "close", "setRunning"}
             /\ o.op = "taskCreate" => o.id \in {"AUDIOCONTROL", "STREAMCONTROL", "HTTP"}
             /\ o.op = "taskDelete" => o.id = "HTTP" /\ o.mode = "ASYNC_MODE"
             /\ o.op \in {"open", "close"} => o.var \in {"PAudio", "hFifo"}
  BY DEF PlayerOps
<1>4. ASSUME NEW o \in SchedOps
      PROVE  /\ o.op \in {"hang", "open", "close"}
             /\ o.op \in {"open", "close"} =>
                  o.var \in {"hFifoA", "hFileA", "hAudioA", "hBcoreA", "hFifoS"}
  BY DEF SchedOps
<1> QED BY <1>1, <1>2, <1>3, <1>4, <1>5

----------------------------------------------------------------------------
(* The programs are scripts. *)

LEMMA DevicePrograms ==
  /\ DeviceTask \in Seq(DeviceOps) /\ Script("device", DeviceTask) /\ DeviceTask # <<>>
  /\ Head(DeviceTask) = Create("DMA")
  /\ SdioFifoList \in Seq(DeviceOps) /\ SdioFifoList # <<>> /\ Chain("device", SdioFifoList)
  /\ Head(SdioFifoList) = Open("hDma", "err")
  /\ FollowDevice(SdioFifoList[Len(SdioFifoList)]) = Only("listen")
<1> DEFINE a1 == Create("DMA")  a2 == Create("FILE")  a3 == Create("AUDIO")  a4 == Create("BCORE")
           a5 == TaskCreate("BCORE")  a6 == TaskCreate("SHELL")  a7 == Only("listen")
           c1 == Open("hDma", "err")  c2 == Create("SDC")  c3 == Open("hSdc", "err")
           c4 == Create("SDIO")  c5 == Open("hFileList", "err")  c6 == Close("hFileList", FALSE)
           c7 == Create("FIFO")  c8 == Answer("RK_SUCCESS")
<1>1. /\ a1 \in DeviceOps /\ a2 \in DeviceOps /\ a3 \in DeviceOps /\ a4 \in DeviceOps
      /\ a5 \in DeviceOps /\ a6 \in DeviceOps /\ a7 \in DeviceOps
  BY DEF DeviceOps, Create, TaskCreate, Only
<1>2. /\ c1 \in DeviceOps /\ c2 \in DeviceOps /\ c3 \in DeviceOps /\ c4 \in DeviceOps
      /\ c5 \in DeviceOps /\ c6 \in DeviceOps /\ c7 \in DeviceOps /\ c8 \in DeviceOps
  BY DEF DeviceOps, Create, Open, Close, Answer
<1>3. /\ FollowDevice(a1) = a2 /\ FollowDevice(a2) = a3 /\ FollowDevice(a3) = a4
      /\ FollowDevice(a4) = a5
  BY DEF FollowDevice, AfterCreate, Create
<1>4. /\ FollowDevice(a5) = a6 /\ FollowDevice(a6) = a7 /\ FollowDevice(a7) = Nothing
  BY DEF FollowDevice, TaskCreate, Only
<1>5. /\ FollowDevice(c1) = c2 /\ FollowDevice(c3) = c4 /\ FollowDevice(c5) = c6
      /\ FollowDevice(c6) = c7 /\ FollowDevice(c8) = a7
  BY DEF FollowDevice, Open, Close, Answer
<1>6. FollowDevice(c2) = c3 /\ FollowDevice(c4) = c5 /\ FollowDevice(c7) = c8
  BY DEF FollowDevice, AfterCreate, Create
<1> DEFINE q == << a1, a2, a3, a4, a5, a6, a7 >>  r == << c1, c2, c3, c4, c5, c6, c7, c8 >>
<1> HIDE DEF a1, a2, a3, a4, a5, a6, a7, c1, c2, c3, c4, c5, c6, c7, c8
<1>7. q \in Seq(DeviceOps) /\ q # <<>> /\ Head(q) = a1 /\ Len(q) = 7 /\ q[7] = a7 BY <1>1
<1>8. r \in Seq(DeviceOps) /\ r # <<>> /\ Head(r) = c1 /\ Len(r) = 8 /\ r[8] = c8 BY <1>2
<1>9. \A o : Follow("device", o) = FollowDevice(o) BY DEF Follow
<1>10. Chain("device", q)
  <2>1. SUFFICES ASSUME NEW i \in 1 .. 6 PROVE q[i + 1] = FollowDevice(q[i])
    BY <1>7, <1>9 DEF Chain
  <2> QED BY <1>3, <1>4
<1>11. Chain("device", r)
  <2>1. SUFFICES ASSUME NEW i \in 1 .. 7 PROVE r[i + 1] = FollowDevice(r[i])
    BY <1>8, <1>9 DEF Chain
  <2> QED BY <1>5, <1>6
<1>12. Script("device", q)
  <2> HIDE DEF q
  <2> QED BY <1>4, <1>7, <1>9, <1>10, WholeScript
<1>13. DeviceTask = q /\ SdioFifoList = r
  BY DEF DeviceTask, SdioFifoList, a1, a2, a3, a4, a5, a6, a7, c1, c2, c3, c4, c5, c6, c7, c8
<1> HIDE DEF q, r
<1>14. /\ DeviceTask \in Seq(DeviceOps) /\ Script("device", DeviceTask) /\ DeviceTask # <<>>
       /\ Head(DeviceTask) = a1
  BY <1>7, <1>12, <1>13
<1>15. /\ SdioFifoList \in Seq(DeviceOps) /\ SdioFifoList # <<>> /\ Chain("device", SdioFifoList)
       /\ Head(SdioFifoList) = c1 /\ FollowDevice(SdioFifoList[Len(SdioFifoList)]) = a7
  BY <1>5, <1>8, <1>11, <1>13
<1> QED BY <1>14, <1>15 DEF a1, a7, c1

LEMMA ShellPrograms ==
  LET start == << TaskCreate("WIFI_APPLICATION"), Only("awaitLink") >>
      play == << TaskCreate("DLNA") >>
      stop == << TaskDelete("AUDIOCONTROL", "SYNC_MODE"), TaskDelete("STREAMCONTROL", "SYNC_MODE") >>
  IN
  /\ WifiDel \in Seq(ShellOps) /\ Script("shell", WifiDel)
  /\ WifiDel # <<>> /\ Head(WifiDel) = Only("httpClose")
  /\ CreateDeviceList \in Seq(ShellOps) /\ Script("shell", CreateDeviceList)
  /\ CreateDeviceList # <<>> /\ Head(CreateDeviceList) = Only("askList")
  /\ start \in Seq(ShellOps) /\ Script("shell", start)
  /\ start # <<>> /\ Head(start) = TaskCreate("WIFI_APPLICATION")
  /\ play \in Seq(ShellOps) /\ Script("shell", play)
  /\ play # <<>> /\ Head(play) = TaskCreate("DLNA")
  /\ stop \in Seq(ShellOps) /\ Script("shell", stop)
  /\ stop # <<>> /\ Head(stop) = TaskDelete("AUDIOCONTROL", "SYNC_MODE")
  /\ << TaskDelete("TCPIP_THREAD", "SYNC_MODE") >> \in Seq(ShellOps)
  /\ BusDeinit \in Seq(ShellOps) /\ Chain("shell", BusDeinit)
  /\ BusDeinit # <<>> /\ Head(BusDeinit) = Close("hSdio", TRUE)
  /\ FollowShell(BusDeinit[Len(BusDeinit)]) = TaskDelete("TCPIP_THREAD", "SYNC_MODE")
<1> DEFINE a1 == Only("httpClose")  a2 == Only("deinit")
           a3 == TaskDelete("WIFI_APPLICATION", "SYNC_MODE")  a4 == Only("closeOver")
           b1 == Close("hSdio", TRUE)  b2 == Delete("SDIO")  b3 == Close("hSdc", TRUE)
           b4 == Delete("SDC")  b5 == Close("hDma", TRUE)  b6 == Answer("RK_SUCCESS")
           b7 == TaskDelete("TCPIP_THREAD", "SYNC_MODE")
           c1 == Only("askList")  c2 == Only("receiveList")
           d1 == TaskCreate("WIFI_APPLICATION")  d2 == Only("awaitLink")
           e1 == TaskCreate("DLNA")
           f1 == TaskDelete("AUDIOCONTROL", "SYNC_MODE")
           f2 == TaskDelete("STREAMCONTROL", "SYNC_MODE")
<1>0. \A o : Follow("shell", o) = FollowShell(o) BY DEF Follow
<1>1. a1 \in ShellOps /\ a2 \in ShellOps /\ a3 \in ShellOps /\ a4 \in ShellOps
  BY DEF ShellOps, Only, TaskDelete
<1>14. /\ b1 \in ShellOps /\ b2 \in ShellOps /\ b3 \in ShellOps /\ b4 \in ShellOps
       /\ b5 \in ShellOps /\ b6 \in ShellOps /\ b7 \in ShellOps
  BY DEF ShellOps, Close, Delete, Answer, TaskDelete
<1>2. /\ c1 \in ShellOps /\ c2 \in ShellOps /\ d1 \in ShellOps /\ d2 \in ShellOps
      /\ e1 \in ShellOps /\ f1 \in ShellOps /\ f2 \in ShellOps
  BY DEF ShellOps, Only, TaskCreate, TaskDelete
<1>3. /\ FollowShell(a1) = a2 /\ FollowShell(a2) = a3 /\ FollowShell(a4) = Nothing
      /\ FollowShell(c1) = c2 /\ FollowShell(c2) = Nothing /\ FollowShell(d2) = Nothing
  BY DEF FollowShell, Only
<1>4. FollowShell(b1) = b2 /\ FollowShell(b3) = b4 /\ FollowShell(b5) = b6
  BY DEF FollowShell, Close
<1>5. FollowShell(b2) = b3 /\ FollowShell(b4) = b5
  BY DEF FollowShell, Delete
<1>15. FollowShell(b6) = b7 BY DEF FollowShell, Answer
<1>6. FollowShell(d1) = d2 /\ FollowShell(e1) = Nothing
  BY DEF FollowShell, TaskCreate
<1>7. FollowShell(a3) = a4 /\ FollowShell(f1) = f2 /\ FollowShell(f2) = Nothing
  BY DEF FollowShell, TaskDelete
<1> DEFINE qa == << a1, a2, a3, a4 >>  qb == << b1, b2, b3, b4, b5, b6 >>  qc == << c1, c2 >>  qd == << d1, d2 >>
           qe == << e1 >>  qf == << f1, f2 >>
<1>8. /\ WifiDel = qa /\ BusDeinit = qb /\ CreateDeviceList = qc
      /\ qd = << TaskCreate("WIFI_APPLICATION"), Only("awaitLink") >>
      /\ qe = << TaskCreate("DLNA") >>
      /\ qf = << TaskDelete("AUDIOCONTROL", "SYNC_MODE"), TaskDelete("STREAMCONTROL", "SYNC_MODE") >>
  BY DEF WifiDel, BusDeinit, CreateDeviceList
<1> HIDE DEF a1, a2, a3, a4, b1, b2, b3, b4, b5, b6, b7, c1, c2, d1, d2, e1, f1, f2
<1>9. /\ qa \in Seq(ShellOps) /\ Script("shell", qa) /\ qa # <<>> /\ Head(qa) = a1
  <2>1. qa \in Seq(ShellOps) /\ qa # <<>> /\ Head(qa) = a1 /\ Len(qa) = 4 /\ qa[4] = a4 BY <1>1
  <2>2. Chain("shell", qa)
    <3>1. SUFFICES ASSUME NEW i \in 1 .. 3 PROVE qa[i + 1] = FollowShell(qa[i])
      BY <1>0, <2>1 DEF Chain
    <3> QED BY <1>3, <1>7
  <2> HIDE DEF qa
  <2> QED BY <1>0, <1>3, <2>1, <2>2, WholeScript
<1>10. /\ qc \in Seq(ShellOps) /\ Script("shell", qc) /\ qc # <<>> /\ Head(qc) = c1
  <2>1. qc \in Seq(ShellOps) /\ qc # <<>> /\ Head(qc) = c1 /\ Len(qc) = 2 /\ qc[2] = c2 BY <1>2
  <2>2. Chain("shell", qc)
    <3>1. SUFFICES ASSUME NEW i \in 1 .. 1 PROVE qc[i + 1] = FollowShell(qc[i])
      BY <1>0, <2>1 DEF Chain
    <3> QED BY <1>3
  <2> HIDE DEF qc
  <2> QED BY <1>0, <1>3, <2>1, <2>2, WholeScript
<1>11. /\ qd \in Seq(ShellOps) /\ Script("shell", qd) /\ qd # <<>> /\ Head(qd) = d1
  <2>1. qd \in Seq(ShellOps) /\ qd # <<>> /\ Head(qd) = d1 /\ Len(qd) = 2 /\ qd[2] = d2 BY <1>2
  <2>2. Chain("shell", qd)
    <3>1. SUFFICES ASSUME NEW i \in 1 .. 1 PROVE qd[i + 1] = FollowShell(qd[i])
      BY <1>0, <2>1 DEF Chain
    <3> QED BY <1>6
  <2> HIDE DEF qd
  <2> QED BY <1>0, <1>3, <2>1, <2>2, WholeScript
<1>12. /\ qe \in Seq(ShellOps) /\ Script("shell", qe) /\ qe # <<>> /\ Head(qe) = e1
  <2>1. qe \in Seq(ShellOps) /\ qe # <<>> /\ Head(qe) = e1 /\ Len(qe) = 1 /\ qe[1] = e1 BY <1>2
  <2>2. Chain("shell", qe) BY <2>1 DEF Chain
  <2> HIDE DEF qe
  <2> QED BY <1>0, <1>6, <2>1, <2>2, WholeScript
<1>13. /\ qf \in Seq(ShellOps) /\ Script("shell", qf) /\ qf # <<>> /\ Head(qf) = f1
  <2>1. qf \in Seq(ShellOps) /\ qf # <<>> /\ Head(qf) = f1 /\ Len(qf) = 2 /\ qf[2] = f2 BY <1>2
  <2>2. Chain("shell", qf)
    <3>1. SUFFICES ASSUME NEW i \in 1 .. 1 PROVE qf[i + 1] = FollowShell(qf[i])
      BY <1>0, <2>1 DEF Chain
    <3> QED BY <1>7
  <2> HIDE DEF qf
  <2> QED BY <1>0, <1>7, <2>1, <2>2, WholeScript
<1>16. /\ qb \in Seq(ShellOps) /\ Chain("shell", qb) /\ qb # <<>> /\ Head(qb) = b1
       /\ FollowShell(qb[Len(qb)]) = b7
  <2>1. qb \in Seq(ShellOps) /\ qb # <<>> /\ Head(qb) = b1 /\ Len(qb) = 6 /\ qb[6] = b6 BY <1>14
  <2>2. Chain("shell", qb)
    <3>1. SUFFICES ASSUME NEW i \in 1 .. 5 PROVE qb[i + 1] = FollowShell(qb[i])
      BY <1>0, <2>1 DEF Chain
    <3> QED BY <1>4, <1>5
  <2> QED BY <1>15, <2>1, <2>2
<1>17. << b7 >> \in Seq(ShellOps) BY <1>14
<1> HIDE DEF qa, qb, qc, qd, qe, qf
<1> QED
  BY <1>8, <1>9, <1>10, <1>11, <1>12, <1>13, <1>16, <1>17 DEF a1, b1, b7, c1, d1, e1, f1

LEMMA WifiPrograms ==
  /\ WifiApplication \in Seq(WifiOps) /\ Script("wifi", WifiApplication)
  /\ WifiApplication # <<>> /\ Head(WifiApplication) = TaskCreate("TCPIP_THREAD")
  /\ BringUp \in Seq(WifiOps) /\ Chain("wifi", BringUp)
  /\ BringUp # <<>> /\ Head(BringUp) = Only("askList")
  /\ FollowWifi(BringUp[Len(BringUp)]) = Only("join")
<1> DEFINE c1 == Only("askList")  c2 == Only("receiveList")  c3 == Open("hSdio", "again")
           c4 == Only("busInit")  c5 == TaskCreate("WWD")  c6 == Only("wlanUp")
           a1 == TaskCreate("TCPIP_THREAD")  a2 == Only("wifiOn")  a3 == Only("join")
<1>1. /\ c1 \in WifiOps /\ c2 \in WifiOps /\ c3 \in WifiOps /\ c4 \in WifiOps
      /\ c5 \in WifiOps /\ c6 \in WifiOps
  BY DEF WifiOps, Only, Open, TaskCreate
<1>2. a1 \in WifiOps /\ a2 \in WifiOps /\ a3 \in WifiOps BY DEF WifiOps, Only, TaskCreate
<1>3. /\ FollowWifi(c1) = c2 /\ FollowWifi(c2) = c3 /\ FollowWifi(c4) = c5
      /\ FollowWifi(c6) = a3 /\ FollowWifi(a2) = a3 /\ FollowWifi(a3) = Nothing
  BY DEF FollowWifi, Only
<1>4. FollowWifi(c3) = c4 BY DEF FollowWifi, Open
<1>5. FollowWifi(c5) = c6 /\ FollowWifi(a1) = a2 BY DEF FollowWifi, TaskCreate
<1>6. \A o : Follow("wifi", o) = FollowWifi(o) BY DEF Follow
<1> DEFINE q == << a1, a2, a3 >>  b == << c1, c2, c3, c4, c5, c6 >>
<1>7. BringUp = b
  <2>1. << c1, c2 >> \o << c3, c4, c5, c6 >> = b
    <3> HIDE DEF c1, c2, c3, c4, c5, c6
    <3> DEFINE u == << c1, c2 >> \o << c3, c4, c5, c6 >>
    <3>1. /\ << c1, c2 >> \in Seq(WifiOps) /\ << c3, c4, c5, c6 >> \in Seq(WifiOps)
          /\ b \in Seq(WifiOps) /\ Len(b) = 6
      BY <1>1
    <3>2. /\ u \in Seq(WifiOps) /\ Len(u) = 6 /\ u[1] = c1 /\ u[2] = c2
          /\ u[3] = c3 /\ u[4] = c4 /\ u[5] = c5 /\ u[6] = c6
      BY <3>1, ConcatProperties
    <3>3. \A i \in 1 .. 6 : u[i] = b[i] BY <3>2
    <3> HIDE DEF u, b
    <3>4. u = b BY <3>1, <3>2, <3>3, SeqEqual
    <3> QED BY <3>4 DEF u
  <2> QED BY <2>1 DEF BringUp, CreateDeviceList
<1>8. WifiApplication = q BY DEF WifiApplication
<1> HIDE DEF c1, c2, c3, c4, c5, c6, a1, a2, a3
<1>9. q \in Seq(WifiOps) /\ q # <<>> /\ Head(q) = a1 /\ Len(q) = 3 /\ q[3] = a3 BY <1>2
<1>10. Chain("wifi", q)
  <2>1. SUFFICES ASSUME NEW i \in 1 .. 2 PROVE q[i + 1] = FollowWifi(q[i])
    BY <1>6, <1>9 DEF Chain
  <2> QED BY <1>3, <1>5
<1>11. b \in Seq(WifiOps) /\ b # <<>> /\ Head(b) = c1 /\ Len(b) = 6 /\ b[6] = c6 BY <1>1
<1>12. Chain("wifi", b)
  <2>1. SUFFICES ASSUME NEW i \in 1 .. 5 PROVE b[i + 1] = FollowWifi(b[i])
    BY <1>6, <1>11 DEF Chain
  <2> QED BY <1>3, <1>4, <1>5
<1> HIDE DEF q, b
<1>13. Script("wifi", q) BY <1>3, <1>6, <1>9, <1>10, WholeScript
<1> QED BY <1>3, <1>7, <1>8, <1>9, <1>11, <1>12, <1>13 DEF a1, a3, c1

LEMMA DormantPrograms ==
  /\ Dormant \in Seq(WifiOps) /\ Dormant \in Seq(ShellOps) /\ Dormant \in Seq(HttpOps)
  /\ Dormant \in Seq(PlayerOps) /\ Dormant \in Seq(WwdOps)
  /\ Dormant # <<>> /\ Head(Dormant).op = "dormant"
  /\ Script("wifi", Dormant) /\ Script("shell", Dormant)
<1> DEFINE d == [op |-> "dormant"]  r == << d >>
<1>1. /\ d \in WifiOps /\ d \in ShellOps /\ d \in HttpOps /\ d \in PlayerOps /\ d \in WwdOps
      /\ d.op = "dormant"
  BY DEF WifiOps, ShellOps, HttpOps, PlayerOps, WwdOps
<1>2. Follow("wifi", d) = Nothing /\ Follow("shell", d) = Nothing
  BY DEF Follow, FollowWifi, FollowShell
<1>3. Dormant = r BY DEF Dormant
<1> HIDE DEF d
<1>4. /\ r \in Seq(WifiOps) /\ r \in Seq(ShellOps) /\ r \in Seq(HttpOps) /\ r \in Seq(PlayerOps)
      /\ r \in Seq(WwdOps) /\ r # <<>> /\ Head(r) = d /\ Len(r) = 1 /\ r[1] = d
  BY <1>1
<1>5. \A p : Chain(p, r) BY <1>4 DEF Chain
<1> HIDE DEF r
<1>6. Script("wifi", r) BY <1>2, <1>4, <1>5, WholeScript
<1>7. Script("shell", r) BY <1>2, <1>4, <1>5, WholeScript
<1> QED BY <1>1, <1>3, <1>4, <1>6, <1>7

LEMMA OtherPrograms ==
  /\ HTTPTask \in Seq(HttpOps) /\ HTTPQuit \in Seq(HttpOps)
  /\ Player \in Seq(PlayerOps) /\ WWDTask \in Seq(WwdOps)
  /\ << TaskCreate("HTTP"), SetRunning(TRUE), Only("decStart"), Only("httpClose") >>
       \in Seq(PlayerOps)
  /\ \A id : TaskInitFun(id) \in Seq(SchedOps) /\ TaskDeInitFun(id) \in Seq(SchedOps)
  /\ << Only("hang") >> \in Seq(SchedOps)
<1> DEFINE a1 == Open("hFifo", "quit")  a2 == SetRunning(FALSE)  a3 == Close("hFifo", FALSE)
           a4 == TaskDelete("HTTP", "ASYNC_MODE")
<1>1. a1 \in HttpOps /\ a2 \in HttpOps /\ a3 \in HttpOps /\ a4 \in HttpOps
  BY DEF HttpOps, Open, SetRunning, Close, TaskDelete
<1> HIDE DEF a1, a2, a3, a4
<1>2. << a1, a2, a3, a4 >> \in Seq(HttpOps) /\ << a2, a4 >> \in Seq(HttpOps) BY <1>1
<1>3. HTTPTask \in Seq(HttpOps) /\ HTTPQuit \in Seq(HttpOps)
  BY <1>2 DEF HTTPTask, HTTPQuit, a1, a2, a3, a4
<1> DEFINE b1 == TaskCreate("AUDIOCONTROL")  b2 == TaskCreate("STREAMCONTROL")
           b3 == Open("PAudio", "on")  b4 == Only("play")  b5 == Only("httpClose")
           b6 == TaskCreate("HTTP")  b7 == SetRunning(TRUE)  b8 == Only("decStart")
<1>4. /\ b1 \in PlayerOps /\ b2 \in PlayerOps /\ b3 \in PlayerOps /\ b4 \in PlayerOps
      /\ b5 \in PlayerOps /\ b6 \in PlayerOps /\ b7 \in PlayerOps /\ b8 \in PlayerOps
  BY DEF PlayerOps, Open, SetRunning, TaskCreate, Only
<1> HIDE DEF b1, b2, b3, b4, b5, b6, b7, b8
<1>5. << b1, b2, b3, b4 >> \in Seq(PlayerOps) /\ << b6, b7, b8, b5 >> \in Seq(PlayerOps) BY <1>4
<1>6. /\ Player \in Seq(PlayerOps)
      /\ << TaskCreate("HTTP"), SetRunning(TRUE), Only("decStart"), Only("httpClose") >>
           \in Seq(PlayerOps)
  BY <1>5 DEF Player, b1, b2, b3, b4, b5, b6, b7, b8
<1>13. WWDTask \in Seq(WwdOps)
  <2>1. Only("poll") \in WwdOps /\ TaskDelete("WWD", "ASYNC_MODE") \in WwdOps
    BY DEF WwdOps, Only, TaskDelete
  <2> QED BY <2>1 DEF WWDTask
<1> DEFINE o1 == Open("hFifoA", "hang")  o2 == Open("hFileA", "hang")
           o3 == Open("hAudioA", "hang")  o4 == Open("hBcoreA", "hang")
           o5 == Close("hFileA", FALSE)  c1 == Close("hAudioA", TRUE)  c2 == Close("hFileA", TRUE)
           c3 == Close("hBcoreA", TRUE)  c4 == Close("hFifoA", TRUE)  c5 == Close("hFifoS", TRUE)
           h == Only("hang")
<1>7. /\ o1 \in SchedOps /\ o2 \in SchedOps /\ o3 \in SchedOps /\ o4 \in SchedOps
      /\ o5 \in SchedOps /\ h \in SchedOps
  BY DEF SchedOps, Open, Close, Only
<1>8. /\ c1 \in SchedOps /\ c2 \in SchedOps /\ c3 \in SchedOps /\ c4 \in SchedOps
      /\ c5 \in SchedOps
  BY DEF SchedOps, Close
<1> HIDE DEF o1, o2, o3, o4, o5, c1, c2, c3, c4, c5, h
<1>9. /\ << o1, o2, o3, o4, o5 >> \in Seq(SchedOps) /\ << c1, c2, c3, c4 >> \in Seq(SchedOps)
      /\ << c5 >> \in Seq(SchedOps) /\ << h >> \in Seq(SchedOps)
  BY <1>7, <1>8
<1>10. \A id : TaskInitFun(id) \in Seq(SchedOps)
  BY <1>9, EmptySeq DEF TaskInitFun, o1, o2, o3, o4, o5
<1>11. \A id : TaskDeInitFun(id) \in Seq(SchedOps)
  BY <1>9, EmptySeq DEF TaskDeInitFun, c1, c2, c3, c4, c5
<1>12. << Only("hang") >> \in Seq(SchedOps) BY <1>9 DEF h
<1> QED BY <1>3, <1>6, <1>10, <1>11, <1>12, <1>13

----------------------------------------------------------------------------
(* The answer the device manager owes. *)

Answers1(t) == \E i \in DOMAIN t : t[i].op = "answer"

LEMMA AnswerJoin ==
  ASSUME NEW S, NEW s \in Seq(S), NEW t \in Seq(S)
  PROVE  Answers1(s \o t) <=> Answers1(s) \/ Answers1(t)
<1>1. /\ Len(s) \in Nat /\ Len(t) \in Nat /\ s \o t \in Seq(S) /\ Len(s \o t) = Len(s) + Len(t)
      /\ DOMAIN s = 1 .. Len(s) /\ DOMAIN t = 1 .. Len(t) /\ DOMAIN (s \o t) = 1 .. Len(s) + Len(t)
  BY ConcatProperties, LenProperties
<1>2. /\ \A i \in 1 .. Len(s) : (s \o t)[i] = s[i]
      /\ \A j \in 1 .. Len(t) : (s \o t)[Len(s) + j] = t[j]
  BY <1>1
<1>3. \A i \in 1 .. Len(s) : i \in 1 .. Len(s) + Len(t) BY <1>1
<1>4. \A j \in 1 .. Len(t) : Len(s) + j \in 1 .. Len(s) + Len(t) BY <1>1
<1>5. ASSUME NEW i \in 1 .. Len(s) + Len(t)
      PROVE  i \in 1 .. Len(s) \/ \E j \in 1 .. Len(t) : i = Len(s) + j
  <2>1. CASE i > Len(s)
    <3>1. i - Len(s) \in 1 .. Len(t) /\ i = Len(s) + (i - Len(s)) BY <1>1, <2>1
    <3> QED BY <3>1
  <2> QED BY <1>1, <2>1
<1>6. ASSUME NEW i \in 1 .. Len(s) + Len(t), (s \o t)[i].op = "answer"
      PROVE  Answers1(s) \/ Answers1(t)
  BY <1>1, <1>2, <1>5, <1>6 DEF Answers1
<1>7. ASSUME NEW i \in 1 .. Len(s), s[i].op = "answer" PROVE Answers1(s \o t)
  BY <1>1, <1>2, <1>3, <1>7 DEF Answers1
<1>8. ASSUME NEW j \in 1 .. Len(t), t[j].op = "answer" PROVE Answers1(s \o t)
  BY <1>1, <1>2, <1>4, <1>8 DEF Answers1
<1>9. Answers1(s \o t) => Answers1(s) \/ Answers1(t) BY <1>1, <1>6 DEF Answers1
<1>10. Answers1(s) => Answers1(s \o t) BY <1>1, <1>7 DEF Answers1
<1>11. Answers1(t) => Answers1(s \o t) BY <1>1, <1>8 DEF Answers1
<1> QED BY <1>9, <1>10, <1>11

LEMMA AnswerTail ==
  ASSUME NEW S, NEW t \in Seq(S), t # <<>>
  PROVE  Answers1(t) <=> Head(t).op = "answer" \/ Answers1(Tail(t))
<1>1. /\ Len(t) \in Nat /\ Len(t) > 0 /\ Head(t) = t[1] /\ Head(t) \in S
      /\ Tail(t) \in Seq(S) /\ Len(Tail(t)) = Len(t) - 1
      /\ DOMAIN t = 1 .. Len(t) /\ DOMAIN Tail(t) = 1 .. Len(t) - 1
  BY HeadTailProperties, LenProperties
<1>2. \A i \in 1 .. Len(t) - 1 : Tail(t)[i] = t[i + 1] /\ i + 1 \in 1 .. Len(t) BY <1>1
<1>3. ASSUME NEW i \in 1 .. Len(t) PROVE i = 1 \/ \E j \in 1 .. Len(t) - 1 : i = j + 1
  <2>1. CASE i > 1
    <3>1. i - 1 \in 1 .. Len(t) - 1 /\ i = (i - 1) + 1 BY <1>1, <2>1
    <3> QED BY <3>1
  <2> QED BY <1>1, <2>1
<1>4. 1 \in 1 .. Len(t) BY <1>1
<1>5. ASSUME NEW i \in 1 .. Len(t), t[i].op = "answer"
      PROVE  Head(t).op = "answer" \/ Answers1(Tail(t))
  <2>1. CASE i = 1 BY <1>1, <1>5, <2>1
  <2>2. ASSUME NEW j \in 1 .. Len(t) - 1, i = j + 1 PROVE Answers1(Tail(t))
    <3>1. j \in DOMAIN Tail(t) /\ Tail(t)[j] = t[i] BY <1>1, <1>2, <2>2
    <3> QED BY <1>5, <3>1 DEF Answers1
  <2> QED BY <1>3, <2>1, <2>2
<1>6. ASSUME NEW i \in 1 .. Len(t) - 1, Tail(t)[i].op = "answer" PROVE Answers1(t)
  BY <1>1, <1>2, <1>6 DEF Answers1
<1>7. Answers1(t) => Head(t).op = "answer" \/ Answers1(Tail(t)) BY <1>1, <1>5 DEF Answers1
<1>8. Answers1(Tail(t)) => Answers1(t) BY <1>1, <1>6 DEF Answers1
<1>9. Head(t).op = "answer" => Answers1(t) BY <1>1, <1>4 DEF Answers1
<1> QED BY <1>7, <1>8, <1>9

LEMMA ListingIs == Listing = Answers1(todo["device"])
BY DEF Listing, Answers1

(* Of a script, only what the device manager has to do matters for it.     *)
LEMMA OthersScripts ==
  ASSUME Scripts, TodoOK, Ordered', NEW p \in All \ {"device"}, NEW s,
         todo' = [todo EXCEPT ![p] = s]
  PROVE  Scripts'
<1>1. "device" \in All \ {p} BY Members
<1>2. todo'["device"] = todo["device"] /\ Doing("device")' = Doing("device")
  BY <1>1, OthersDoing
<1> QED BY <1>2 DEF Scripts, Listing

LEMMA DeviceDone ==
  ASSUME Scripts, TodoOK, todo["device"] # <<>>, Done("device")
  PROVE  Scripts'
<1> DEFINE t == todo["device"]
<1>0. "device" \in All /\ "device" \in Scripted /\ Ordered BY Members DEF Scripted, Scripts
<1>1. t \in Seq(DeviceOps) /\ Doing("device") = Head(t) /\ Head(t) \in DeviceOps
  BY <1>0, DoingIs, Members
<1>2. Ordered' /\ todo'["device"] = Tail(t) /\ Doing("device")' = FollowDevice(Head(t))
  BY <1>0, <1>1, DoneOrdered, OthersDoing DEF Follow
<1>3. Answers1(t) <=> Head(t).op = "answer" \/ Answers1(Tail(t)) BY <1>1, AnswerTail
<1>4. Answers1(t) <=> AtList(Head(t)) BY <1>1, ListingIs DEF Scripts
<1>5. Answers1(Tail(t)) <=> AtList(FollowDevice(Head(t)))
  <2>1. CASE Head(t).op # "answer" BY <1>1, <1>3, <1>4, <2>1, DeviceFollows
  <2>2. CASE Head(t).op = "answer"
    <3> DEFINE r == Tail(t)
    <3>1. r \in Seq(DeviceOps) /\ Script("device", r) /\ First1(r) = Only("listen")
      <4>1. Script("device", t) BY <1>0 DEF Ordered
      <4>2. /\ r \in Seq(DeviceOps) /\ Script("device", r)
            /\ First1(r) = Follow("device", Head(t))
        BY <1>1, <4>1, TailScript
      <4> QED BY <1>1, <2>2, <4>2, DeviceFollows DEF Follow
    <3>2. r # <<>> /\ Head(r) = Only("listen") /\ Head(r).op = "listen"
      BY <3>1 DEF First1, Nothing, Only
    <3> HIDE DEF r
    <3>3. First1(Tail(r)) = Nothing /\ Tail(r) \in Seq(DeviceOps) /\ Head(r) \in DeviceOps
      <4>1. /\ Head(r) \in DeviceOps /\ Tail(r) \in Seq(DeviceOps)
            /\ First1(Tail(r)) = Follow("device", Head(r))
        BY <3>1, <3>2, TailScript
      <4>2. FollowDevice(Head(r)) = Nothing BY <3>2, <4>1, DeviceFollows
      <4> QED BY <4>1, <4>2 DEF Follow
    <3>4. Tail(r) = <<>>
      <4>1. Tail(r) # <<>> => Head(Tail(r)) \in DeviceOps BY <3>3, TailScript
      <4> QED BY <3>3, <4>1, Members, <1>0 DEF First1
    <3>5. ~Answers1(Tail(r)) BY <3>4, EmptySeq DEF Answers1
    <3>6. ~Answers1(r) BY <3>1, <3>2, <3>5, AnswerTail
    <3> QED BY <1>1, <2>2, <3>6, DeviceFollows DEF r
  <2> QED BY <2>1, <2>2
<1>6. Listing' <=> Answers1(Tail(t)) BY <1>2 DEF Listing, Answers1
<1> QED BY <1>2, <1>5, <1>6 DEF Scripts

LEMMA DeviceThen ==
  ASSUME Scripts, TodoOK, todo["device"] # <<>>, NEW s \in Seq(DeviceOps), s # <<>>,
         Then("device", s), Chain("device", s),
         FollowDevice(s[Len(s)]) = FollowDevice(Doing("device")),
         ~Answers1(s), Doing("device").op # "answer",
         AtList(Head(s)) <=> AtList(Doing("device"))
  PROVE  Scripts'
<1> DEFINE t == todo["device"]
<1>0. "device" \in All /\ "device" \in Scripted /\ Ordered BY Members DEF Scripted, Scripts
<1>1. t \in Seq(DeviceOps) /\ Doing("device") = Head(t) /\ Head(t) \in DeviceOps
      /\ Tail(t) \in Seq(DeviceOps)
  BY <1>0, DoingIs, Members, TailScript
<1>2. Ordered' /\ todo'["device"] = s \o Tail(t) /\ Doing("device")' = Head(s)
  <2>1. Follow("device", s[Len(s)]) = Follow("device", Doing("device")) BY DEF Follow
  <2>2. s \in Seq(OpsOf("device")) BY Members
  <2>3. /\ Ordered' /\ Doing("device")' = Head(s)
        /\ todo' = [todo EXCEPT !["device"] = s \o Tail(todo["device"])]
    BY <1>0, <2>1, <2>2, ThenOrdered
  <2>4. todo'["device"] = s \o Tail(todo["device"]) BY <1>0, <2>3, OthersDoing
  <2> QED BY <2>3, <2>4
<1>3. Answers1(s \o Tail(t)) <=> Answers1(t) BY <1>1, AnswerTail, AnswerJoin
<1>4. Answers1(t) <=> AtList(Head(t)) BY <1>1, ListingIs DEF Scripts
<1>6. Listing' <=> Answers1(s \o Tail(t)) BY <1>2 DEF Listing, Answers1
<1> QED BY <1>1, <1>2, <1>3, <1>4, <1>6 DEF Scripts

LEMMA ErrScripts ==
  ASSUME Scripts, TodoOK, NEW p \in {"device", "shell"}, Err(p)
  PROVE  Scripts' /\ (p = "device" => AtList(Doing("device")))
<1>0. /\ Ordered' /\ Doing(p)' = Answer("RK_ERROR")
      /\ \A q \in All \ {p} : todo'[q] = todo[q] /\ Doing(q)' = Doing(q)
      /\ \E i \in DOMAIN todo[p] : todo[p][i].op = "answer"
      /\ \E i \in DOMAIN todo'[p] : todo'[p][i].op = "answer"
  BY ErrOrdered DEF Scripts
<1>1. CASE p = "shell"
  <2>1. todo'["device"] = todo["device"] /\ Doing("device")' = Doing("device")
    BY <1>0, <1>1, Members
  <2> QED BY <1>0, <1>1, <2>1 DEF Scripts, Listing
<1>2. CASE p = "device"
  <2>1. AtList(Answer("RK_ERROR")) BY DEF AtList, Answer
  <2>2. Listing /\ Listing' BY <1>0, <1>2 DEF Listing
  <2> QED BY <1>0, <1>2, <2>1, <2>2 DEF Scripts
<1> QED BY <1>1, <1>2

----------------------------------------------------------------------------
(* Every step leaves every task in its script. *)

LEMMA DoneScripts ==
  ASSUME Scripts, TodoOK, NEW p \in All, todo[p] # <<>>, Done(p)
  PROVE  Scripts'
<1>0. Ordered BY DEF Scripts
<1>1. CASE p = "device" BY <1>1, DeviceDone
<1>2. CASE p # "device"
  <2>1. Ordered' /\ todo' = [todo EXCEPT ![p] = Tail(todo[p])] BY <1>0, DoneOrdered
  <2> QED BY <1>2, <2>1, OthersScripts
<1> QED BY <1>1, <1>2

LEMMA NewScripts ==
  ASSUME Scripts, TodoOK, NEW p \in All \ {"device"}, NEW s \in Seq(OpsOf(p)),
         p \in Scripted => Script(p, s), todo' = [todo EXCEPT ![p] = s]
  PROVE  Scripts'
<1>1. Ordered' BY NewOrdered DEF Scripts
<1> QED BY <1>1, OthersScripts

LEMMA ThenScripts ==
  ASSUME Scripts, TodoOK, NEW p \in All \ {"device"}, todo[p] # <<>>, NEW s \in Seq(OpsOf(p)),
         s # <<>>, Then(p, s),
         p \in Scripted => Chain(p, s) /\ Follow(p, s[Len(s)]) = Follow(p, Doing(p))
  PROVE  Scripts' /\ Doing(p)' = Head(s)
<1>1. /\ Ordered' /\ todo' = [todo EXCEPT ![p] = s \o Tail(todo[p])]
      /\ Doing(p)' = Head(s)
  BY ThenOrdered DEF Scripts
<1> QED BY <1>1, OthersScripts

(* The device manager creates a device.                                    *)
LEMMA CreateScripts ==
  ASSUME PfInv, Scripts, NEW p \in Procs, CallCreate(p)
  PROVE  /\ p = "device" /\ Scripts'
         /\ LET d == Now(p).dev IN
            /\ Doing(p).op = "create" /\ Doing(p).dev = d
            /\ \/ CreateRefused(d) /\ Doing(p)' = Answer("RK_ERROR")
               \/ CreateBegin(p, d) /\ d # "SDIO" /\ Doing(p)' = Created(d, TRUE)
               \/ CreateBegin(p, d) /\ d = "SDIO" /\ Doing(p)' = TaskCreate("SDIO_IRQ_TASK")
               \/ CreateBegin(p, d) /\ d = "SDIO" /\ Doing(p)' = Created(d, FALSE)
         /\ \A q \in All \ {p} : Doing(q)' = Doing(q)
<1> DEFINE o == Doing(p)  d == Now(p).dev
<1>0. Ordered /\ TodoOK /\ p \in All BY DEF Scripts, PfInv, All
<1>1. /\ todo[p] # <<>> /\ Now(p) = o /\ o \in OpsOf(p) /\ o.op = "create"
  BY <1>0, AtDoing DEF CallCreate
<1>2. p = "device"
  <2>1. p \in {"device", "shell", "wifi", "wwd", "player", "http"} BY PlatformAssumption
  <2> QED BY <1>1, <2>1, Members, ShellHas, OthersHave
<1>3. o \in DeviceOps /\ o.dev = d
      /\ d \in {"DMA", "FILE", "AUDIO", "BCORE", "SDC", "SDIO", "FIFO"}
  BY <1>1, <1>2, Members, DeviceHas
<1>4. CASE CreateRefused(d) /\ Err(p)
  BY <1>0, <1>1, <1>2, <1>3, <1>4, ErrScripts, ErrOrdered
<1>5. ASSUME NEW s \in Seq(DeviceOps), s # <<>>, Then("device", s), Chain("device", s),
             s[Len(s)].op = "created", s[Len(s)].dev = d, ~Answers1(s),
             AtList(Head(s)) <=> AtList(o)
      PROVE  Scripts' /\ Doing(p)' = Head(s) /\ \A q \in All \ {p} : Doing(q)' = Doing(q)
  <2>1. FollowDevice(s[Len(s)]) = FollowDevice(o) BY <1>1, <1>3, <1>5 DEF FollowDevice
  <2>2. Scripts' BY <1>0, <1>1, <1>2, <1>5, <2>1, DeviceThen
  <2>3. Doing(p)' = Head(s) /\ \A q \in All \ {p} : Doing(q)' = Doing(q)
    BY <1>0, <1>1, <1>2, <1>5, <2>1, ThenOrdered, Members DEF Follow
  <2> QED BY <2>2, <2>3
<1> DEFINE c == Created(d, TRUE)  f == Created("SDIO", FALSE)  k == TaskCreate("SDIO_IRQ_TASK")
<1>6. /\ c \in DeviceOps /\ f \in DeviceOps /\ k \in DeviceOps
      /\ c.op = "created" /\ f.op = "created" /\ k.op = "taskCreate"
      /\ c.dev = d /\ f.dev = "SDIO" /\ k.id = "SDIO_IRQ_TASK"
      /\ d = "SDIO" => c = Created("SDIO", TRUE)
  BY <1>3 DEF DeviceOps, Created, TaskCreate
<1>7. /\ AtList(c) <=> AtList(o)
      /\ d = "SDIO" => (AtList(f) <=> AtList(o)) /\ (AtList(k) <=> AtList(o))
  BY <1>1, <1>3, <1>6 DEF AtList
<1>8. d = "SDIO" => Follow("device", k) = c
  BY <1>6, DeviceFollows DEF Follow
<1>9. CASE d # "SDIO" /\ CreateBegin(p, d) /\ Then(p, CreateBody(d) \o << Created(d, TRUE) >>)
  <2>1. Then("device", <<>> \o << c >>) BY <1>2, <1>9 DEF CreateBody
  <2> HIDE DEF c, d
  <2>2. << c >> \in Seq(DeviceOps) /\ << c >> # <<>> /\ Len(<< c >>) = 1 /\ << c >>[1] = c
        /\ Head(<< c >>) = c /\ <<>> \o << c >> = << c >> /\ DOMAIN << c >> = {1}
    BY <1>6, ConcatEmptySeq
  <2>3. Chain("device", << c >>) /\ ~Answers1(<< c >>) BY <1>6, <2>2 DEF Chain, Answers1
  <2>4. Scripts' /\ Doing(p)' = c /\ \A q \in All \ {p} : Doing(q)' = Doing(q)
    BY <1>5, <1>6, <1>7, <2>1, <2>2, <2>3
  <2> QED BY <1>1, <1>2, <1>3, <1>9, <2>4 DEF c
<1>10. CASE d = "SDIO" /\ CreateBegin(p, d) /\ Then(p, << Created(d, FALSE) >>)
  <2>1. Then("device", << f >>) BY <1>2, <1>10
  <2>0. Created(d, FALSE) = f BY <1>10
  <2> HIDE DEF f, d
  <2>2. << f >> \in Seq(DeviceOps) /\ << f >> # <<>> /\ Len(<< f >>) = 1 /\ << f >>[1] = f
        /\ Head(<< f >>) = f /\ DOMAIN << f >> = {1}
    BY <1>6
  <2>3. Chain("device", << f >>) /\ ~Answers1(<< f >>) BY <1>6, <2>2 DEF Chain, Answers1
  <2>4. Scripts' /\ Doing(p)' = f /\ \A q \in All \ {p} : Doing(q)' = Doing(q)
    BY <1>5, <1>6, <1>7, <1>10, <2>1, <2>2, <2>3
  <2> QED BY <1>1, <1>2, <1>3, <1>10, <2>0, <2>4
<1>11. CASE d = "SDIO" /\ CreateBegin(p, d) /\ Then(p, CreateBody(d) \o << Created(d, TRUE) >>)
  <2>1. Then("device", << k >> \o << c >>) BY <1>2, <1>11 DEF CreateBody
  <2> HIDE DEF c, k, d
  <2> DEFINE s == << k >> \o << c >>
  <2>2. << k >> \in Seq(DeviceOps) /\ << c >> \in Seq(DeviceOps) BY <1>6
  <2>3. s \in Seq(DeviceOps) /\ Len(s) = 2 /\ s[1] = k /\ s[2] = c
    BY <2>2, ConcatProperties
  <2> HIDE DEF s
  <2>4. s # <<>> /\ Head(s) = k /\ DOMAIN s = {1, 2}
    BY <2>3, EmptySeq, HeadTailProperties, LenProperties
  <2>5. Chain("device", s)
    <3>1. SUFFICES ASSUME NEW i \in 1 .. 1 PROVE s[i + 1] = Follow("device", s[i])
      BY <2>3 DEF Chain
    <3> QED BY <1>8, <1>11, <2>3
  <2>6. ~Answers1(s) BY <1>6, <2>3, <2>4 DEF Answers1
  <2>7. Scripts' /\ Doing(p)' = k /\ \A q \in All \ {p} : Doing(q)' = Doing(q)
    BY <1>5, <1>6, <1>7, <1>11, <2>1, <2>3, <2>4, <2>5, <2>6 DEF s
  <2> QED BY <1>1, <1>2, <1>3, <1>11, <2>7 DEF k
<1> QED BY <1>4, <1>9, <1>10, <1>11 DEF CallCreate

(* The shell deletes one of the card's.                                    *)
LEMMA DeleteScripts ==
  ASSUME PfInv, Scripts, NEW p \in Procs, CallDelete(p)
  PROVE  /\ p = "shell" /\ Scripts'
         /\ LET d == Now(p).dev IN
            /\ Doing(p).op = "delete" /\ Doing(p).dev = d /\ d \in {"SDC", "SDIO"}
            /\ \/ DeleteRefused(d) /\ Doing(p)' = Answer("RK_ERROR")
               \/ DeleteBegin(p, d) /\ d = "SDC" /\ Doing(p)' = Deleted(d)
               \/ /\ DeleteBegin(p, d) /\ d = "SDIO"
                  /\ Doing(p)' = TaskDelete("SDIO_IRQ_TASK", "SYNC_MODE")
         /\ \A q \in All \ {p} : Doing(q)' = Doing(q)
<1> DEFINE o == Doing(p)  d == Now(p).dev
<1>0. Ordered /\ TodoOK /\ p \in All BY DEF Scripts, PfInv, All
<1>1. /\ todo[p] # <<>> /\ Now(p) = o /\ o \in OpsOf(p) /\ o.op = "delete"
  BY <1>0, AtDoing DEF CallDelete
<1>2. p = "shell"
  <2>1. p \in {"device", "shell", "wifi", "wwd", "player", "http"} BY PlatformAssumption
  <2> QED BY <1>1, <2>1, Members, DeviceHas, OthersHave
<1>3. o \in ShellOps /\ o.dev = d /\ d \in {"SDC", "SDIO"}
  BY <1>1, <1>2, Members, ShellHas
<1>4. CASE DeleteRefused(d) /\ Err(p)
  BY <1>0, <1>1, <1>2, <1>3, <1>4, ErrScripts, ErrOrdered
<1> DEFINE c == Deleted(d)  k == TaskDelete("SDIO_IRQ_TASK", "SYNC_MODE")
<1>5. /\ c \in ShellOps /\ k \in ShellOps /\ c.op = "deleted" /\ c.dev = d
      /\ k.op = "taskDelete" /\ k.id = "SDIO_IRQ_TASK"
  BY <1>3 DEF ShellOps, Deleted, TaskDelete
<1>6. Follow("shell", c) = Follow("shell", o)
  BY <1>1, <1>3, <1>5 DEF Follow, FollowShell
<1>7. d = "SDIO" => Follow("shell", k) = c
  BY <1>5, ShellFollows DEF Follow
<1>8. p \in All \ {"device"} BY <1>0, <1>2
<1>9. CASE d = "SDC" /\ DeleteBegin(p, d) /\ Then(p, DeleteBody(d) \o << Deleted(d) >>)
  <2>1. Then(p, <<>> \o << c >>) BY <1>9 DEF DeleteBody
  <2> HIDE DEF c, d
  <2>2. << c >> \in Seq(ShellOps) /\ << c >> # <<>> /\ Len(<< c >>) = 1 /\ << c >>[1] = c
        /\ Head(<< c >>) = c /\ <<>> \o << c >> = << c >>
    BY <1>5, ConcatEmptySeq
  <2>3. Chain(p, << c >>) BY <1>5, <2>2 DEF Chain
  <2>4. Scripts' /\ Doing(p)' = c
    BY <1>0, <1>1, <1>2, <1>6, <1>8, <2>1, <2>2, <2>3, ThenScripts, Members
  <2>5. \A q \in All \ {p} : Doing(q)' = Doing(q)
    BY <1>0, OthersDoing, <2>1 DEF Then
  <2> QED BY <1>1, <1>2, <1>3, <1>9, <2>4, <2>5 DEF c
<1>10. CASE d = "SDIO" /\ DeleteBegin(p, d) /\ Then(p, DeleteBody(d) \o << Deleted(d) >>)
  <2>1. Then(p, << k >> \o << c >>) BY <1>10 DEF DeleteBody
  <2> HIDE DEF c, k, d
  <2> DEFINE s == << k >> \o << c >>
  <2>2. << k >> \in Seq(ShellOps) /\ << c >> \in Seq(ShellOps) BY <1>5
  <2>3. s \in Seq(ShellOps) /\ Len(s) = 2 /\ s[1] = k /\ s[2] = c
    BY <2>2, ConcatProperties
  <2> HIDE DEF s
  <2>4. s # <<>> /\ Head(s) = k
    BY <2>3, EmptySeq, HeadTailProperties, LenProperties
  <2>5. Chain(p, s)
    <3>1. SUFFICES ASSUME NEW i \in 1 .. 1 PROVE s[i + 1] = Follow("shell", s[i])
      BY <1>2, <2>3 DEF Chain
    <3> QED BY <1>7, <1>10, <2>3
  <2>6. Scripts' /\ Doing(p)' = k
    BY <1>0, <1>1, <1>2, <1>6, <1>8, <2>1, <2>3, <2>4, <2>5, ThenScripts, Members DEF s
  <2>7. \A q \in All \ {p} : Doing(q)' = Doing(q)
    BY <1>0, OthersDoing, <2>1 DEF Then
  <2> QED BY <1>1, <1>2, <1>3, <1>10, <2>6, <2>7 DEF k
<1> QED BY <1>3, <1>4, <1>9, <1>10 DEF CallDelete

(* Http_Close, called by the shell or by the player.                       *)
LEMMA HttpCloseScripts ==
  ASSUME PfInv, Scripts, NEW p \in Procs, HttpClose(p)
  PROVE  /\ p \in {"shell", "player"} /\ Scripts'
         /\ p = "shell" => Stage(Doing(p)) = 1 /\ Stage(Doing(p)') = 1
         /\ Doing(p)' \in {TaskDelete("HTTP", "ASYNC_MODE"), SetRunning(FALSE)}
         /\ \A q \in All \ {p} : Doing(q)' = Doing(q)
<1> DEFINE o == Doing(p)  k == TaskDelete("HTTP", "ASYNC_MODE")  c == Close("hFifo", TRUE)
           z == SetRunning(FALSE)
<1>0. Ordered /\ TodoOK /\ p \in All BY DEF Scripts, PfInv, All
<1>1. /\ todo[p] # <<>> /\ o \in OpsOf(p) /\ o.op = "httpClose"
  BY <1>0, AtDoing DEF HttpClose
<1>2. p \in {"shell", "player"}
  <2>1. p \in {"device", "shell", "wifi", "wwd", "player", "http"} BY PlatformAssumption
  <2> QED BY <1>1, <2>1, Members, DeviceHas, OthersHave
<1>3. /\ k \in ShellOps /\ c \in ShellOps /\ z \in ShellOps
      /\ k \in PlayerOps /\ c \in PlayerOps /\ z \in PlayerOps
  BY DEF ShellOps, PlayerOps, TaskDelete, Close, SetRunning
<1>4. /\ FollowShell(k) = c /\ FollowShell(c) = z /\ FollowShell(z) = FollowShell(o)
  <2>1. FollowShell(k) = c BY DEF FollowShell, TaskDelete
  <2>2. FollowShell(c) = z BY DEF FollowShell, Close
  <2>3. z.op = "setRunning" BY DEF SetRunning
  <2>4. FollowShell(z) = FollowShell(o) BY <1>1, <2>3 DEF FollowShell
  <2> QED BY <2>1, <2>2, <2>4
<1>5. Stage(o) = 1 /\ Stage(k) = 1 /\ Stage(z) = 1
  <2>1. Stage(o) = 1 BY <1>1 DEF Stage
  <2>2. Stage(k) = 1 BY DEF Stage, TaskDelete
  <2>3. Stage(z) = 1 BY DEF Stage, SetRunning
  <2> QED BY <2>1, <2>2, <2>3
<1>6. Then(p, (IF running THEN << k, c >> ELSE <<>>) \o << z >>) BY DEF HttpClose
<1>7. PICK s \in Seq(OpsOf(p)) :
        /\ s # <<>> /\ Then(p, s) /\ Head(s) \in {k, z}
        /\ p = "shell" => Chain(p, s) /\ FollowShell(s[Len(s)]) = FollowShell(o)
  <2> HIDE DEF k, c, z, o
  <2>1. k \in OpsOf(p) /\ c \in OpsOf(p) /\ z \in OpsOf(p) BY <1>2, <1>3, Members
  <2>2. CASE running
    <3> DEFINE s == << k, c >> \o << z >>
    <3>1. << k, c >> \in Seq(OpsOf(p)) /\ << z >> \in Seq(OpsOf(p)) BY <2>1
    <3>2. s \in Seq(OpsOf(p)) /\ Len(s) = 3 /\ s[1] = k /\ s[2] = c /\ s[3] = z
      BY <3>1, ConcatProperties
    <3>3. Then(p, s) BY <1>6, <2>2
    <3> HIDE DEF s
    <3>4. s # <<>> /\ Head(s) = k BY <3>2, EmptySeq, HeadTailProperties
    <3>5. p = "shell" => Chain(p, s)
      <4>1. SUFFICES ASSUME p = "shell", NEW i \in 1 .. 2 PROVE s[i + 1] = FollowShell(s[i])
        BY <3>2 DEF Chain, Follow
      <4> QED BY <1>4, <3>2
    <3> QED BY <1>4, <3>2, <3>3, <3>4, <3>5
  <2>3. CASE ~running
    <3> DEFINE s == << z >>
    <3>1. s \in Seq(OpsOf(p)) /\ Len(s) = 1 /\ s[1] = z /\ s # <<>> /\ Head(s) = z BY <2>1
    <3>2. Then(p, s)
      <4>1. <<>> \o s = s BY <3>1, ConcatEmptySeq
      <4> QED BY <1>6, <2>3, <4>1
    <3> HIDE DEF s
    <3>3. Chain(p, s) BY <3>1 DEF Chain
    <3> QED BY <1>4, <3>1, <3>2, <3>3
  <2> QED BY <2>2, <2>3
<1>8. p \in Scripted => p = "shell" BY <1>2 DEF Scripted
<1>9. Scripts' /\ Doing(p)' = Head(s)
  <2>1. p \in All \ {"device"} BY <1>0, <1>2
  <2>2. p \in Scripted => Chain(p, s) /\ Follow(p, s[Len(s)]) = Follow(p, Doing(p))
    BY <1>7, <1>8 DEF Follow
  <2> QED BY <1>0, <1>1, <1>7, <2>1, <2>2, ThenScripts
<1>10. \A q \in All \ {p} : Doing(q)' = Doing(q)
  BY <1>0, <1>7, OthersDoing DEF Then
<1>11. Stage(Doing(p)') = 1 BY <1>5, <1>7, <1>9
<1> QED BY <1>2, <1>5, <1>7, <1>9, <1>10, <1>11

LEMMA OpenHas ==
  /\ \A o \in DeviceOps : o.op = "open" => o.onNull = "err"
  /\ \A o \in WifiOps : o.op = "open" => o.onNull = "again"
  /\ \A o \in HttpOps : o.op = "open" => o.onNull = "quit"
  /\ \A o \in PlayerOps : o.op = "open" => o.onNull = "on"
  /\ \A o \in SchedOps : o.op = "open" => o.onNull = "hang"
<1>1. \A o \in DeviceOps : o.op = "open" => o.onNull = "err" BY DEF DeviceOps
<1>2. \A o \in WifiOps : o.op = "open" => o.onNull = "again" BY DEF WifiOps
<1>3. \A o \in HttpOps : o.op = "open" => o.onNull = "quit" BY DEF HttpOps
<1>4. \A o \in PlayerOps : o.op = "open" => o.onNull = "on" BY DEF PlayerOps
<1>5. \A o \in SchedOps : o.op = "open" => o.onNull = "hang" BY DEF SchedOps
<1> QED BY <1>1, <1>2, <1>3, <1>4, <1>5

(* RKDev_Open, by any task or the scheduler.                               *)
LEMMA OpenScripts ==
  ASSUME PfInv, Scripts, NEW p \in All, CallOpen(p)
  PROVE  /\ p \in All \ {"shell"} /\ Scripts'
         /\ Doing(p) \in OpsOf(p) /\ Doing(p).op = "open" /\ Now(p) = Doing(p)
         /\ p = "device" =>
              Doing(p)' = IF DeviceOf(Doing(p).var) \in registered THEN FollowDevice(Doing(p))
                                                                 ELSE Answer("RK_ERROR")
         /\ p = "wifi" => /\ Doing(p) = Open("hSdio", "again")
                          /\ Doing(p)' = IF "SDIO" \in registered THEN Only("busInit") ELSE Doing(p)
         /\ \A q \in All \ {p} : Doing(q)' = Doing(q)
<1> DEFINE o == Doing(p)  d == DeviceOf(o.var)
<1>0. Ordered /\ TodoOK /\ todo[p] # <<>> /\ o \in OpsOf(p) /\ o.op = "open" /\ Now(p) = o
  BY AtDoing DEF Scripts, PfInv, CallOpen
<1>1. p \in All \ {"shell"} /\ p # "wwd" BY <1>0, Members, ShellHas, OthersHave
<1>6. \/ p = "device" /\ o.onNull = "err"
      \/ p = "wifi" /\ o.onNull = "again"
      \/ p = "http" /\ o.onNull = "quit"
      \/ p = "player" /\ o.onNull = "on"
      \/ p = Sched /\ o.onNull = "hang"
  BY <1>0, <1>1, Members, OpenHas
<1>2. CASE Done(p) /\ (d \in registered \/ o.onNull = "on")
  <2>1. Scripts' BY <1>0, <1>2, DoneScripts
  <2>2. /\ p \in Scripted => Doing(p)' = Follow(p, o)
        /\ \A q \in All \ {p} : Doing(q)' = Doing(q)
    BY <1>0, <1>2, DoneOrdered
  <2>3. p = "wifi" => o = Open("hSdio", "again") /\ FollowWifi(o) = Only("busInit")
    BY <1>0, Members, WifiFollows
  <2>4. p = "device" => o.onNull = "err" BY <1>6 DEF Sched
  <2>5. p = "wifi" => d = "SDIO" /\ o.onNull = "again" BY <2>3 DEF Open, DeviceOf
  <2> QED BY <1>0, <1>1, <1>2, <2>1, <2>2, <2>3, <2>4, <2>5 DEF Follow, Scripted
<1>3. ASSUME ~(d \in registered \/ o.onNull = "on")
      PROVE  /\ Scripts' /\ \A q \in All \ {p} : Doing(q)' = Doing(q)
             /\ p = "device" => Doing(p)' = Answer("RK_ERROR") /\ d \notin registered
             /\ p = "wifi" => /\ o = Open("hSdio", "again") /\ "SDIO" \notin registered
                              /\ Doing(p)' = o
  <2>1. CASE o.onNull = "err" /\ Err(p)
    <3>1. p = "device" BY <1>6, <2>1
    <3> QED BY <1>0, <1>3, <2>1, <3>1, ErrScripts, ErrOrdered
  <2>2. CASE o.onNull = "again" /\ UNCHANGED todo
    <3>1. p = "wifi" BY <1>6, <2>2
    <3>2. o = Open("hSdio", "again") BY <1>0, <3>1, Members DEF WifiOps, Open
    <3>3. d = "SDIO" BY <3>2 DEF Open, DeviceOf
    <3> QED BY <1>3, <2>2, <3>1, <3>2, <3>3, SameDoing
  <2>3. CASE o.onNull = "hang" /\ todo' = [todo EXCEPT ![p] = << Only("hang") >>]
    <3>1. p = Sched BY <1>6, <2>3
    <3>2. p \notin Scripted /\ p # "device" /\ p # "wifi" BY <3>1 DEF Sched, Scripted
    <3>3. Scripts' BY <1>0, <2>3, <3>1, <3>2, NewScripts, Members, OtherPrograms
    <3> QED BY <1>0, <2>3, <3>2, <3>3, OthersDoing
  <2>4. CASE o.onNull = "quit" /\ todo' = [todo EXCEPT ![p] = HTTPQuit]
    <3>1. p = "http" BY <1>6, <2>4
    <3>2. p \notin Scripted /\ p # "device" /\ p # "wifi" BY <3>1 DEF Scripted
    <3>3. Scripts' BY <1>0, <2>4, <3>1, <3>2, NewScripts, Members, OtherPrograms
    <3> QED BY <1>0, <2>4, <3>2, <3>3, OthersDoing
  <2>5. o.onNull \in {"err", "again", "quit", "hang"} BY <1>3, <1>6
  <2> QED BY <1>0, <1>3, <2>1, <2>2, <2>3, <2>4, <2>5 DEF CallOpen
<1>4. CASE d \in registered \/ o.onNull = "on" BY <1>0, <1>2, <1>4 DEF CallOpen
<1>5. CASE ~(d \in registered \/ o.onNull = "on") BY <1>0, <1>1, <1>3, <1>5
<1> QED BY <1>4, <1>5

(* The device manager begins with the list of the card.                    *)
LEMMA ListenScripts ==
  ASSUME PfInv, Scripts, Listen
  PROVE  /\ Scripts' /\ Doing("device") = Only("listen")
         /\ Doing("device")' = Open("hDma", "err")
         /\ \A q \in All \ {"device"} : Doing(q)' = Doing(q)
<1> DEFINE t == todo["device"]  u == SdioFifoList \o t
<1>0. /\ Ordered /\ TodoOK /\ "device" \in All /\ "device" \in Scripted
  BY Members DEF Scripts, PfInv, Scripted
<1>1. /\ t # <<>> /\ Doing("device") \in DeviceOps /\ Doing("device").op = "listen"
      /\ t \in Seq(DeviceOps) /\ Doing("device") = Head(t)
  BY <1>0, AtDoing, DoingIs, Members DEF Listen
<1>2. Doing("device") = Only("listen") BY <1>1 DEF DeviceOps, Only
<1>3. Script("device", t) BY <1>0 DEF Ordered
<1>4. todo' = [todo EXCEPT !["device"] = u] BY <1>0 DEF Listen, TodoOK
<1> HIDE DEF t
<1>5. First1(t) = Follow("device", SdioFifoList[Len(SdioFifoList)])
  BY <1>1, <1>2, DevicePrograms DEF First1, Follow
<1>6. u \in Seq(DeviceOps) /\ Script("device", u) /\ u # <<>> /\ Head(u) = Head(SdioFifoList)
  BY <1>1, <1>3, <1>5, DevicePrograms, JoinScript
<1> HIDE DEF u
<1>7. Ordered' BY <1>0, <1>4, <1>6, NewOrdered, Members
<1>8. /\ Doing("device")' = Open("hDma", "err") /\ todo'["device"] = u
      /\ \A q \in All \ {"device"} : Doing(q)' = Doing(q)
  BY <1>0, <1>4, <1>6, OthersDoing, DevicePrograms DEF First1
<1>9. Answers1(u)
  <2>1. Answers1(SdioFifoList)
    <3> DEFINE c == Close("hFileList", FALSE)
    <3>1. SdioFifoList[8] = Answer("RK_SUCCESS") /\ 8 \in DOMAIN SdioFifoList
      BY DEF SdioFifoList
    <3>2. Answer("RK_SUCCESS").op = "answer" BY DEF Answer
    <3> QED BY <3>1, <3>2 DEF Answers1
  <2> QED BY <1>1, <2>1, AnswerJoin, DevicePrograms DEF u
<1>10. Listing' BY <1>8, <1>9 DEF Listing, Answers1
<1>11. AtList(Open("hDma", "err")) BY DEF AtList, Open
<1> QED BY <1>2, <1>7, <1>8, <1>10, <1>11 DEF Scripts

LEMMA PlayScripts ==
  ASSUME PfInv, Scripts, Play
  PROVE  Scripts' /\ \A q \in All \ {"player"} : Doing(q)' = Doing(q)
<1>0. /\ Ordered /\ TodoOK /\ "player" \in All /\ "player" \notin Scripted
  BY Members DEF Scripts, PfInv, Scripted
<1>1. todo["player"] # <<>> BY <1>0, AtDoing DEF Play
<1>2. CASE Done("player") BY <1>0, <1>1, <1>2, DoneScripts, DoneOrdered
<1>3. CASE Then("player", << TaskCreate("HTTP"), SetRunning(TRUE), Only("decStart"),
                             Only("httpClose") >>)
  <2> DEFINE s == << TaskCreate("HTTP"), SetRunning(TRUE), Only("decStart"), Only("httpClose") >>
  <2>1. s \in Seq(OpsOf("player")) /\ s # <<>> BY Members, OtherPrograms
  <2> HIDE DEF s
  <2>2. Then("player", s) BY <1>3 DEF s
  <2>3. Scripts' BY <1>0, <1>1, <2>1, <2>2, ThenScripts
  <2> QED BY <1>0, <2>2, <2>3, OthersDoing DEF Then
<1> QED BY <1>2, <1>3 DEF Play

(* The shell begins a command.                                             *)
LEMMA CommandScripts ==
  ASSUME PfInv, Scripts, Command
  PROVE  /\ Scripts' /\ Ready("shell") /\ Doing("shell") = Nothing
         /\ \/ /\ RKTaskFind("WIFI_APPLICATION") = {}
               /\ Doing("shell")' = TaskCreate("WIFI_APPLICATION")
            \/ Doing("shell")' = TaskCreate("DLNA")
            \/ Doing("shell")' = Only("httpClose")
            \/ Doing("shell")' = Only("askList")
            \/ Doing("shell")' = TaskDelete("AUDIOCONTROL", "SYNC_MODE")
         /\ \A q \in All \ {"shell"} : Doing(q)' = Doing(q)
<1>0. /\ Ordered /\ TodoOK /\ "shell" \in All \ {"device"} /\ "shell" \in Scripted
  BY Members DEF Scripts, PfInv, Scripted
<1>1. Ready("shell") /\ Doing("shell") = Nothing BY DEF Command, Doing
<1>2. ASSUME NEW s \in Seq(ShellOps), s # <<>>, Script("shell", s),
             todo' = [todo EXCEPT !["shell"] = s]
      PROVE  /\ Scripts' /\ Doing("shell")' = Head(s)
             /\ \A q \in All \ {"shell"} : Doing(q)' = Doing(q)
  <2>1. Scripts' BY <1>0, <1>2, NewScripts, Members
  <2>2. Doing("shell")' = First1(s) /\ \A q \in All \ {"shell"} : Doing(q)' = Doing(q)
    BY <1>0, <1>2, OthersDoing
  <2> QED BY <1>2, <2>1, <2>2 DEF First1
<1> DEFINE start == << TaskCreate("WIFI_APPLICATION"), Only("awaitLink") >>
           play == << TaskCreate("DLNA") >>
           stop == << TaskDelete("AUDIOCONTROL", "SYNC_MODE"),
                      TaskDelete("STREAMCONTROL", "SYNC_MODE") >>
           Does(s) == todo' = [todo EXCEPT !["shell"] = s]
<1>3. /\ start \in Seq(ShellOps) /\ Script("shell", start)
      /\ start # <<>> /\ Head(start) = TaskCreate("WIFI_APPLICATION")
      /\ play \in Seq(ShellOps) /\ Script("shell", play)
      /\ play # <<>> /\ Head(play) = TaskCreate("DLNA")
      /\ stop \in Seq(ShellOps) /\ Script("shell", stop)
      /\ stop # <<>> /\ Head(stop) = TaskDelete("AUDIOCONTROL", "SYNC_MODE")
  BY ShellPrograms
<1>4. \/ RKTaskFind("WIFI_APPLICATION") = {} /\ Does(start)
      \/ Does(play)
      \/ Does(WifiDel)
      \/ Does(CreateDeviceList)
      \/ Does(stop)
  BY DEF Command
<1> HIDE DEF start, play, stop
<1>5. CASE RKTaskFind("WIFI_APPLICATION") = {} /\ Does(start) BY <1>1, <1>2, <1>3, <1>5
<1>6. CASE Does(play) BY <1>1, <1>2, <1>3, <1>6
<1>7. CASE Does(WifiDel) BY <1>1, <1>2, <1>7, ShellPrograms
<1>8. CASE Does(CreateDeviceList) BY <1>1, <1>2, <1>8, ShellPrograms
<1>9. CASE Does(stop) BY <1>1, <1>2, <1>3, <1>9
<1> QED BY <1>4, <1>5, <1>6, <1>7, <1>8, <1>9

LEMMA ReceiveScripts ==
  ASSUME PfInv, Scripts, Receive
  PROVE  Scripts' /\ \A q \in Procs : Doing(q)' = Doing(q)
<1>0. TodoOK /\ Sched \in All \ {"device"} /\ Sched \notin Scripted
      /\ \A q \in Procs : q \in All \ {Sched}
  <2>1. Sched \notin Procs BY PlatformAssumption DEF Sched
  <2> QED BY <2>1, Members DEF PfInv, Sched, Scripted, All
<1>1. PICK s \in Seq(SchedOps) : todo' = [todo EXCEPT ![Sched] = s]
  BY OtherPrograms DEF Receive
<1>2. Scripts' BY <1>0, <1>1, NewScripts, Members
<1> QED BY <1>0, <1>1, <1>2, OthersDoing

(* A task begins, or is gone.                                              *)
LEMMA RunsScripts ==
  ASSUME PfInv, Scripts, NEW id, NEW s,
         \/ s = TaskFun(id) /\ (id = "SHELL" => s = <<>>)
         \/ s = Dormant,
         todo' = [p \in DOMAIN todo |-> IF p \in Runs(id) THEN s ELSE todo[p]]
  PROVE  /\ Scripts'
         /\ \A q \in All : Doing(q)' = IF q \in Runs(id) THEN First1(s) ELSE Doing(q)
<1>0. TodoOK /\ DOMAIN todo = All /\ Ordered BY DEF PfInv, TodoOK, Scripts
<1>1. \A q \in All : /\ q \in Runs(id) => todo'[q] = s
                     /\ q \notin Runs(id) => todo'[q] = todo[q]
  BY <1>0
<1>2. \A q \in All : Doing(q)' = IF q \in Runs(id) THEN First1(s) ELSE Doing(q)
  BY <1>1 DEF Doing, First1
<1>3. "device" \notin Runs(id) /\ "device" \in All BY Members DEF Runs
<1>4. ASSUME NEW q \in Runs(id)
      PROVE  s \in Seq(OpsOf(q)) /\ (q \in Scripted => Script(q, s))
  <2>1. CASE s = Dormant
    <3>1. q \in {"shell", "wifi", "wwd", "player", "http"} BY <1>4 DEF Runs
    <3> QED BY <2>1, <3>1, DormantPrograms, Members DEF Scripted
  <2>2. CASE s = TaskFun(id) /\ (id = "SHELL" => s = <<>>)
    <3>1. CASE id = "SHELL"
      <4>1. Script(q, <<>>) /\ <<>> \in Seq(OpsOf(q)) BY EmptySeq DEF Script
      <4> QED BY <2>2, <3>1, <4>1
    <3>2. CASE id = "WIFI_APPLICATION"
      <4>1. q = "wifi" /\ s = WifiApplication BY <1>4, <2>2, <3>2 DEF Runs, TaskFun
      <4> QED BY <4>1, WifiPrograms, Members
    <3>3. CASE id = "DLNA"
      <4>1. q = "player" /\ s = Player BY <1>4, <2>2, <3>3 DEF Runs, TaskFun
      <4> QED BY <4>1, OtherPrograms, Members DEF Scripted
    <3>4. CASE id = "HTTP"
      <4>1. q = "http" /\ s = HTTPTask BY <1>4, <2>2, <3>4 DEF Runs, TaskFun
      <4> QED BY <4>1, OtherPrograms, Members DEF Scripted
    <3>6. CASE id = "WWD"
      <4>1. q = "wwd" /\ s = WWDTask BY <1>4, <2>2, <3>6 DEF Runs, TaskFun
      <4> QED BY <4>1, OtherPrograms, Members DEF Scripted
    <3>5. id \in {"SHELL", "WIFI_APPLICATION", "WWD", "DLNA", "HTTP"} BY <1>4 DEF Runs
    <3> QED BY <3>1, <3>2, <3>3, <3>4, <3>5, <3>6
  <2> QED BY <2>1, <2>2
<1>5. Ordered'
  <2>1. \A q \in All : todo'[q] \in Seq(OpsOf(q))
    BY <1>0, <1>1, <1>4 DEF Ordered, All
  <2>2. \A q \in Scripted : Script(q, todo'[q])
    BY <1>0, <1>1, <1>4, Members DEF Ordered
  <2> QED BY <2>1, <2>2 DEF Ordered, All, Script
<1>6. todo'["device"] = todo["device"] /\ Doing("device")' = Doing("device")
  BY <1>1, <1>2, <1>3
<1>7. Scripts' BY <1>5, <1>6 DEF Scripts, Listing
<1> QED BY <1>2, <1>7

LEMMA InitScripts == ASSUME Init PROVE Scripts
<1>0. /\ todo["device"] = DeviceTask /\ todo[Sched] = <<>>
      /\ \A p \in All \ {"device", Sched} : todo[p] = Dormant
  BY Members DEF Init, All, Sched
<1>1. Ordered
  <2>1. \A p \in All : todo[p] \in Seq(OpsOf(p))
    BY <1>0, Members, DevicePrograms, DormantPrograms, EmptySeq
  <2>2. Script("device", todo["device"]) BY <1>0, DevicePrograms
  <2>3. todo["shell"] = Dormant /\ todo["wifi"] = Dormant BY <1>0, Members DEF Sched
  <2>4. \A p \in Scripted : Script(p, todo[p])
    BY <2>2, <2>3, DormantPrograms DEF Scripted
  <2> QED BY <2>1, <2>4 DEF Ordered, All
<1>2. ~Listing
  <2>1. \A i \in 1 .. 7 : DeviceTask[i].op # "answer"
    BY DEF DeviceTask, Create, TaskCreate, Only
  <2>2. DOMAIN DeviceTask = 1 .. 7 BY DEF DeviceTask
  <2> QED BY <1>0, <2>1, <2>2 DEF Listing
<1>3. ~AtList(Doing("device"))
  <2>1. Doing("device") = Create("DMA") BY <1>0, DevicePrograms DEF Doing
  <2> QED BY <2>1 DEF AtList, Create
<1> QED BY <1>1, <1>2, <1>3 DEF Scripts

(* The device manager has created a device, or failed to.                  *)
LEMMA CreatedScripts ==
  ASSUME PfInv, Scripts, NEW p \in Procs, CallCreated(p)
  PROVE  /\ p = "device" /\ Scripts'
         /\ Doing(p) \in DeviceOps /\ Doing(p).op = "created" /\ Now(p) = Doing(p)
         /\ CreateEnd(p, Doing(p).ok)
         /\ Doing(p)' = IF Doing(p).ok THEN FollowDevice(Doing(p)) ELSE Answer("RK_ERROR")
         /\ \A q \in All \ {p} : Doing(q)' = Doing(q)
<1>0. Ordered /\ TodoOK /\ p \in All BY DEF Scripts, PfInv, All
<1>1. /\ todo[p] # <<>> /\ Now(p) = Doing(p) /\ Doing(p) \in OpsOf(p)
      /\ Doing(p).op = "created"
  BY <1>0, AtDoing DEF CallCreated
<1>2. p = "device"
  <2>1. p \in {"device", "shell", "wifi", "wwd", "player", "http"} BY PlatformAssumption
  <2> QED BY <1>1, <2>1, Members, ShellHas, OthersHave
<1>3. Doing(p) \in DeviceOps /\ Doing(p).ok \in BOOLEAN BY <1>1, <1>2, Members, DeviceHas
<1>4. CreateEnd(p, Doing(p).ok) BY <1>1 DEF CallCreated
<1>5. CASE Doing(p).ok /\ Done(p)
  <2>1. Scripts' BY <1>0, <1>1, <1>5, DoneScripts
  <2>2. Doing(p)' = Follow(p, Doing(p)) /\ \A q \in All \ {p} : Doing(q)' = Doing(q)
    BY <1>0, <1>1, <1>2, <1>5, DoneOrdered DEF Scripted
  <2> QED BY <1>1, <1>2, <1>3, <1>4, <1>5, <2>1, <2>2 DEF Follow
<1>6. CASE ~Doing(p).ok /\ Err(p)
  <2>1. p \in {"device", "shell"} BY <1>2
  <2>2. Scripts' BY <1>0, <1>6, <2>1, ErrScripts
  <2>3. Doing(p)' = Answer("RK_ERROR") /\ \A q \in All \ {p} : Doing(q)' = Doing(q)
    BY <1>0, <1>6, <2>1, ErrOrdered
  <2> QED BY <1>1, <1>2, <1>3, <1>4, <1>6, <2>2, <2>3
<1> QED BY <1>1, <1>3, <1>5, <1>6 DEF CallCreated

(* The operations after which a task simply goes on.                       *)
LEMMA StepScripts ==
  ASSUME PfInv, Scripts, NEW p \in All, NEW name, At(p, name), Done(p)
  PROVE  /\ Scripts' /\ Doing(p) \in OpsOf(p) /\ Doing(p).op = name /\ Now(p) = Doing(p)
         /\ Ready(p)
         /\ p \in Scripted => Doing(p)' = Follow(p, Doing(p))
         /\ \A q \in All \ {p} : Doing(q)' = Doing(q)
<1>0. Ordered /\ TodoOK BY DEF Scripts, PfInv
<1>1. /\ todo[p] # <<>> /\ Now(p) = Doing(p) /\ Doing(p) \in OpsOf(p)
      /\ Doing(p).op = name /\ Ready(p)
  BY <1>0, AtDoing
<1> QED BY <1>0, <1>1, DoneScripts, DoneOrdered

(* wiced_deinit: the bus has to be brought down, or not.                   *)
LEMMA DeinitScripts ==
  ASSUME PfInv, Scripts, Deinit
  PROVE  /\ Scripts' /\ Ready("shell") /\ Doing("shell") = Only("deinit")
         /\ Doing("shell")' = IF ~wlanInitialised THEN TaskDelete("WIFI_APPLICATION", "SYNC_MODE")
                              ELSE IF wlanUp THEN Close("hSdio", TRUE)
                              ELSE TaskDelete("TCPIP_THREAD", "SYNC_MODE")
         /\ \A q \in All \ {"shell"} : Doing(q)' = Doing(q)
<1> DEFINE k == TaskDelete("TCPIP_THREAD", "SYNC_MODE")
           n == TaskDelete("WIFI_APPLICATION", "SYNC_MODE")
<1>0. /\ Ordered /\ TodoOK /\ "shell" \in All \ {"device"} /\ "shell" \in Scripted
  BY Members DEF Scripts, PfInv, Scripted
<1>1. /\ Ready("shell") /\ todo["shell"] # <<>> /\ Doing("shell") \in ShellOps
      /\ Doing("shell").op = "deinit"
  BY <1>0, AtDoing, Members DEF Deinit
<1>2. Doing("shell") = Only("deinit") BY <1>1 DEF ShellOps, Only
<1>3. /\ \A o : Follow("shell", o) = FollowShell(o)
      /\ FollowShell(Doing("shell")) = n /\ FollowShell(k) = n
  BY <1>1 DEF Follow, FollowShell, TaskDelete
<1>4. CASE ~wlanInitialised
  <2>1. Done("shell") BY <1>4 DEF Deinit
  <2>2. Scripts' BY <1>0, <1>1, <2>1, DoneScripts
  <2>3. Doing("shell")' = n /\ \A q \in All \ {"shell"} : Doing(q)' = Doing(q)
    BY <1>0, <1>1, <1>3, <2>1, DoneOrdered
  <2> QED BY <1>1, <1>2, <1>4, <2>2, <2>3
<1>5. ASSUME NEW s \in Seq(ShellOps), s # <<>>, Then("shell", s), Chain("shell", s),
             FollowShell(s[Len(s)]) = n
      PROVE  /\ Scripts' /\ Doing("shell")' = Head(s)
             /\ \A q \in All \ {"shell"} : Doing(q)' = Doing(q)
  <2>1. Scripts' /\ Doing("shell")' = Head(s)
    BY <1>0, <1>1, <1>3, <1>5, ThenScripts, Members
  <2> QED BY <1>0, <1>5, <2>1, OthersDoing DEF Then
<1> HIDE DEF k, n
<1>6. << k >> \in Seq(ShellOps) /\ Len(<< k >>) = 1 /\ << k >>[1] = k
  BY ShellPrograms DEF k
<1>7. CASE wlanInitialised /\ wlanUp
  <2> DEFINE b == BusDeinit  s == b \o << k >>
  <2>1. Then("shell", s) BY <1>7 DEF Deinit, k
  <2>2. /\ b \in Seq(ShellOps) /\ Chain("shell", b) /\ b # <<>> /\ Head(b) = Close("hSdio", TRUE)
        /\ FollowShell(b[Len(b)]) = k
    BY ShellPrograms DEF k
  <2> HIDE DEF b
  <2>3. /\ Len(b) \in Nat /\ Len(b) > 0 /\ s \in Seq(ShellOps) /\ Len(s) = Len(b) + 1
        /\ \A i \in 1 .. Len(b) : s[i] = b[i]
    BY <1>6, <2>2
  <2>4. s[Len(b) + 1] = k BY <1>6, <2>2, <2>3
  <2>5. s # <<>> /\ Head(s) = Head(b) BY <1>6, <2>2, <2>3
  <2> HIDE DEF s
  <2>6. Chain("shell", s)
    <3>1. SUFFICES ASSUME NEW i \in 1 .. Len(b) PROVE s[i + 1] = FollowShell(s[i])
      BY <1>3, <2>3 DEF Chain
    <3>2. CASE i = Len(b) BY <2>2, <2>3, <2>4, <3>2
    <3>3. CASE i # Len(b)
      <4>1. i \in 1 .. Len(b) - 1 /\ i + 1 \in 1 .. Len(b) BY <2>3, <3>3
      <4>2. b[i + 1] = FollowShell(b[i]) BY <1>3, <2>2, <4>1 DEF Chain
      <4> QED BY <2>3, <4>1, <4>2
    <3> QED BY <3>2, <3>3
  <2>7. FollowShell(s[Len(s)]) = n BY <1>3, <2>3, <2>4
  <2> QED BY <1>1, <1>2, <1>5, <1>7, <2>1, <2>2, <2>3, <2>5, <2>6, <2>7
<1>8. CASE wlanInitialised /\ ~wlanUp
  <2> DEFINE s == << k >>
  <2>1. s \in Seq(ShellOps) /\ s # <<>> /\ Head(s) = k /\ Len(s) = 1 /\ s[1] = k BY <1>6
  <2>2. Then("shell", s)
    <3>1. <<>> \o s = s BY <2>1, ConcatEmptySeq
    <3> QED BY <1>8, <3>1 DEF Deinit, k
  <2> HIDE DEF s
  <2>3. Chain("shell", s) BY <2>1 DEF Chain
  <2> QED BY <1>1, <1>2, <1>3, <1>5, <1>8, <2>1, <2>2, <2>3 DEF k
<1> QED BY <1>4, <1>7, <1>8 DEF n

(* The Wi-Fi task brings the bus up, unless it is up.                      *)
LEMMA WifiOnScripts ==
  ASSUME PfInv, Scripts, WifiOn
  PROVE  /\ Scripts' /\ Ready("wifi") /\ Doing("wifi").op = "wifiOn"
         /\ Doing("wifi")' = IF wlanUp THEN Only("join") ELSE Only("askList")
         /\ \A q \in All \ {"wifi"} : Doing(q)' = Doing(q)
<1>0. /\ Ordered /\ TodoOK /\ "wifi" \in All \ {"device"} /\ "wifi" \in Scripted
      /\ OpsOf("wifi") = WifiOps
  BY Members DEF Scripts, PfInv, Scripted
<1>1. At("wifi", "wifiOn") BY DEF WifiOn
<1>2. /\ Ready("wifi") /\ todo["wifi"] # <<>> /\ Doing("wifi") \in WifiOps
      /\ Doing("wifi").op = "wifiOn"
  BY <1>0, <1>1, AtDoing
<1>3. FollowWifi(Doing("wifi")) = Only("join") BY <1>2, WifiFollows
<1>4. CASE wlanUp
  <2>1. Done("wifi") BY <1>4 DEF WifiOn, Done
  <2> QED BY <1>0, <1>1, <1>2, <1>3, <1>4, <2>1, StepScripts DEF Follow
<1>5. CASE ~wlanUp
  <2>1. Then("wifi", BringUp) BY <1>5 DEF WifiOn
  <2>2. Follow("wifi", BringUp[Len(BringUp)]) = Follow("wifi", Doing("wifi"))
    BY <1>3, WifiPrograms DEF Follow
  <2>3. Scripts' /\ Doing("wifi")' = Only("askList")
    BY <1>0, <1>2, <2>1, <2>2, ThenScripts, WifiPrograms
  <2>4. \A q \in All \ {"wifi"} : Doing(q)' = Doing(q) BY <1>0, <2>1, OthersDoing DEF Then
  <2> QED BY <1>2, <1>5, <2>3, <2>4
<1> QED BY <1>4, <1>5

(* The other steps of the Wi-Fi task: it goes on, or gives up.             *)
LEMMA WifiScripts ==
  ASSUME PfInv, Scripts, NEW name, At("wifi", name),
         Done("wifi") \/ todo' = [todo EXCEPT !["wifi"] = <<>>]
  PROVE  /\ Scripts' /\ Ready("wifi") /\ Doing("wifi") \in WifiOps /\ Doing("wifi").op = name
         /\ Done("wifi") => Doing("wifi")' = FollowWifi(Doing("wifi"))
         /\ ~Done("wifi") => Doing("wifi")' = Nothing
         /\ \A q \in All \ {"wifi"} : Doing(q)' = Doing(q)
<1>0. /\ Ordered /\ TodoOK /\ "wifi" \in All \ {"device"} /\ "wifi" \in Scripted
      /\ OpsOf("wifi") = WifiOps
  BY Members DEF Scripts, PfInv, Scripted
<1>1. Ready("wifi") /\ Doing("wifi") \in WifiOps /\ Doing("wifi").op = name
  BY <1>0, AtDoing
<1>2. CASE Done("wifi") BY <1>0, <1>1, <1>2, StepScripts DEF Follow
<1>3. CASE ~Done("wifi") /\ todo' = [todo EXCEPT !["wifi"] = <<>>]
  <2>1. <<>> \in Seq(WifiOps) /\ Script("wifi", <<>>) BY EmptySeq DEF Script
  <2>2. Scripts' BY <1>0, <1>3, <2>1, NewScripts
  <2>3. Doing("wifi")' = Nothing /\ \A q \in All \ {"wifi"} : Doing(q)' = Doing(q)
    BY <1>0, <1>3, OthersDoing DEF First1
  <2> QED BY <1>1, <1>3, <2>2, <2>3
<1> QED BY <1>2, <1>3

LEMMA NextScripts == ASSUME PfInv, Scripts, [Next]_vars PROVE Scripts'
<1>0. TodoOK BY DEF PfInv
<1>1. ASSUME NEW p \in Procs, TaskStep(p) PROVE Scripts'
  <2>0. p \in All BY DEF All
  <2>1. CASE CallTaskCreate(p) \/ CallTaskDelete(p) \/ AskList(p) \/ ReceiveList(p)
    BY <2>0, <2>1, StepScripts DEF CallTaskCreate, CallTaskDelete, AskList, ReceiveList
  <2>2. CASE ChangeRunning(p) \/ SendAnswer(p) \/ CallDeleted(p)
    BY <2>0, <2>2, StepScripts DEF ChangeRunning, SendAnswer, CallDeleted
  <2>3. CASE CallSends(p) \/ CallReceives(p)
    BY <2>3, SameDoing DEF CallSends, CallReceives, pfVars
  <2>4. CASE HttpClose(p) BY <2>4, HttpCloseScripts
  <2>5. CASE CallCreate(p) BY <2>5, CreateScripts
  <2>6. CASE CallCreated(p) BY <2>6, CreatedScripts
  <2>7. CASE CallDelete(p) BY <2>7, DeleteScripts
  <2> QED BY <1>1, <2>1, <2>2, <2>3, <2>4, <2>5, <2>6, <2>7 DEF TaskStep
<1>2. ASSUME NEW p \in Procs \cup {Sched}, DeviceStep(p) PROVE Scripts'
  <2>0. p \in All BY DEF All
  <2>1. CASE CallOpen(p) BY <2>0, <2>1, OpenScripts
  <2>2. CASE CallClose(p) BY <2>0, <2>2, StepScripts DEF CallClose
  <2> QED BY <1>2, <2>1, <2>2 DEF DeviceStep
<1>3. CASE Listen BY <1>3, ListenScripts
<1>4. CASE Play BY <1>4, PlayScripts
<1>5. CASE AwaitLink \/ CloseOver BY <1>5, StepScripts, Members DEF AwaitLink, CloseOver
<1>12. CASE DecStart \/ StopIgnored \/ Poll
  BY <1>12, StepScripts, Members DEF DecStart, StopIgnored, Poll
<1>13. CASE Deinit BY <1>13, DeinitScripts
<1>14. CASE WifiOn BY <1>14, WifiOnScripts
<1>15. CASE BusInit \/ WlanUp \/ Join BY <1>15, WifiScripts DEF BusInit, WlanUp, Join
<1>6. CASE Command BY <1>6, CommandScripts
<1>7. CASE Receive BY <1>7, ReceiveScripts
<1>8. CASE TaskFails \/ StaleBlock \/ Respond
  BY <1>8, SameDoing DEF TaskFails, StaleBlock, Respond, pfVars
<1>9. CASE TaskStarts
  <2>1. TaskFun("SHELL") = <<>> BY DEF TaskFun
  <2>2. /\ todo' = [p \in DOMAIN todo |-> IF p \in Runs(ItemID) THEN TaskFun(ItemID) ELSE todo[p]]
        /\ ItemID = "SHELL" => TaskFun(ItemID) = <<>>
    BY <1>9, <2>1 DEF TaskStarts
  <2> DEFINE id == ItemID
  <2> HIDE DEF id
  <2>3. /\ todo' = [p \in DOMAIN todo |-> IF p \in Runs(id) THEN TaskFun(id) ELSE todo[p]]
        /\ id = "SHELL" => TaskFun(id) = <<>>
    BY <2>2 DEF id
  <2> QED BY <2>3, RunsScripts
<1>10. CASE TaskEnds BY <1>10, RunsScripts DEF TaskEnds
<1>11. CASE UNCHANGED vars BY <1>11, SameDoing DEF vars, pfVars
<1> QED BY <1>1, <1>2, <1>3, <1>4, <1>5, <1>6, <1>7, <1>8, <1>9, <1>10, <1>11, <1>12, <1>13,
         <1>14, <1>15
  DEF Next, Step

(* Every task follows its script, and the device manager owes an answer    *)
(* exactly while it is at work on the card's list.                         *)
LEMMA InScripts == Spec => []Scripts
<1>1. Init => PfInv /\ Scripts BY InitPf, InitScripts
<1>2. PfInv /\ Scripts /\ [Next]_vars => (PfInv /\ Scripts)' BY NextMaps, NextScripts
<1> QED BY <1>1, <1>2, PTL DEF Spec
=============================================================================
