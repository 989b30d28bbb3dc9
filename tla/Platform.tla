------------------------------ MODULE Platform ------------------------------
(***************************************************************************)
(* The tasks that use the task service and the device registry at once:    *)
(* the device manager task, the shell, the Wi-Fi application task and the  *)
(* WWD task of its driver, the DLNA player and the HTTP task, with the     *)
(* scheduler task, which opens and closes devices itself in the init and   *)
(* deinit functions of the audio control and stream control tasks.         *)
(*                                                                         *)
(* What a task has still to do is a sequence of operations; an operation   *)
(* is a call of one of the services, of DeviceTask_CreateDeviceList, or a  *)
(* read or write of a variable that two tasks share.                       *)
(***************************************************************************)
EXTENDS DeviceRegistry, Sequences

CONSTANTS
  MaxCommands,   \* bound: commands typed at the shell
  NoMemory       \* tasks whose stack FreeRTOS may fail to allocate

Sched == "scheduler"
Dormant == << [op |-> "dormant"] >>

ASSUME PlatformAssumption ==
  /\ Procs = {"device", "shell", "wifi", "wwd", "player", "http"}
  /\ TaskIDs = {"DEVICE_TASK", "BCORE", "SHELL", "WIFI_APPLICATION", "TCPIP_THREAD", "WWD",
                "SDIO_IRQ_TASK", "DLNA", "HTTP", "AUDIOCONTROL", "STREAMCONTROL"}
  /\ Devices = {"UART", "DMA", "FILE", "AUDIO", "BCORE", "SDC", "SDIO", "FIFO"}
  /\ Handles = {"UartHDC", "hDma", "hSdc", "hFileList", "hSdio", "hFifo", "PAudio",
                "hFifoA", "hFileA", "hAudioA", "hBcoreA", "hFifoS"}
  /\ BootDevice = "UART" /\ BootHandle = "UartHDC"
  /\ Unbalanced = {"FILE", "FIFO"}
  /\ Blocks # {}
  /\ MaxCommands \in Nat
  /\ NoMemory \subseteq TaskIDs
  /\ NULL \notin {"RK_SUCCESS", "RK_ERROR"}

VARIABLES
  todo,              \* per task, and for the scheduler: what it has to do
  DeviceAskQueue,    \* DEVICE_LIST_SDIO_FIFO is asked for, or not
  DeviceRespQueue,   \* a Status, or NULL
  running,           \* the flag of http.c
  commands,          \* commands typed so far
  wlanUp,            \* wwd_wlan_status.state = WLAN_UP
  wlanInitialised,   \* wiced_wlan_initialised
  linkUp,            \* wiced_sta_link_up
  quitFlag           \* wwd_thread_quit_flag

wlVars == <<wlanUp, wlanInitialised, linkUp, quitFlag>>
pfVars == <<todo, DeviceAskQueue, DeviceRespQueue, running, commands, wlVars>>
vars == <<tmVars, drVars, pfVars>>

----------------------------------------------------------------------------
(* Operations *)

TaskCreate(id) == [op |-> "taskCreate", id |-> id]
TaskDelete(id, mode) == [op |-> "taskDelete", id |-> id, mode |-> mode]
Create(d) == [op |-> "create", dev |-> d]
Created(d, ok) == [op |-> "created", dev |-> d, ok |-> ok]
(* RKDev_Open into v and what the caller does when it returns NULL.        *)
Open(v, onNull) == [op |-> "open", var |-> v, onNull |-> onNull]
(* RKDev_Close of what v holds, if anything; v is set to NULL, or not.     *)
Close(v, clear) == [op |-> "close", var |-> v, clear |-> clear]
Delete(d) == [op |-> "delete", dev |-> d]
Deleted(d) == [op |-> "deleted", dev |-> d]
Answer(status) == [op |-> "answer", status |-> status]
SetRunning(v) == [op |-> "setRunning", val |-> v]
Only(name) == [op |-> name]

(* The device each variable is opened for.                                 *)
DeviceOf(v) == CASE v = "UartHDC" -> "UART" [] v = "hDma" -> "DMA" [] v = "hSdc" -> "SDC"
                 [] v \in {"hFileList", "hFileA"} -> "FILE" [] v = "hSdio" -> "SDIO"
                 [] v \in {"PAudio", "hAudioA"} -> "AUDIO" [] v = "hBcoreA" -> "BCORE"
                 [] v \in {"hFifo", "hFifoA", "hFifoS"} -> "FIFO"

(* DeviceTask: the devices of the boot lists that the others use, then the *)
(* shell, then its loop.                                                   *)
DeviceTask ==
  << Create("DMA"), Create("FILE"), Create("AUDIO"), Create("BCORE"),
     TaskCreate("BCORE"), TaskCreate("SHELL"), Only("listen") >>

(* CreateDeviceList(DEVICE_LIST_SDIO_FIFO) and the answer.                 *)
SdioFifoList ==
  << Open("hDma", "err"), Create("SDC"), Open("hSdc", "err"), Create("SDIO"),
     Open("hFileList", "err"), Close("hFileList", FALSE), Create("FIFO"),
     Answer("RK_SUCCESS") >>

(* DeviceTask_CreateDeviceList, called by another task.                    *)
CreateDeviceList == << Only("askList"), Only("receiveList") >>

(* What SdioDev_Create and SdioDevDeInit ask the task service for.         *)
CreateBody(d) == IF d = "SDIO" THEN << TaskCreate("SDIO_IRQ_TASK") >> ELSE <<>>
\* Mutant of DeleteBody: SdioDevDeInit leaves the interrupt task alone.
DeleteBodyEmpty(d) == <<>>

DeleteBody(d) == IF d = "SDIO" THEN << TaskDelete("SDIO_IRQ_TASK", "SYNC_MODE") >>
                               ELSE <<>>

(* wifi_application_thread: wiced_init and wiced_network_up, then a loop.  *)
(* wwd_management_wifi_on brings up the bus unless the state is WLAN_UP.   *)
WifiApplication == << TaskCreate("TCPIP_THREAD"), Only("wifiOn"), Only("join") >>
BringUp == CreateDeviceList \o
  << Open("hSdio", "again"), Only("busInit"), TaskCreate("WWD"), Only("wlanUp") >>

(* wwd_thread_func: the loop until it is told to quit, the deletion of     *)
(* itself and while(1), as at the end of the HTTP task.                    *)
WWDTask == << Only("poll"), TaskDelete("WWD", "ASYNC_MODE") >>

(* MplayerCtrl_Init, then MplayerCtrl_Play and MplayerCtrl_Stop.           *)
Player ==
  << TaskCreate("AUDIOCONTROL"), TaskCreate("STREAMCONTROL"),
     Open("PAudio", "on"), Only("play") >>

\* Mutant of HTTPTask: the task asks for its own deletion and waits.
HTTPTaskWaits ==
  << Open("hFifo", "quit"), SetRunning(FALSE), Close("hFifo", FALSE),
     TaskDelete("HTTP", "SYNC_MODE") >>

(* GetFile; the transfer itself is in FifoDevice.                          *)
HTTPTask ==
  << Open("hFifo", "quit"), SetRunning(FALSE), Close("hFifo", FALSE),
     TaskDelete("HTTP", "ASYNC_MODE") >>
HTTPQuit == << SetRunning(FALSE), TaskDelete("HTTP", "ASYNC_MODE") >>

(* wifi_del: Http_Close, wiced_deinit.  When Wi-Fi is not initialised,     *)
(* wiced_wlan_connectivity_deinit returns at once.                         *)
WifiDel ==
  << Only("httpClose"), Only("deinit"), TaskDelete("WIFI_APPLICATION", "SYNC_MODE"),
     Only("closeOver") >>

\* Mutant of BusDeinit: the card's controller is not closed.
BusDeinitOpen ==
  << Close("hSdio", TRUE), Delete("SDIO"), Delete("SDC"), Close("hDma", TRUE),
     Answer("RK_SUCCESS") >>

(* host_platform_bus_deinit, and what wwd_management_wifi_off does with    *)
(* its result.                                                             *)
BusDeinit ==
  << Close("hSdio", TRUE), Delete("SDIO"), Close("hSdc", TRUE),
     Delete("SDC"), Close("hDma", TRUE), Answer("RK_SUCCESS") >>

\* Mutant of TaskInitFun: AudioControlTask_Init closes the wrong device.
TaskInitFunWrong(id) ==
  IF id = "AUDIOCONTROL"
  THEN << Open("hFifoA", "hang"), Open("hFileA", "hang"), Open("hAudioA", "hang"),
          Open("hBcoreA", "hang"), Close("hAudioA", FALSE) >>
  ELSE <<>>

(* TaskInitFun and TaskDeInitFun, run by the scheduler; while(1) when a    *)
(* device cannot be opened.  AudioControlTask_Init closes hFileDev and     *)
(* keeps the handle.                                                       *)
TaskInitFun(id) ==
  IF id = "AUDIOCONTROL"
  THEN << Open("hFifoA", "hang"), Open("hFileA", "hang"), Open("hAudioA", "hang"),
          Open("hBcoreA", "hang"), Close("hFileA", FALSE) >>
  ELSE <<>>
TaskDeInitFun(id) ==
  CASE id = "AUDIOCONTROL" -> << Close("hAudioA", TRUE), Close("hFileA", TRUE),
                                 Close("hBcoreA", TRUE), Close("hFifoA", TRUE) >>
    [] id = "STREAMCONTROL" -> << Close("hFifoS", TRUE) >>
    [] OTHER -> <<>>

(* The task functions, and which caller runs as which task.                *)
Runs(id) == CASE id = "SHELL" -> {"shell"} [] id = "WIFI_APPLICATION" -> {"wifi"}
              [] id = "WWD" -> {"wwd"} [] id = "DLNA" -> {"player"} [] id = "HTTP" -> {"http"}
              [] OTHER -> {}
TaskFun(id) == CASE id = "WIFI_APPLICATION" -> WifiApplication [] id = "WWD" -> WWDTask
                 [] id = "DLNA" -> Player [] id = "HTTP" -> HTTPTask [] OTHER -> <<>>

----------------------------------------------------------------------------
Init ==
  /\ TMInit(CHOOSE b \in Blocks : TRUE, "DEVICE_TASK")
  /\ DRInit
  /\ todo = [p \in Procs \cup {Sched} |-> IF p = "device" THEN DeviceTask
                                          ELSE IF p = Sched THEN <<>> ELSE Dormant]
  /\ DeviceAskQueue = FALSE /\ DeviceRespQueue = NULL
  /\ running = FALSE /\ commands = 0
  /\ wlanUp = FALSE /\ wlanInitialised = FALSE /\ linkUp = FALSE /\ quitFlag = FALSE

(* After a block was freed twice or used after it was freed the program    *)
(* goes on, but nothing can be said of it: the model stops.                *)
Ready(p) == ~broken /\ (p # Sched => call[p].pc = "idle")
At(p, name) == Ready(p) /\ todo[p] # <<>> /\ Head(todo[p]).op = name
Now(p) == Head(todo[p])

(* The operation at the head is done and s comes next.                     *)
Then(p, s) == todo' = [todo EXCEPT ![p] = s \o Tail(@)]
Done(p) == Then(p, <<>>)

(* goto err, or return -1: to the answer, which is then RK_ERROR.  None of *)
(* the devices of the boot lists is there before DeviceTask creates it, so *)
(* nothing is refused to it while no answer is due.                        *)
Err(p) ==
  LET s == todo[p] IN
  \E i \in DOMAIN s :
    /\ s[i].op = "answer"
    /\ todo' = [todo EXCEPT ![p] = << Answer("RK_ERROR") >> \o SubSeq(s, i + 1, Len(s))]

OthersAlone == UNCHANGED <<DeviceAskQueue, DeviceRespQueue, running, commands, wlVars>>

Free1 == IF heap = Blocks THEN {} ELSE {CHOOSE b \in Blocks : b \notin heap}

----------------------------------------------------------------------------
(* Calls of the task service *)

CallTaskCreate(p) ==
  /\ At(p, "taskCreate")
  /\ RKTaskCreate(p, Now(p).id, Free1)
  /\ Done(p)
  /\ OthersAlone /\ UNCHANGED drVars

CallTaskDelete(p) ==
  /\ At(p, "taskDelete")
  /\ RKTaskDelete(p, Now(p).id, Now(p).mode)
  /\ Done(p)
  /\ OthersAlone /\ UNCHANGED drVars

CallSends(p) == ~broken /\ AskSend(p) /\ UNCHANGED <<drVars, pfVars>>

CallReceives(p) == ~broken /\ RespReceive(p) /\ UNCHANGED <<drVars, pfVars>>

----------------------------------------------------------------------------
(* Calls of the device registry *)

(* The card may not answer: then SdioDevInit fails before the task of the  *)
(* interrupts is asked for.                                                *)
CallCreate(p) ==
  LET d == Now(p).dev IN
  /\ At(p, "create")
  /\ \/ CreateRefused(d) /\ Err(p)
     \/ CreateBegin(p, d) /\ Then(p, CreateBody(d) \o << Created(d, TRUE) >>)
     \/ d = "SDIO" /\ CreateBegin(p, d) /\ Then(p, << Created(d, FALSE) >>)
  /\ OthersAlone /\ UNCHANGED tmVars

CallCreated(p) ==
  /\ At(p, "created")
  /\ CreateEnd(p, Now(p).ok)
  /\ IF Now(p).ok THEN Done(p) ELSE Err(p)
  /\ OthersAlone /\ UNCHANGED tmVars

CallOpen(p) ==
  LET o == Now(p)
      d == DeviceOf(o.var)
  IN
  /\ At(p, "open")
  /\ DevOpen(d, o.var)
  /\ IF d \in registered \/ o.onNull = "on" THEN Done(p)
     ELSE CASE o.onNull = "again" -> UNCHANGED todo
            [] o.onNull = "err" -> Err(p)
            [] o.onNull = "hang" -> todo' = [todo EXCEPT ![p] = << Only("hang") >>]
            [] o.onNull = "quit" -> todo' = [todo EXCEPT ![p] = HTTPQuit]
  /\ OthersAlone /\ UNCHANGED tmVars

CallClose(p) ==
  /\ At(p, "close")
  /\ IF hdl[Now(p).var] = NULL THEN UNCHANGED drVars
                               ELSE DevClose(Now(p).var, Now(p).clear)
  /\ Done(p)
  /\ OthersAlone /\ UNCHANGED tmVars

CallDelete(p) ==
  LET d == Now(p).dev IN
  /\ At(p, "delete")
  /\ \/ DeleteRefused(d) /\ Err(p)
     \/ DeleteBegin(p, d) /\ Then(p, DeleteBody(d) \o << Deleted(d) >>)
  /\ OthersAlone /\ UNCHANGED tmVars

CallDeleted(p) ==
  /\ At(p, "deleted")
  /\ DeleteEnd(p, TRUE)
  /\ Done(p)
  /\ OthersAlone /\ UNCHANGED tmVars

----------------------------------------------------------------------------
(* DeviceTask_CreateDeviceList and the loop of DeviceTask *)

AskList(p) ==
  /\ At(p, "askList")
  /\ ~DeviceAskQueue
  /\ DeviceAskQueue' = TRUE
  /\ Done(p)
  /\ UNCHANGED <<tmVars, drVars, DeviceRespQueue, running, commands, wlVars>>

ReceiveList(p) ==
  /\ At(p, "receiveList")
  /\ DeviceRespQueue # NULL
  /\ DeviceRespQueue' = NULL
  /\ Done(p)
  /\ UNCHANGED <<tmVars, drVars, DeviceAskQueue, running, commands, wlVars>>

Listen ==
  /\ At("device", "listen")
  /\ DeviceAskQueue
  /\ DeviceAskQueue' = FALSE
  /\ todo' = [todo EXCEPT !["device"] = SdioFifoList \o @]
  /\ UNCHANGED <<tmVars, drVars, DeviceRespQueue, running, commands, wlVars>>

\* Mutant of SendAnswer: an error is not answered.
SendAnswerIfGood(p) ==
  /\ At(p, "answer")
  /\ IF p = "device" /\ Now(p).status = "RK_SUCCESS"
     THEN /\ DeviceRespQueue = NULL /\ DeviceRespQueue' = Now(p).status
          /\ UNCHANGED wlanUp
     ELSE /\ wlanUp' = (wlanUp /\ (p = "device" \/ Now(p).status # "RK_SUCCESS"))
          /\ UNCHANGED DeviceRespQueue
  /\ Done(p)
  /\ UNCHANGED <<tmVars, drVars, DeviceAskQueue, running, commands, wlanInitialised,
                 linkUp, quitFlag>>

(* Only the device manager answers with a message; the shell's is the      *)
(* result of host_platform_bus_deinit.                                     *)
SendAnswer(p) ==
  /\ At(p, "answer")
  /\ IF p = "device"
     THEN /\ DeviceRespQueue = NULL /\ DeviceRespQueue' = Now(p).status
          /\ UNCHANGED wlanUp
     ELSE /\ wlanUp' = (wlanUp /\ Now(p).status # "RK_SUCCESS")
          /\ UNCHANGED DeviceRespQueue
  /\ Done(p)
  /\ UNCHANGED <<tmVars, drVars, DeviceAskQueue, running, commands, wlanInitialised,
                 linkUp, quitFlag>>

----------------------------------------------------------------------------
(* The flag of http.c *)

ChangeRunning(p) ==
  /\ At(p, "setRunning")
  /\ running' = Now(p).val
  /\ Done(p)
  /\ UNCHANGED <<tmVars, drVars, DeviceAskQueue, DeviceRespQueue, commands, wlVars>>

(* MplayerCtrl_Play: after an error play_state is PLAYER_STOPPED, and      *)
(* MplayerCtrl_Stop returns at once.                                       *)
Play ==
  /\ At("player", "play")
  /\ \/ (running \/ ~linkUp) /\ Done("player")
     \/ /\ ~running /\ linkUp
        /\ Then("player", << TaskCreate("HTTP"), SetRunning(TRUE), Only("decStart"),
                             Only("httpClose") >>)
  /\ OthersAlone /\ UNCHANGED <<tmVars, drVars>>

(* AUDIO_CMD_DECSTART, which AudioControlTask_SendCmd holds back until the *)
(* task is on the list; the task passes hFifo on, if it still has it.      *)
DecStart ==
  /\ At("player", "decStart") /\ RKTaskFind("AUDIOCONTROL") # {}
  /\ IF hdl["hFifoA"] = NULL THEN UNCHANGED drVars ELSE DevCopy("hFifoA", "hFifoS")
  /\ Done("player")
  /\ OthersAlone /\ UNCHANGED tmVars

(* MplayerCtrl_Stop before the first frame, or after the last: play_state  *)
(* is PLAYER_STOPPED.                                                      *)
StopIgnored ==
  /\ At("player", "httpClose")
  /\ Done("player")
  /\ OthersAlone /\ UNCHANGED <<tmVars, drVars>>

HttpClose(p) ==
  /\ At(p, "httpClose")
  /\ Then(p, (IF running THEN << TaskDelete("HTTP", "ASYNC_MODE"), Close("hFifo", TRUE) >>
                         ELSE <<>>) \o << SetRunning(FALSE) >>)
  /\ OthersAlone /\ UNCHANGED <<tmVars, drVars>>

----------------------------------------------------------------------------
(* The shell *)

(* Wi-Fi is started when nothing of it is left, also not the WWD task of   *)
(* the last time, which wifi.delete does not wait for; DLNA is started     *)
(* once, and, as in ShellTask.c (1267-1274), with the link up.             *)
Command ==
  LET Does(s) == todo' = [todo EXCEPT !["shell"] = s] IN
  /\ Ready("shell") /\ todo["shell"] = <<>>
  /\ commands < MaxCommands
  /\ commands' = commands + 1
  /\ \/ /\ RKTaskFind("WIFI_APPLICATION") = {} /\ todo["wwd"] = Dormant
        /\ Does(<< TaskCreate("WIFI_APPLICATION"), Only("awaitLink") >>)
     \/ todo["player"] = Dormant /\ linkUp /\ Does(<< TaskCreate("DLNA") >>)
     \/ Does(WifiDel)
     \/ Does(CreateDeviceList)
     \/ Does(<< TaskDelete("AUDIOCONTROL", "SYNC_MODE"),
                TaskDelete("STREAMCONTROL", "SYNC_MODE") >>)
  /\ UNCHANGED <<tmVars, drVars, DeviceAskQueue, DeviceRespQueue, running, wlVars>>

AwaitLink ==
  /\ At("shell", "awaitLink") /\ linkUp
  /\ Done("shell")
  /\ OthersAlone /\ UNCHANGED <<tmVars, drVars>>

(* wiced_wlan_connectivity_deinit: the link goes down, and unless the      *)
(* state is WLAN_DOWN the WWD task is told to quit and the bus is brought  *)
(* down; then lwIP's thread is deleted.  Nobody else looks at              *)
(* wiced_wlan_initialised meanwhile, which is reset at the end.            *)
Deinit ==
  /\ At("shell", "deinit")
  /\ wlanInitialised' = FALSE
  /\ IF wlanInitialised
     THEN /\ linkUp' = FALSE
          /\ quitFlag' = (quitFlag \/ wlanUp)
          /\ Then("shell", (IF wlanUp THEN BusDeinit ELSE <<>>)
                             \o << TaskDelete("TCPIP_THREAD", "SYNC_MODE") >>)
     ELSE UNCHANGED <<linkUp, quitFlag>> /\ Done("shell")
  /\ UNCHANGED <<tmVars, drVars, DeviceAskQueue, DeviceRespQueue, running, commands, wlanUp>>

(* printf("wifi close over\n")                                             *)
CloseOver ==
  /\ At("shell", "closeOver")
  /\ Done("shell")
  /\ OthersAlone /\ UNCHANGED <<tmVars, drVars>>

----------------------------------------------------------------------------
(* The Wi-Fi application task and the WWD task *)

(* tcpip_init has waited for lwIP's thread to run.                         *)
WifiOn ==
  /\ At("wifi", "wifiOn") /\ RKTaskFind("TCPIP_THREAD") # {}
  /\ Then("wifi", IF wlanUp THEN <<>> ELSE BringUp)
  /\ OthersAlone /\ UNCHANGED <<tmVars, drVars>>

(* The rest of host_platform_bus_init and wwd_bus_init.  When they fail,   *)
(* or the chip does not accept what it is told after wwd_thread_init, it   *)
(* will not join a network either.                                         *)
BusInit ==
  /\ At("wifi", "busInit")
  /\ Done("wifi") \/ todo' = [todo EXCEPT !["wifi"] = <<>>]
  /\ OthersAlone /\ UNCHANGED <<tmVars, drVars>>

WlanUp ==
  /\ At("wifi", "wlanUp")
  /\ \/ wlanUp' = TRUE /\ Done("wifi")
     \/ todo' = [todo EXCEPT !["wifi"] = <<>>] /\ UNCHANGED wlanUp
  /\ UNCHANGED <<tmVars, drVars, DeviceAskQueue, DeviceRespQueue, running, commands,
                 wlanInitialised, linkUp, quitFlag>>

\* Mutant of Join: wiced_wlan_initialised is not set.
JoinUninitialised ==
  /\ At("wifi", "join")
  /\ linkUp' \in {linkUp, TRUE}
  /\ Done("wifi")
  /\ UNCHANGED <<tmVars, drVars, DeviceAskQueue, DeviceRespQueue, running, commands,
                 wlanUp, wlanInitialised, quitFlag>>

(* wiced_wlan_initialised is set; wiced_join_ap may find no access point.  *)
Join ==
  /\ At("wifi", "join")
  /\ wlanInitialised' = TRUE
  /\ linkUp' \in {linkUp, TRUE}
  /\ Done("wifi")
  /\ UNCHANGED <<tmVars, drVars, DeviceAskQueue, DeviceRespQueue, running, commands,
                 wlanUp, quitFlag>>

(* The WWD task sees wwd_thread_quit_flag and resets it.                   *)
Poll ==
  /\ At("wwd", "poll") /\ quitFlag
  /\ quitFlag' = FALSE
  /\ Done("wwd")
  /\ UNCHANGED <<tmVars, drVars, DeviceAskQueue, DeviceRespQueue, running, commands,
                 wlanUp, wlanInitialised, linkUp>>

----------------------------------------------------------------------------
(* The scheduler *)

ItemID == TaskClassID[schedItem.TaskHandler]

Receive ==
  /\ ~broken
  /\ SchedReceive
  /\ LET id == TaskClassID[TaskAskQueue.TaskHandler]
     IN todo' = [todo EXCEPT ![Sched] = IF TaskAskQueue.RkTaskEvent = "CREATE"
                                        THEN TaskInitFun(id) ELSE TaskDeInitFun(id)]
  /\ OthersAlone /\ UNCHANGED drVars

(* The task functions begin, or the task is gone.                          *)
TaskStarts ==
  /\ ~broken /\ schedPc = "CREATE" /\ todo[Sched] = <<>>
  /\ TaskCreated
  /\ todo' = [p \in DOMAIN todo |-> IF p \in Runs(ItemID) THEN TaskFun(ItemID) ELSE todo[p]]
  /\ OthersAlone /\ UNCHANGED drVars

TaskFails ==
  /\ ~broken /\ schedPc = "CREATE" /\ todo[Sched] = <<>> /\ ItemID \in NoMemory
  /\ NoKernelTask
  /\ OthersAlone /\ UNCHANGED <<drVars, todo>>

TaskEnds ==
  /\ ~broken /\ schedPc = "DELETE" /\ todo[Sched] = <<>>
  /\ TaskDeleted(Runs(ItemID))
  /\ todo' = [p \in DOMAIN todo |-> IF p \in Runs(ItemID) THEN Dormant ELSE todo[p]]
  /\ OthersAlone /\ UNCHANGED drVars

StaleBlock == ~broken /\ UseAfterFree /\ UNCHANGED <<drVars, pfVars>>

Respond == ~broken /\ SchedRespond /\ UNCHANGED <<drVars, pfVars>>

----------------------------------------------------------------------------
TaskStep(p) ==
  \/ CallTaskCreate(p) \/ CallTaskDelete(p) \/ CallSends(p) \/ CallReceives(p)
  \/ AskList(p) \/ ReceiveList(p) \/ ChangeRunning(p) \/ HttpClose(p)
  \/ CallCreate(p) \/ CallCreated(p) \/ CallDelete(p) \/ CallDeleted(p)
  \/ SendAnswer(p)

DeviceStep(p) == CallOpen(p) \/ CallClose(p)

Step ==
  \/ \E p \in Procs : TaskStep(p)
  \/ \E p \in Procs \cup {Sched} : DeviceStep(p)
  \/ Listen \/ Play \/ DecStart \/ StopIgnored \/ AwaitLink \/ Deinit \/ CloseOver
  \/ WifiOn \/ BusInit \/ WlanUp \/ Join \/ Poll
  \/ Receive \/ TaskStarts \/ TaskFails \/ TaskEnds \/ StaleBlock \/ Respond

Next == Step \/ Command

Spec == Init /\ [][Next]_vars

(* FreeRTOS lets some task go on as long as one can, the ready one of the  *)
(* highest priority; nobody has to type a command.  Between two commands   *)
(* the tasks take finitely many steps, but for those that spin (Spinning), *)
(* so while none spins every step that can be taken is taken.              *)
FairSpec == Spec /\ WF_vars(Step)

----------------------------------------------------------------------------
Ops ==
       [op : {"dormant", "listen", "askList", "receiveList", "play", "decStart", "httpClose",
              "awaitLink", "deinit", "closeOver", "wifiOn", "busInit", "wlanUp", "join",
              "poll", "hang"}]
  \cup [op : {"taskCreate"}, id : TaskIDs]
  \cup [op : {"taskDelete"}, id : TaskIDs, mode : Modes]
  \cup [op : {"create", "delete", "deleted"}, dev : Devices]
  \cup [op : {"created"}, dev : Devices, ok : BOOLEAN]
  \cup [op : {"open"}, var : Handles \ {BootHandle},
        onNull : {"err", "again", "on", "quit", "hang"}]
  \cup [op : {"close"}, var : Handles \ {BootHandle}, clear : {TRUE}]
  \cup [op : {"close"}, var : {v \in Handles : DeviceOf(v) \in Unbalanced}, clear : {FALSE}]
  \cup [op : {"answer"}, status : {"RK_SUCCESS", "RK_ERROR"}]
  \cup [op : {"setRunning"}, val : BOOLEAN]

TypeOK ==
  /\ TMTypeOK /\ DRTypeOK
  /\ todo \in [Procs \cup {Sched} -> Seq(Ops)]
  /\ DeviceAskQueue \in BOOLEAN
  /\ DeviceRespQueue \in {"RK_SUCCESS", "RK_ERROR", NULL}
  /\ running \in BOOLEAN
  /\ commands \in 0 .. MaxCommands
  /\ wlanUp \in BOOLEAN /\ wlanInitialised \in BOOLEAN /\ linkUp \in BOOLEAN
  /\ quitFlag \in BOOLEAN

(* The tasks use the registry as DeviceRegistry expects of its clients:    *)
(* nobody closes a handle that was not opened or has been closed since,    *)
(* but those of the two devices known for it, and creations and deletions  *)
(* of devices come one after the other, whoever is deleted meanwhile.      *)
UsesRegistry == DRSpec

(* The interrupt task of the card lives as long as the card's device: when *)
(* the device is gone and nobody is creating or deleting one, so is the    *)
(* task; and there is never a second one, which would share osSdioIrqSem.  *)
IrqTasks == {b \in listed : TaskClassID[b] = "SDIO_IRQ_TASK"}
IrqTaskWithCard ==
  cause = {} /\ ~broken =>
    /\ Cardinality(IrqTasks) <= 1
    /\ devOp = NULL /\ "SDIO" \notin registered => IrqTasks = {}

(* Who waits for the device manager is answered: as many answers are due   *)
(* as callers are waiting, as long as no task is deleted twice; the second *)
(* delete may hit the task that got the block of the first meanwhile.      *)
WaitingForList == {p \in Procs : todo[p] # <<>> /\ Head(todo[p]).op = "receiveList"}
Listing == \E i \in DOMAIN todo["device"] : todo["device"][i].op = "answer"
ListsDue == "twice" \notin cause =>
  Cardinality(WaitingForList) =
    (IF DeviceAskQueue THEN 1 ELSE 0) + (IF DeviceRespQueue = NULL THEN 0 ELSE 1)
    + (IF Listing THEN 1 ELSE 0)

(* wifi.delete brings Wi-Fi down completely or has nothing to bring down:  *)
(* when it comes to stop lwIP's thread, host_platform_bus_deinit has       *)
(* deleted both devices of the card and the state is WLAN_DOWN; and        *)
(* whichever way it ends, the bus is not left up or open.                  *)
CardReleased == "twice" \notin cause =>
  /\ At("shell", "taskDelete") /\ Now("shell").id = "TCPIP_THREAD" =>
       registered \cap {"SDC", "SDIO"} = {} /\ ~wlanUp
  /\ At("shell", "closeOver") =>
       ~wlanUp /\ hdl["hSdio"] = NULL

(* No task is deleted while it holds osDeviceReqSem or waits for an answer *)
(* of the scheduler, which would block everybody else for good.            *)
DeletedOutside == "twice" \notin cause =>
  /\ "waiter" \notin cause
  /\ devOp # NULL => todo[devOp.who] # Dormant

----------------------------------------------------------------------------
(* Ways in which calls are held up: a task that holds osDeviceReqSem waits *)
(* for the scheduler, which waits for osDeviceReqSem; the scheduler is in  *)
(* a while(1) because a device could not be opened.                        *)
CircularWait ==
  /\ devOp # NULL /\ call[devOp.who].pc # "idle"
  /\ todo[Sched] # <<>> /\ TaskRespQueue = NULL
Hung == At(Sched, "hang")

Busy(p) == call[p].pc # "idle" \/ p \in WaitingForList

(* The third: a task spins without a delay, the Wi-Fi task at RKDev_Open   *)
(* of a card that is not there, the HTTP and the WWD task in while(1)      *)
(* until their deletion is carried out; the priority of each is above the  *)
(* shell's and the player's, which do not run meanwhile.                   *)
Spins(p) == todo[p] = <<>> /\ call[p].pc = "idle"
Spinning ==
  \/ At("wifi", "open") /\ "SDIO" \notin registered
  \/ Spins("http") \/ Spins("wwd")

(* Every call of RKTaskCreate, RKTaskDelete and                            *)
(* DeviceTask_CreateDeviceList returns, unless one of the three happens or *)
(* a task is deleted twice: again and again nobody is inside such a call.  *)
CallsReturn == []<>(CircularWait \/ Hung \/ Spinning \/ broken \/ "twice" \in cause
                    \/ \A p \in Procs : ~Busy(p))

(* wifi.delete comes to its end, printf("wifi close over\n"), unless the   *)
(* scheduler has stopped for want of a device or a call went wrong.        *)
Deleting == \E i \in DOMAIN todo["shell"] : todo["shell"][i].op = "closeOver"
WifiCloseOver == Deleting ~> (~Deleting \/ Hung \/ cause # {})
=============================================================================
