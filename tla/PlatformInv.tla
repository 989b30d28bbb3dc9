----------------------------- MODULE PlatformInv -----------------------------
(***************************************************************************)
(* The inductive invariant of the tasks of Platform: where each task is in *)
(* its program, and what it has asked the two services for at that point.  *)
(***************************************************************************)
EXTENDS Platform, Integers

(* What a task does next.                                                  *)
Nothing == [op |-> "nothing"]
Doing(p) == IF todo[p] = <<>> THEN Nothing ELSE Head(todo[p])

(* The operations each task has.                                           *)
DeviceOps ==
       [op : {"create"}, dev : {"DMA", "FILE", "AUDIO", "BCORE", "SDC", "SDIO", "FIFO"}]
  \cup [op : {"created"}, dev : {"DMA", "FILE", "AUDIO", "BCORE", "SDC", "SDIO", "FIFO"},
        ok : BOOLEAN]
  \cup [op : {"taskCreate"}, id : {"BCORE", "SHELL", "SDIO_IRQ_TASK"}]
  \cup [op : {"open"}, var : {"hDma", "hSdc", "hFileList"}, onNull : {"err"}]
  \cup [op : {"close"}, var : {"hFileList"}, clear : {FALSE}]
  \cup [op : {"answer"}, status : {"RK_SUCCESS", "RK_ERROR"}]
  \cup [op : {"listen"}]
ShellOps ==
       [op : {"dormant", "awaitLink", "askList", "receiveList", "httpClose", "deinit",
              "closeOver"}]
  \cup [op : {"taskCreate"}, id : {"WIFI_APPLICATION", "DLNA"}]
  \cup [op : {"taskDelete"}, mode : {"SYNC_MODE"},
        id : {"AUDIOCONTROL", "STREAMCONTROL", "SDIO_IRQ_TASK", "TCPIP_THREAD",
              "WIFI_APPLICATION"}]
  \cup [op : {"taskDelete"}, mode : {"ASYNC_MODE"}, id : {"HTTP"}]
  \cup [op : {"delete", "deleted"}, dev : {"SDC", "SDIO"}]
  \cup [op : {"close"}, var : {"hFifo", "hSdio", "hSdc", "hDma"}, clear : {TRUE}]
  \cup [op : {"answer"}, status : {"RK_SUCCESS", "RK_ERROR"}]
  \cup [op : {"setRunning"}, val : {FALSE}]
WifiOps ==
       [op : {"dormant", "wifiOn", "askList", "receiveList", "busInit", "wlanUp", "join"}]
  \cup [op : {"taskCreate"}, id : {"TCPIP_THREAD", "WWD"}]
  \cup [op : {"open"}, var : {"hSdio"}, onNull : {"again"}]
WwdOps ==
       [op : {"dormant", "poll"}]
  \cup [op : {"taskDelete"}, mode : {"ASYNC_MODE"}, id : {"WWD"}]
HttpOps ==
       [op : {"dormant"}]
  \cup [op : {"taskDelete"}, mode : {"ASYNC_MODE"}, id : {"HTTP"}]
  \cup [op : {"open"}, var : {"hFifo"}, onNull : {"quit"}]
  \cup [op : {"close"}, var : {"hFifo"}, clear : {FALSE}]
  \cup [op : {"setRunning"}, val : {FALSE}]
PlayerOps ==
       [op : {"dormant", "play", "decStart", "httpClose"}]
  \cup [op : {"taskCreate"}, id : {"AUDIOCONTROL", "STREAMCONTROL", "HTTP"}]
  \cup [op : {"taskDelete"}, mode : {"ASYNC_MODE"}, id : {"HTTP"}]
  \cup [op : {"open"}, var : {"PAudio"}, onNull : {"on"}]
  \cup [op : {"close"}, var : {"hFifo"}, clear : {TRUE}]
  \cup [op : {"setRunning"}, val : BOOLEAN]
SchedOps ==
       [op : {"hang"}]
  \cup [op : {"open"}, var : {"hFifoA", "hFileA", "hAudioA", "hBcoreA"}, onNull : {"hang"}]
  \cup [op : {"close"}, var : {"hFileA"}, clear : {FALSE}]
  \cup [op : {"close"}, var : {"hFifoA", "hFileA", "hAudioA", "hBcoreA", "hFifoS"},
        clear : {TRUE}]
OpsOf(p) == CASE p = "device" -> DeviceOps [] p = "shell" -> ShellOps [] p = "wifi" -> WifiOps
              [] p = "wwd" -> WwdOps [] p = "http" -> HttpOps [] p = "player" -> PlayerOps [] p = Sched -> SchedOps

(* What follows an operation in the programs of the device manager, of the *)
(* shell and of the Wi-Fi task: always the same.                           *)
AfterCreate(d) ==
  CASE d = "DMA" -> Create("FILE") [] d = "FILE" -> Create("AUDIO")
    [] d = "AUDIO" -> Create("BCORE") [] d = "BCORE" -> TaskCreate("BCORE")
    [] d = "SDC" -> Open("hSdc", "err") [] d = "SDIO" -> Open("hFileList", "err")
    [] d = "FIFO" -> Answer("RK_SUCCESS")
FollowDevice(o) ==
  CASE o.op \in {"create", "created"} -> AfterCreate(o.dev)
    [] o.op = "taskCreate" -> (CASE o.id = "BCORE" -> TaskCreate("SHELL")
                                 [] o.id = "SHELL" -> Only("listen")
                                 [] o.id = "SDIO_IRQ_TASK" -> Created("SDIO", TRUE))
    [] o.op = "open" -> (CASE o.var = "hDma" -> Create("SDC") [] o.var = "hSdc" -> Create("SDIO")
                           [] o.var = "hFileList" -> Close("hFileList", FALSE))
    [] o.op = "close" -> Create("FIFO")
    [] o.op = "answer" -> Only("listen")
    [] o.op = "listen" -> Nothing
FollowShell(o) ==
  CASE o.op = "taskCreate" -> IF o.id = "DLNA" THEN Nothing ELSE Only("awaitLink")
    [] o.op = "taskDelete" ->
         (CASE o.id = "AUDIOCONTROL" -> TaskDelete("STREAMCONTROL", "SYNC_MODE")
            [] o.id = "STREAMCONTROL" -> Nothing
            [] o.id = "HTTP" -> Close("hFifo", TRUE)
            [] o.id = "SDIO_IRQ_TASK" -> Deleted("SDIO")
            [] o.id = "TCPIP_THREAD" -> TaskDelete("WIFI_APPLICATION", "SYNC_MODE")
            [] o.id = "WIFI_APPLICATION" -> Only("closeOver"))
    [] o.op = "close" -> (CASE o.var = "hFifo" -> SetRunning(FALSE) [] o.var = "hSdio" -> Delete("SDIO")
                            [] o.var = "hSdc" -> Delete("SDC")
                            [] o.var = "hDma" -> Answer("RK_SUCCESS"))
    [] o.op \in {"httpClose", "setRunning"} -> Only("deinit")
    [] o.op = "deinit" -> TaskDelete("WIFI_APPLICATION", "SYNC_MODE")
    [] o.op \in {"delete", "deleted"} ->
         IF o.dev = "SDIO" THEN Close("hSdc", TRUE) ELSE Close("hDma", TRUE)
    [] o.op = "answer" -> TaskDelete("TCPIP_THREAD", "SYNC_MODE")
    [] o.op = "askList" -> Only("receiveList")
    [] o.op \in {"dormant", "awaitLink", "receiveList", "closeOver"} -> Nothing
FollowWifi(o) ==
  CASE o.op = "taskCreate" -> IF o.id = "WWD" THEN Only("wlanUp") ELSE Only("wifiOn")
    [] o.op = "askList" -> Only("receiveList")
    [] o.op = "receiveList" -> Open("hSdio", "again")
    [] o.op = "open" -> Only("busInit")
    [] o.op = "busInit" -> TaskCreate("WWD")
    [] o.op \in {"wifiOn", "wlanUp"} -> Only("join")
    [] o.op \in {"dormant", "join"} -> Nothing
Follow(p, o) == CASE p = "device" -> FollowDevice(o) [] p = "shell" -> FollowShell(o)
                  [] p = "wifi" -> FollowWifi(o)

Scripted == {"device", "shell", "wifi"}
Script(p, t) ==
  \A i \in 1 .. Len(t) : (IF i = Len(t) THEN Nothing ELSE t[i + 1]) = Follow(p, t[i])

(* Operations of the device manager's work on the card's list.             *)
AtList(o) ==
  \/ o.op \in {"open", "close", "answer"}
  \/ o.op \in {"create", "created"} /\ o.dev \in {"SDC", "SDIO", "FIFO"}
  \/ o.op = "taskCreate" /\ o.id = "SDIO_IRQ_TASK"

\* Every task has only its own operations to do, and three of them in a fixed order;
\* the device manager owes an answer as long as it is at work on the list.
Ordered ==
  /\ \A p \in Procs \cup {Sched} : todo[p] \in Seq(OpsOf(p))
  /\ \A p \in Scripted : Script(p, todo[p])
Scripts == Ordered /\ (Listing <=> AtList(Doing("device")))

(* How far wifi.delete is when the shell does o: 0, it does something else.*)
(* From 2 to 6 the bus is brought down, at 7 it is down.                   *)
Stage(o) ==
  CASE o.op \in {"httpClose", "setRunning", "deinit"} -> 1
    [] o.op = "close" /\ o.var = "hFifo" -> 1
    [] o.op = "taskDelete" /\ o.id = "HTTP" -> 1
    [] o.op = "close" /\ o.var = "hSdio" -> 2
    [] o.op = "delete" /\ o.dev = "SDIO" -> 3
    [] o.op = "taskDelete" /\ o.id = "SDIO_IRQ_TASK" -> 4
    [] o.op = "deleted" /\ o.dev = "SDIO" -> 4
    [] o.op = "close" /\ o.var = "hSdc" -> 4
    [] o.op = "delete" /\ o.dev = "SDC" -> 5
    [] o.op = "deleted" /\ o.dev = "SDC" -> 6
    [] o.op = "close" /\ o.var = "hDma" -> 6
    [] o.op = "answer" -> 6
    [] o.op = "taskDelete" /\ o.id = "TCPIP_THREAD" -> 7
    [] o.op = "taskDelete" /\ o.id = "WIFI_APPLICATION" -> 8
    [] o.op = "closeOver" -> 8
    [] OTHER -> 0

(* A request of caller p, or of one that does not wait (NULL), about block *)
(* b, that the scheduler has not carried out.                              *)
AsksItem(it, e, b, p) == it # NULL /\ it.RkTaskEvent = e /\ it.TaskHandler = b /\ it.who = p
AsksCall(e, b, p) ==
  /\ p \in Procs /\ call[p].pc = "ask"
  /\ call[p].RkTaskEvent = e /\ call[p].TaskHandler = b
Asks(e, b, p) ==
  AsksCall(e, b, p) \/ AsksItem(TaskAskQueue, e, b, p) \/ AsksItem(schedItem, e, b, p)
Creates(b, p, id) == Asks("CREATE", b, p) /\ TaskClassID[b] = id

(* Who creates and deletes which task, and where in its program it is then.*)
CreateFits(p, id) ==
  \/ /\ p = "device" /\ id \in {"BCORE", "SHELL", "SDIO_IRQ_TASK"}
     /\ Doing("device") = FollowDevice(TaskCreate(id))
  \/ /\ p = "shell" /\ id \in {"WIFI_APPLICATION", "DLNA"}
     /\ Doing("shell") = FollowShell(TaskCreate(id))
  \/ /\ p = "wifi" /\ id \in {"TCPIP_THREAD", "WWD"}
     /\ Doing("wifi") = FollowWifi(TaskCreate(id))
  \/ p = "player" /\ id \in {"AUDIOCONTROL", "STREAMCONTROL", "HTTP"}
DeleteFits(p, id) ==
  \/ id \in {"HTTP", "WWD"}
  \/ /\ p = "shell"
     /\ id \in {"AUDIOCONTROL", "STREAMCONTROL", "SDIO_IRQ_TASK", "TCPIP_THREAD",
               "WIFI_APPLICATION"}
     /\ Doing("shell") = FollowShell(TaskDelete(id, "SYNC_MODE"))

RequestInv ==
  \A b \in Blocks, p \in Procs \cup {NULL} :
    /\ Asks("CREATE", b, p) => CreateFits(p, TaskClassID[b])
    /\ Asks("DELETE", b, p) => DeleteFits(p, TaskClassID[b])

\* The HTTP and the WWD task ask for nothing but their own deletion, and only such a
\* deletion, which others ask for as well, is asynchronous; while the Wi-Fi task is in a
\* call it is bringing Wi-Fi up.
CallInv ==
  /\ \A p \in Procs : call[p].pc = "ask" /\ call[p].RkTaskEvent = "DELETE" =>
       (call[p].Mode = "ASYNC_MODE" <=> TaskClassID[call[p].TaskHandler] \in {"HTTP", "WWD"})
  /\ call["wifi"].pc = "idle" \/ Doing("wifi").op \in {"wifiOn", "wlanUp"}
  /\ \A p \in {"http", "wwd"} :
       call[p].pc = "idle" \/ (call[p].pc = "ask" /\ call[p].RkTaskEvent = "DELETE")

\* One Wi-Fi task at most; when it is not on the list it has not begun or is gone.
WifiInv ==
  LET wifi == RKTaskFind("WIFI_APPLICATION")
      creating == \/ Doing("shell").op = "taskCreate" /\ Doing("shell").id = "WIFI_APPLICATION"
                  \/ \E b \in Blocks : Creates(b, "shell", "WIFI_APPLICATION")
  IN
  /\ \A b, c \in wifi : b = c
  /\ creating => wifi = {}
  /\ wifi = {} => Doing("wifi").op = "dormant"
  /\ Stage(Doing("shell")) > 0 => Doing("wifi").op \in {"nothing", "dormant"}
  /\ Doing("shell").op = "closeOver" => \A b \in wifi : Asks("DELETE", b, "shell")

(* The Wi-Fi task has opened the card and is bringing up the bus.          *)
OnBus(o) ==
  o.op \in {"busInit", "wlanUp", "join"} \/ (o.op = "taskCreate" /\ o.id = "WWD")

\* Wi-Fi is initialised when the Wi-Fi task has come through its program, up to the deinit
\* of wifi.delete, and only then has it a link; the shell waits while it is not.  The bus
\* is brought down without an error.
WlanInv ==
  LET wifi == Doing("wifi")
      shell == Doing("shell")
  IN
  /\ wlanInitialised =>
       wlanUp /\ hdl["hSdio"] # NULL /\ wifi.op = "nothing" /\ Stage(shell) < 2
  /\ linkUp => wlanInitialised
  /\ wlanUp => wlanInitialised \/ wifi.op = "join" \/ Stage(shell) \in 2 .. 6
  /\ wifi.op = "join" => wlanUp
  /\ wifi.op # "dormant" => wlanInitialised \/ shell.op = "awaitLink" \/ Stage(shell) >= 2
  /\ OnBus(wifi) => hdl["hSdio"] # NULL
  /\ hdl["hSdio"] # NULL => OnBus(wifi) \/ wifi.op = "nothing"
  /\ shell.op = "answer" => shell.status = "RK_SUCCESS"

\* The shell begins once; the device manager's task stays the first of the list.
Booting(o) ==
  \/ o.op \in {"create", "created"} /\ o.dev \in {"DMA", "FILE", "AUDIO", "BCORE"}
  \/ o.op = "taskCreate" /\ o.id \in {"BCORE", "SHELL"}
BootInv ==
  /\ Booting(Doing("device")) \/ (\E b \in Blocks : Creates(b, "device", "SHELL")) =>
       Doing("shell").op = "dormant"
  /\ TaskListHead \in listed /\ TaskClassID[TaskListHead] = "DEVICE_TASK"

(* A device is being created by the device manager, deleted by the shell.  *)
Creating(o, d) ==
  \/ o.op = "created" /\ o.dev = d
  \/ o.op = "taskCreate" /\ o.id = "SDIO_IRQ_TASK" /\ d = "SDIO"
Removing(o, d) ==
  \/ o.op = "deleted" /\ o.dev = d
  \/ o.op = "taskDelete" /\ o.id = "SDIO_IRQ_TASK" /\ d = "SDIO"
AtCard(o) == (o.op = "create" /\ o.dev = "SDIO") \/ Creating(o, "SDIO")

\* osDeviceReqSem is held by whoever is between the two ends of a create or a delete.
DevOpInv ==
  /\ \A d \in Devices : Creating(Doing("device"), d) =>
       devOp = [op |-> "create", who |-> "device", dev |-> d]
  /\ \A d \in Devices : Removing(Doing("shell"), d) =>
       devOp = [op |-> "delete", who |-> "shell", dev |-> d]
  /\ devOp # NULL => Creating(Doing("device"), devOp.dev) \/ Removing(Doing("shell"), devOp.dev)

\* The interrupt task is created and deleted inside the creation and deletion of the card.
IrqInv ==
  LET irq == RKTaskFind("SDIO_IRQ_TASK")
      o == Doing("device")
  IN
  /\ \A b, c \in irq : b = c
  /\ "SDIO" \notin registered =>
       irq = {} \/ Creating(o, "SDIO") \/ Removing(Doing("shell"), "SDIO")
  /\ \/ o.op = "taskCreate" /\ o.id = "SDIO_IRQ_TASK"
     \/ o.op = "created" /\ o.dev = "SDIO" /\ ~o.ok
     \/ \E b \in Blocks : Creates(b, "device", "SDIO_IRQ_TASK")
     => irq = {}
  /\ Doing("shell").op = "deleted" /\ Doing("shell").dev = "SDIO" =>
       \A b \in irq : Asks("DELETE", b, "shell")

\* Each device of the card has one variable, and wifi.delete empties it first; the card is
\* there only while its controller is open.
CardInv ==
  LET stage == Stage(Doing("shell"))
      o == Doing("device")
  IN
  /\ Cnt["SDIO"] <= 1 /\ (hdl["hSdio"] = NULL => Cnt["SDIO"] = 0)
  /\ Cnt["SDC"] <= 1 /\ (hdl["hSdc"] = NULL => Cnt["SDC"] = 0)
  /\ Creating(o, "SDC") \/ (o.op = "open" /\ o.var = "hSdc") =>
       hdl["hSdc"] = NULL
  /\ "SDIO" \in registered \/ AtCard(o) => hdl["hSdc"] # NULL
  /\ stage \in 2 .. 3 => "SDIO" \in registered
  /\ stage \in 2 .. 5 => "SDC" \in registered
  /\ stage >= 3 => hdl["hSdio"] = NULL
  /\ stage \in 4 .. 7 => "SDIO" \notin registered
  /\ stage \in 5 .. 7 => hdl["hSdc"] = NULL
  /\ stage \in 6 .. 7 => "SDC" \notin registered

(* No caller took another's answer, no task was deleted twice at once, and *)
(* FreeRTOS had memory for every task.                                     *)
Orderly == cause \cap {"crossed", "twice", "noTask"} = {}

RunInv ==
  /\ RequestInv /\ CallInv /\ WifiInv /\ WlanInv /\ BootInv
  /\ DevOpInv /\ IrqInv /\ CardInv /\ ListsDue

(* IInv: until one of these happens no other cause does, and every task is *)
(* where its requests say.                                                 *)
IInv == Scripts /\ (Orderly => cause = {} /\ RunInv)
=============================================================================
