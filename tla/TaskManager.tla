----------------------------- MODULE TaskManager -----------------------------
(***************************************************************************)
(* The task service of OS/Plugin/TaskPlugin.c: tasks are created and       *)
(* deleted by one scheduler task, OSSchedulerTask, that takes requests     *)
(* from TaskAskQueue and puts answers into TaskRespQueue.  Both queues     *)
(* hold one item and are shared by all callers, and an answer does not say *)
(* for whom it is.                                                         *)
(*                                                                         *)
(* A block is a RK_TASK_CLASS from the heap.  The linked list is its head  *)
(* and the set of the blocks on it: nothing depends on the order of the    *)
(* others, except which of two tasks with one TaskClassID is found.        *)
(***************************************************************************)
EXTENDS Naturals, FiniteSets

CONSTANTS
  Procs,     \* tasks that call the service
  TaskIDs,   \* TaskClassID values; TaskObjectID is 0 in every call
  Blocks,    \* heap blocks that can hold a RK_TASK_CLASS
  NULL

VARIABLES
  TaskListHead, listed,   \* the list: its first block and all its blocks
  TaskClassID,            \* per block, also after it was freed
  heap,                   \* blocks allocated
  hTask,                  \* blocks whose FreeRTOS task exists
  TaskAskQueue,           \* an item or NULL
  TaskRespQueue,          \* an item or NULL
  schedPc, schedItem,     \* OSSchedulerTask and its TempTaskQueueItem
  call,                   \* per caller: where RKTaskCreate or RKTaskDelete is
  broken,                 \* history: a block was freed twice or used after free
  cause                   \* history: what may lead to that

tmVars == <<TaskListHead, listed, TaskClassID, heap, hTask, TaskAskQueue,
            TaskRespQueue, schedPc, schedItem, call, broken, cause>>

----------------------------------------------------------------------------
Modes == {"SYNC_MODE", "ASYNC_MODE"}
Requests == {"CREATE", "DELETE"}
Answers == {"CREATE_SUCCESS", "CREATE_FAIL", "DELETE_SUCCESS", "DELETE_FAIL"}

(* RK_TASK_QUEUE_ITEM; who is a history field, the caller that waits for   *)
(* the answer.                                                             *)
Item == [TaskHandler : Blocks, RkTaskEvent : Requests \cup Answers,
         who : Procs \cup {NULL}]

ASSUME TaskAssumption ==
  /\ NULL \notin Blocks \cup Procs \cup TaskIDs \cup Item
  /\ IsFiniteSet(Procs)

Call == [pc : {"idle", "ask", "wait"}, RkTaskEvent : Requests,
         TaskHandler : Blocks \cup {NULL}, Mode : Modes]

Idle == [pc |-> "idle", RkTaskEvent |-> "CREATE", TaskHandler |-> NULL,
         Mode |-> "SYNC_MODE"]

(* The call ends; no caller in Platform looks at what it returns.          *)
Returns(p) == call' = [call EXCEPT ![p] = Idle]

Waiting == {p \in Procs : call[p].pc = "wait"}

InQueues == {TaskAskQueue, schedItem, TaskRespQueue} \ {NULL}

(* A delete of block b that was asked for and not carried out yet.         *)
BeingDeleted(b) ==
  \/ \E p \in Procs : /\ call[p].pc = "ask"
                      /\ call[p].RkTaskEvent = "DELETE"
                      /\ call[p].TaskHandler = b
  \/ \E it \in InQueues : it.RkTaskEvent = "DELETE" /\ it.TaskHandler = b

(* rkos_memory_free(b).  Freeing it twice, or while the list or a request  *)
(* not carried out refers to it, ends what the model can say.              *)
Free(b) ==
  /\ heap' = heap \ {b}
  /\ broken' = \/ b \notin heap
               \/ b \in listed'
               \/ BeingDeleted(b)
               \/ \E it \in InQueues : it.RkTaskEvent = "CREATE" /\ it.TaskHandler = b

----------------------------------------------------------------------------
(* After OSSchedulerTask created the device manager's task, before any     *)
(* other task runs: its block is the scheduler's local NewTaskClassHandle, *)
(* which stays valid because the scheduler never returns.                  *)
TMInit(first, id) ==
  /\ TaskListHead = first /\ listed = {first} /\ heap = {first} /\ hTask = {first}
  /\ TaskClassID = [b \in Blocks |-> IF b = first THEN id ELSE NULL]
  /\ TaskAskQueue = NULL /\ TaskRespQueue = NULL
  /\ schedPc = "receive" /\ schedItem = NULL
  /\ call = [p \in Procs |-> Idle]
  /\ broken = FALSE /\ cause = {}

(* RKTaskCreate up to the send: malloc, which gives one of the blocks in   *)
(* free if there is one, and copy of the class's entry.                    *)
RKTaskCreate(p, id, free) ==
  /\ call[p].pc = "idle"
  /\ \/ \E b \in free :
          /\ heap' = heap \cup {b}
          /\ TaskClassID' = [TaskClassID EXCEPT ![b] = id]
          /\ call' = [call EXCEPT ![p] = [Idle EXCEPT !.pc = "ask", !.TaskHandler = b]]
     \/ /\ free = {}
        /\ Returns(p)
        /\ UNCHANGED <<heap, TaskClassID>>
  /\ UNCHANGED <<TaskListHead, listed, hTask, TaskAskQueue, TaskRespQueue,
                 schedPc, schedItem, broken, cause>>

(* RKTaskFind, run by the caller: the block it returns.                    *)
RKTaskFind(id) == {b \in listed : TaskClassID[b] = id}

(* RKTaskDelete up to the send.  The block found is used by the scheduler  *)
(* later; nothing stops a second caller from finding it meanwhile.         *)
RKTaskDelete(p, id, mode) ==
  /\ call[p].pc = "idle"
  /\ \/ \E b \in RKTaskFind(id) :
          /\ call' = [call EXCEPT ![p] = [pc |-> "ask", RkTaskEvent |-> "DELETE",
                                             TaskHandler |-> b, Mode |-> mode]]
          /\ cause' = IF BeingDeleted(b) THEN cause \cup {"twice"} ELSE cause
     \/ /\ RKTaskFind(id) = {}
        /\ Returns(p)
        /\ UNCHANGED cause
  /\ UNCHANGED <<TaskListHead, listed, TaskClassID, heap, hTask, TaskAskQueue,
                 TaskRespQueue, schedPc, schedItem, broken>>

\* Mutant of AskSend: an asynchronous delete is answered as well.
AskSendAnswered(p) ==
  LET async == call[p].RkTaskEvent = "DELETE" /\ call[p].Mode = "ASYNC_MODE" IN
  /\ call[p].pc = "ask"
  /\ TaskAskQueue = NULL
  /\ TaskAskQueue' = [TaskHandler |-> call[p].TaskHandler,
                      RkTaskEvent |-> call[p].RkTaskEvent, who |-> p]
  /\ IF async THEN Returns(p) ELSE call' = [call EXCEPT ![p].pc = "wait"]
  /\ UNCHANGED <<TaskListHead, listed, TaskClassID, heap, hTask, TaskRespQueue,
                 schedPc, schedItem, broken, cause>>

(* rkos_queue_send(TaskAskQueue): blocks while the queue is full.  Only an *)
(* asynchronous delete does not wait for an answer.                        *)
AskSend(p) ==
  LET async == call[p].RkTaskEvent = "DELETE" /\ call[p].Mode = "ASYNC_MODE" IN
  /\ call[p].pc = "ask"
  /\ TaskAskQueue = NULL
  /\ TaskAskQueue' = [TaskHandler |-> call[p].TaskHandler,
                      RkTaskEvent |-> call[p].RkTaskEvent,
                      who |-> IF async THEN NULL ELSE p]
  /\ IF async THEN Returns(p)
              ELSE call' = [call EXCEPT ![p].pc = "wait"]
  /\ UNCHANGED <<TaskListHead, listed, TaskClassID, heap, hTask, TaskRespQueue,
                 schedPc, schedItem, broken, cause>>

(* rkos_queue_receive(TaskRespQueue) and what follows: any waiting caller  *)
(* may take the answer that is there (FreeRTOS serves them by priority).   *)
(* A caller of RKTaskCreate that reads anything but CREATE_SUCCESS frees   *)
(* its own block.                                                          *)
RespReceive(p) ==
  LET it == TaskRespQueue
      success == it.RkTaskEvent = IF call[p].RkTaskEvent = "CREATE"
                                  THEN "CREATE_SUCCESS" ELSE "DELETE_SUCCESS"
  IN
  /\ call[p].pc = "wait"
  /\ TaskRespQueue # NULL
  /\ TaskRespQueue' = NULL
  /\ cause' = IF it.who = p THEN cause ELSE cause \cup {"crossed"}
  /\ Returns(p)
  /\ UNCHANGED listed
  /\ IF call[p].RkTaskEvent = "CREATE" /\ ~success
     THEN Free(call[p].TaskHandler)
     ELSE UNCHANGED <<heap, broken>>
  /\ UNCHANGED <<TaskListHead, TaskClassID, hTask, TaskAskQueue, schedPc, schedItem>>

----------------------------------------------------------------------------
(* OSSchedulerTask *)

\* Mutant of SchedReceive: the request stays in the queue.
SchedReceivePeeks ==
  /\ schedPc = "receive"
  /\ TaskAskQueue # NULL
  /\ schedItem' = TaskAskQueue
  /\ UNCHANGED TaskAskQueue
  /\ schedPc' = TaskAskQueue.RkTaskEvent
  /\ UNCHANGED <<TaskListHead, listed, TaskClassID, heap, hTask, TaskRespQueue,
                 call, broken, cause>>

SchedReceive ==
  /\ schedPc = "receive"
  /\ TaskAskQueue # NULL
  /\ schedItem' = TaskAskQueue
  /\ TaskAskQueue' = NULL
  /\ schedPc' = TaskAskQueue.RkTaskEvent
  /\ UNCHANGED <<TaskListHead, listed, TaskClassID, heap, hTask, TaskRespQueue,
                 call, broken, cause>>

RKTaskRegister(b) ==
  /\ TaskListHead' = IF TaskListHead = NULL THEN b ELSE TaskListHead
  /\ listed' = listed \cup {b}

\* Mutant of RKTaskUnRegister: the block stays on the list.
RKTaskUnRegisterNothing(b) == UNCHANGED <<TaskListHead, listed>>

(* Unregistering the first block sets the head to NULL, which loses the    *)
(* rest of the list.                                                       *)
RKTaskUnRegister(b) ==
  /\ TaskListHead' = IF b = TaskListHead THEN NULL ELSE TaskListHead
  /\ listed' = IF b = TaskListHead THEN {} ELSE listed \ {b}

AnswerWith(e) == schedItem' = [schedItem EXCEPT !.RkTaskEvent = e]

(* RKTaskCreateOperating: TaskInitFun fails; or the FreeRTOS task is       *)
(* created and registered.                                                 *)
InitFails ==
  /\ schedPc = "CREATE"
  /\ schedItem.TaskHandler \in heap
  /\ AnswerWith("CREATE_FAIL")
  /\ schedPc' = "respond"
  /\ UNCHANGED <<TaskListHead, listed, TaskClassID, heap, hTask, TaskAskQueue,
                 TaskRespQueue, call, broken, cause>>

TaskCreated ==
  /\ schedPc = "CREATE"
  /\ schedItem.TaskHandler \in heap
  /\ hTask' = hTask \cup {schedItem.TaskHandler}
  /\ RKTaskRegister(schedItem.TaskHandler)
  /\ AnswerWith("CREATE_SUCCESS")
  /\ schedPc' = "respond"
  /\ UNCHANGED <<TaskClassID, heap, TaskAskQueue, TaskRespQueue, call, broken, cause>>

(* rkos_task_create has no memory for the stack: the block is freed here   *)
(* and, when the caller reads CREATE_FAIL, again there.                    *)
NoKernelTask ==
  /\ schedPc = "CREATE"
  /\ schedItem.TaskHandler \in heap
  /\ heap' = heap \ {schedItem.TaskHandler}
  /\ cause' = cause \cup {"noTask"}
  /\ AnswerWith("CREATE_FAIL")
  /\ schedPc' = "respond"
  /\ UNCHANGED <<TaskListHead, listed, TaskClassID, hTask, TaskAskQueue,
                 TaskRespQueue, call, broken>>

\* Mutant of TaskDeleted: no request to delete is answered.
TaskDeletedSilent(killed) ==
  LET b == schedItem.TaskHandler IN
  /\ schedPc = "DELETE"
  /\ b \in heap /\ b \in hTask
  /\ hTask' = hTask \ {b}
  /\ RKTaskUnRegister(b)
  /\ heap' = heap \ {b}
  /\ call' = [p \in Procs |-> IF p \in killed THEN Idle ELSE call[p]]
  /\ schedItem' = NULL
  /\ schedPc' = "receive"
  /\ UNCHANGED <<TaskClassID, TaskAskQueue, TaskRespQueue, broken, cause>>

(* RKTaskDeleteOperating, and the answer if the request was synchronous.   *)
(* The function has no return statement: what OSSchedulerTask compares     *)
(* with RK_SUCCESS is undefined.  killed is the caller that ran as the     *)
(* deleted task, if one did: its call ends wherever it is.                 *)
TaskDeleted(killed) ==
  LET b == schedItem.TaskHandler IN
  /\ schedPc = "DELETE"
  /\ b \in heap /\ b \in hTask
  /\ hTask' = hTask \ {b}
  /\ RKTaskUnRegister(b)
  /\ heap' = heap \ {b}
  /\ call' = [p \in Procs |-> IF p \in killed THEN Idle ELSE call[p]]
  /\ cause' = cause \cup (IF b = TaskListHead THEN {"head"} ELSE {})
                   \cup (IF killed \cap Waiting = {} THEN {} ELSE {"waiter"})
  /\ \/ /\ schedItem.who # NULL
        /\ \E e \in {"DELETE_SUCCESS", "DELETE_FAIL"} : AnswerWith(e)
        /\ schedPc' = "respond"
     \/ /\ schedItem.who = NULL
        /\ schedItem' = NULL
        /\ schedPc' = "receive"
  /\ UNCHANGED <<TaskClassID, TaskAskQueue, TaskRespQueue, broken>>

(* The block of the request was freed meanwhile, or its task is gone.      *)
UseAfterFree ==
  /\ \/ schedPc = "CREATE" /\ schedItem.TaskHandler \notin heap
     \/ schedPc = "DELETE" /\ schedItem.TaskHandler \notin heap \cap hTask
  /\ broken' = TRUE
  /\ UNCHANGED <<TaskListHead, listed, TaskClassID, heap, hTask, TaskAskQueue,
                 TaskRespQueue, schedPc, schedItem, call, cause>>

SchedRespond ==
  /\ schedPc = "respond"
  /\ TaskRespQueue = NULL
  /\ TaskRespQueue' = schedItem
  /\ schedItem' = NULL
  /\ schedPc' = "receive"
  /\ UNCHANGED <<TaskListHead, listed, TaskClassID, heap, hTask, TaskAskQueue,
                 call, broken, cause>>

----------------------------------------------------------------------------
(* Any callers, asking for anything at any time. *)

Caller(p) ==
  \/ \E id \in TaskIDs : RKTaskCreate(p, id, Blocks \ heap)
  \/ \E id \in TaskIDs, m \in Modes : RKTaskDelete(p, id, m)
  \/ AskSend(p)
  \/ RespReceive(p)

Scheduler ==
  \/ SchedReceive \/ InitFails \/ TaskCreated \/ NoKernelTask
  \/ \E killed \in SUBSET Procs : TaskDeleted(killed)
  \/ UseAfterFree \/ SchedRespond

TMNext ==
  /\ ~broken
  /\ (\E p \in Procs : Caller(p)) \/ Scheduler

TMSpec == (\E b \in Blocks, id \in TaskIDs : TMInit(b, id)) /\ [][TMNext]_tmVars

----------------------------------------------------------------------------
TMTypeOK ==
  /\ TaskListHead \in Blocks \cup {NULL}
  /\ listed \subseteq Blocks /\ heap \subseteq Blocks /\ hTask \subseteq Blocks
  /\ TaskClassID \in [Blocks -> TaskIDs \cup {NULL}]
  /\ TaskAskQueue \in Item \cup {NULL}
  /\ TaskRespQueue \in Item \cup {NULL}
  /\ schedPc \in {"receive", "respond"} \cup Requests
  /\ schedItem \in Item \cup {NULL}
  /\ call \in [Procs -> Call]
  /\ broken \in BOOLEAN
  /\ cause \subseteq {"crossed", "twice", "noTask", "head", "waiter"}

(* Every caller that waits gets exactly one answer: there are as many      *)
(* answers due (requests not yet answered, and answers not yet taken) as   *)
(* callers waiting, even when they take each other's; unless a task is     *)
(* deleted while it waits.                                                 *)
Due(it) == IF it = NULL THEN 0 ELSE IF it.who = NULL THEN 0 ELSE 1
AnswersDue == "waiter" \notin cause =>
  Cardinality(Waiting) = Due(TaskAskQueue) + Due(schedItem) + Due(TaskRespQueue)

(* The list, the heap and the kernel agree: what the list holds is         *)
(* allocated and runs, and what runs is on the list.  This, and that no    *)
(* block is freed twice or used after it was freed, can fail for four      *)
(* reasons only: a caller took another caller's answer; two deletes of one *)
(* task were under way at once; FreeRTOS could not create a task; the      *)
(* first task of the list was deleted.                                     *)
Agree == listed \subseteq heap /\ hTask = listed
Integrity == cause = {} => ~broken /\ Agree

(* What the service promises its callers: TaskService.  A call has been    *)
(* carried out when its request is neither with the caller, nor in the     *)
(* queue, nor with the scheduler.                                          *)
InHand(p) ==
  \/ call[p].pc = "ask"
  \/ \E it \in {TaskAskQueue, schedItem} \ {NULL} : it.who = p /\ it.RkTaskEvent \in Requests
CallOf(p) ==
  IF call[p].pc = "idle" THEN [stage |-> "none", event |-> "CREATE", block |-> NULL]
  ELSE [stage |-> IF InHand(p) THEN "asked" ELSE "carriedOut",
        event |-> call[p].RkTaskEvent, block |-> call[p].TaskHandler]
Calls == [p \in Procs |-> CallOf(p)]
Unawaited ==
  {it.TaskHandler : it \in {it \in {TaskAskQueue, schedItem} \ {NULL} :
                              it.who = NULL /\ it.RkTaskEvent = "DELETE"}}

Service == INSTANCE TaskService WITH
  tasks <- hTask, calls <- Calls, later <- Unawaited, orderly <- (cause = {})

(* Unless one of the causes has happened, every request is carried out     *)
(* once, and before the call that waits for it returns.                    *)
ServesCalls == Service!Spec
=============================================================================
