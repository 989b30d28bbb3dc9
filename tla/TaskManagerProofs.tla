--------------------------- MODULE TaskManagerProofs ---------------------------
(***************************************************************************)
(* TMTypeOK, AnswersDue and Integrity hold in every reachable state of     *)
(* TaskManager.  AnswersDue needs only that what is in each queue is of    *)
(* the queue's kind (Shape).  Integrity needs who owns each block: a block *)
(* of an unfinished creation or deletion belongs to one request alone      *)
(* (Apart), and a waiting caller's request is the one in the queues that   *)
(* names it (Matched).  With both, the service implements TaskService.     *)
(***************************************************************************)
EXTENDS TaskManager, FiniteSetTheorems, TLAPS

(* What can be in the three places an item passes through.                 *)
Shape ==
  /\ \A p \in Procs : call[p].pc # "idle" => call[p].TaskHandler \in Blocks
  /\ TaskAskQueue # NULL =>
       /\ TaskAskQueue.RkTaskEvent \in Requests
       /\ TaskAskQueue.RkTaskEvent = "CREATE" => TaskAskQueue.who # NULL
  /\ TaskRespQueue # NULL => TaskRespQueue.RkTaskEvent \in Answers /\ TaskRespQueue.who # NULL
  /\ schedPc = "receive" <=> schedItem = NULL
  /\ schedPc \in Requests => /\ schedItem.RkTaskEvent = schedPc
                             /\ schedPc = "CREATE" => schedItem.who # NULL
  /\ schedPc = "respond" => schedItem.RkTaskEvent \in Answers /\ schedItem.who # NULL

(* The block a request needs: of a creation not yet successful, allocated  *)
(* and not listed; of a deletion not yet carried out, listed.              *)
Holds(event, b) ==
  /\ event \in {"CREATE", "CREATE_FAIL"} => b \in heap \ listed
  /\ event = "DELETE" => b \in listed
Needs(it) == it # NULL /\ it.RkTaskEvent \in {"CREATE", "CREATE_FAIL", "DELETE"}
OwnedItem(it) == it # NULL => Holds(it.RkTaskEvent, it.TaskHandler)
Owned ==
  /\ \A p \in Procs : call[p].pc = "ask" => Holds(call[p].RkTaskEvent, call[p].TaskHandler)
  /\ OwnedItem(TaskAskQueue) /\ OwnedItem(schedItem) /\ OwnedItem(TaskRespQueue)

(* Two requests never need the same block.                                 *)
ApartItems(x, y) == Needs(x) /\ Needs(y) => x.TaskHandler # y.TaskHandler
ApartCalls(it) == \A p \in Procs : call[p].pc = "ask" /\ Needs(it) =>
                    call[p].TaskHandler # it.TaskHandler
Apart ==
  /\ \A p, q \in Procs : p # q /\ call[p].pc = "ask" /\ call[q].pc = "ask" =>
       call[p].TaskHandler # call[q].TaskHandler
  /\ ApartCalls(TaskAskQueue) /\ ApartCalls(schedItem) /\ ApartCalls(TaskRespQueue)
  /\ ApartItems(TaskAskQueue, schedItem)
  /\ ApartItems(TaskAskQueue, TaskRespQueue)
  /\ ApartItems(schedItem, TaskRespQueue)

(* An item names a caller that waits for it, and no two name the same.     *)
Kind(event) == IF event \in {"CREATE", "CREATE_SUCCESS", "CREATE_FAIL"}
               THEN "CREATE" ELSE "DELETE"
MatchedItem(it) == it # NULL /\ it.who # NULL =>
  /\ call[it.who].pc = "wait"
  /\ call[it.who].TaskHandler = it.TaskHandler
  /\ call[it.who].RkTaskEvent = Kind(it.RkTaskEvent)
NotSame(x, y) == x # NULL /\ y # NULL /\ x.who # NULL => x.who # y.who
Matched ==
  /\ MatchedItem(TaskAskQueue) /\ MatchedItem(schedItem) /\ MatchedItem(TaskRespQueue)
  /\ NotSame(TaskAskQueue, schedItem)
  /\ NotSame(TaskAskQueue, TaskRespQueue)
  /\ NotSame(schedItem, TaskRespQueue)

Clean == cause = {} => ~broken /\ Agree /\ Owned /\ Apart /\ Matched

----------------------------------------------------------------------------
LEMMA InitTypeShape ==
  ASSUME NEW first \in Blocks, NEW id \in TaskIDs, TMInit(first, id)
  PROVE  TMTypeOK /\ Shape
BY TaskAssumption DEF TMInit, TMTypeOK, Shape, Item, Call, Idle, Modes, Requests, Answers

LEMMA CallerTypeShape ==
  ASSUME TMTypeOK, Shape, NEW p \in Procs, Caller(p)
  PROVE  TMTypeOK' /\ Shape'
<1> USE TaskAssumption
<1>0. Idle \in Call
  BY DEF Idle, Call, Modes, Requests
<1>1. ASSUME NEW id \in TaskIDs, RKTaskCreate(p, id, Blocks \ heap)
      PROVE  TMTypeOK' /\ Shape'
  <2>2. ASSUME NEW b \in Blocks \ heap,
               heap' = heap \cup {b}, TaskClassID' = [TaskClassID EXCEPT ![b] = id],
               call' = [call EXCEPT ![p] = [Idle EXCEPT !.pc = "ask", !.TaskHandler = b]]
        PROVE  TMTypeOK' /\ Shape'
    <3> DEFINE c == [Idle EXCEPT !.pc = "ask", !.TaskHandler = b]
    <3>1. c \in Call /\ c.TaskHandler \in Blocks
      BY DEF Idle, Call, Modes, Requests
    <3>0. call' = [call EXCEPT ![p] = c]
      BY <2>2
    <3> HIDE DEF c
    <3>2. call' \in [Procs -> Call]
      BY <3>0, <3>1 DEF TMTypeOK
    <3>3. TMTypeOK'
      BY <1>1, <2>2, <3>2 DEF TMTypeOK, RKTaskCreate
    <3>4. Shape'
      BY <1>1, <3>0, <3>1 DEF TMTypeOK, Shape, RKTaskCreate
    <3> QED BY <3>3, <3>4
  <2>3. CASE Returns(p) /\ UNCHANGED <<heap, TaskClassID>>
    <3>1. call' = [call EXCEPT ![p] = Idle] /\ Idle.pc = "idle"
      BY <2>3 DEF Returns, Idle
    <3> QED BY <1>0, <1>1, <2>3, <3>1 DEF TMTypeOK, Shape, RKTaskCreate
  <2> QED BY <1>1, <2>2, <2>3 DEF RKTaskCreate
<1>2. ASSUME NEW id \in TaskIDs, NEW m \in Modes, RKTaskDelete(p, id, m)
      PROVE  TMTypeOK' /\ Shape'
  <2>1. PICK c \in Call : call' = [call EXCEPT ![p] = c] /\ (c.pc # "idle" => c.TaskHandler \in Blocks)
    <3>1. CASE Returns(p)
      BY <1>0, <3>1 DEF Returns, Idle
    <3>2. ASSUME NEW b \in RKTaskFind(id),
                 call' = [call EXCEPT ![p] = [pc |-> "ask", RkTaskEvent |-> "DELETE",
                                             TaskHandler |-> b, Mode |-> m]]
          PROVE \E c \in Call : call' = [call EXCEPT ![p] = c] /\ (c.pc # "idle" => c.TaskHandler \in Blocks)
      <4>1. b \in Blocks BY DEF RKTaskFind, TMTypeOK
      <4>2. [pc |-> "ask", RkTaskEvent |-> "DELETE", TaskHandler |-> b, Mode |-> m] \in Call
        BY <4>1 DEF Call, Requests
      <4> QED BY <3>2, <4>1, <4>2
    <3> QED BY <1>2, <3>1, <3>2 DEF RKTaskDelete
  <2>2. cause' \subseteq {"crossed", "twice", "noTask", "head", "waiter"}
    BY <1>2 DEF RKTaskDelete, TMTypeOK
  <2> QED BY <1>2, <2>1, <2>2 DEF TMTypeOK, Shape, RKTaskDelete
<1>3. CASE AskSend(p)
  <2> DEFINE async == call[p].RkTaskEvent = "DELETE" /\ call[p].Mode = "ASYNC_MODE"
             w == IF async THEN NULL ELSE p
  <2>1. call[p] \in Call /\ call[p].pc = "ask" /\ call[p].TaskHandler \in Blocks
        /\ call[p].RkTaskEvent \in Requests
    BY <1>3 DEF AskSend, TMTypeOK, Shape, Call
  <2>2. [TaskHandler |-> call[p].TaskHandler, RkTaskEvent |-> call[p].RkTaskEvent, who |-> w] \in Item
    BY <2>1 DEF Item
  <2>3. [call[p] EXCEPT !.pc = "wait"] \in Call
    BY <2>1 DEF Call
  <2>4. call' \in [Procs -> Call] /\ \A q \in Procs : call'[q].pc # "idle" => call'[q].TaskHandler \in Blocks
    <3>1. CASE async
      BY <1>0, <1>3, <3>1 DEF AskSend, Returns, TMTypeOK, Shape, Idle
    <3>2. CASE ~async
      <4>1. call' = [call EXCEPT ![p] = [call[p] EXCEPT !.pc = "wait"]]
        BY <1>3, <3>2 DEF AskSend
      <4> QED BY <2>1, <2>3, <4>1 DEF TMTypeOK, Shape
    <3> QED BY <3>1, <3>2
  <2>5. TaskAskQueue' = [TaskHandler |-> call[p].TaskHandler, RkTaskEvent |-> call[p].RkTaskEvent, who |-> w]
    BY <1>3 DEF AskSend
  <2>6. TMTypeOK' BY <1>3, <2>2, <2>4, <2>5 DEF AskSend, TMTypeOK
  <2>7. Shape' BY <1>3, <2>1, <2>4, <2>5 DEF AskSend, Shape, Requests
  <2> QED BY <2>6, <2>7
<1>4. CASE RespReceive(p)
  <2>1. call' \in [Procs -> Call] /\ \A q \in Procs : call'[q].pc # "idle" => call'[q].TaskHandler \in Blocks
    BY <1>0, <1>4 DEF RespReceive, Returns, TMTypeOK, Shape, Idle
  <2>2. heap' \subseteq Blocks /\ broken' \in BOOLEAN
    BY <1>4 DEF RespReceive, Free, TMTypeOK
  <2>3. cause' \subseteq {"crossed", "twice", "noTask", "head", "waiter"}
    BY <1>4 DEF RespReceive, TMTypeOK
  <2> QED BY <1>4, <2>1, <2>2, <2>3 DEF RespReceive, TMTypeOK, Shape
<1> QED BY <1>1, <1>2, <1>3, <1>4 DEF Caller

LEMMA SchedulerTypeShape ==
  ASSUME TMTypeOK, Shape, Scheduler
  PROVE  TMTypeOK' /\ Shape'
<1> USE TaskAssumption
<1>0. Idle \in Call
  BY DEF Idle, Call, Modes, Requests
<1>1. ASSUME schedItem # NULL, NEW e \in Answers, AnswerWith(e)
      PROVE  /\ schedItem' \in Item /\ schedItem' # NULL
             /\ schedItem'.RkTaskEvent = e /\ schedItem'.who = schedItem.who
  <2>1. schedItem \in Item BY <1>1 DEF TMTypeOK
  <2>2. schedItem' = [schedItem EXCEPT !.RkTaskEvent = e] BY <1>1 DEF AnswerWith
  <2>3. schedItem' \in Item BY <2>1, <2>2 DEF Item
  <2> QED BY <2>1, <2>2, <2>3 DEF Item
<1>2. CASE SchedReceive
  BY <1>2 DEF SchedReceive, TMTypeOK, Shape, Requests, Item
<1>3. CASE InitFails
  BY <1>1, <1>3 DEF InitFails, TMTypeOK, Shape, Requests, Answers
<1>4. CASE TaskCreated
  BY <1>1, <1>4 DEF TaskCreated, RKTaskRegister, TMTypeOK, Shape, Requests, Answers, Item
<1>5. CASE NoKernelTask
  BY <1>1, <1>5 DEF NoKernelTask, TMTypeOK, Shape, Requests, Answers
<1>6. ASSUME NEW killed \in SUBSET Procs, TaskDeleted(killed)
      PROVE  TMTypeOK' /\ Shape'
  <2>1. call' \in [Procs -> Call] /\ \A q \in Procs : call'[q].pc # "idle" => call'[q].TaskHandler \in Blocks
    BY <1>0, <1>6 DEF TaskDeleted, TMTypeOK, Shape, Idle
  <2>2. /\ TaskListHead' \in Blocks \cup {NULL} /\ listed' \subseteq Blocks
        /\ heap' \subseteq Blocks /\ hTask' \subseteq Blocks
        /\ cause' \subseteq {"crossed", "twice", "noTask", "head", "waiter"}
    BY <1>6 DEF TaskDeleted, RKTaskUnRegister, TMTypeOK
  <2>3. /\ schedItem' \in Item \cup {NULL} /\ schedPc' \in {"receive", "respond"}
        /\ schedPc' = "receive" <=> schedItem' = NULL
        /\ schedPc' = "respond" => schedItem'.RkTaskEvent \in Answers /\ schedItem'.who # NULL
    <3>1. schedItem # NULL BY <1>6 DEF TaskDeleted, Shape
    <3>2. CASE schedItem.who = NULL BY <1>6, <3>2 DEF TaskDeleted
    <3>3. CASE schedItem.who # NULL
      BY <1>1, <1>6, <3>1, <3>3 DEF TaskDeleted, Answers
    <3> QED BY <3>2, <3>3
  <2> QED BY <1>6, <2>1, <2>2, <2>3 DEF TaskDeleted, TMTypeOK, Shape, Requests
<1>7. CASE UseAfterFree
  BY <1>7 DEF UseAfterFree, TMTypeOK, Shape
<1>8. CASE SchedRespond
  BY <1>8 DEF SchedRespond, TMTypeOK, Shape, Requests
<1> QED BY <1>2, <1>3, <1>4, <1>5, <1>6, <1>7, <1>8 DEF Scheduler

LEMMA TypeShape == TMSpec => [](TMTypeOK /\ Shape)
<1>1. (\E b \in Blocks, id \in TaskIDs : TMInit(b, id)) => TMTypeOK /\ Shape
  BY InitTypeShape
<1>2. TMTypeOK /\ Shape /\ [TMNext]_tmVars => (TMTypeOK /\ Shape)'
  <2> SUFFICES ASSUME TMTypeOK, Shape, [TMNext]_tmVars PROVE TMTypeOK' /\ Shape'
    OBVIOUS
  <2>1. CASE UNCHANGED tmVars BY <2>1 DEF tmVars, TMTypeOK, Shape
  <2>2. CASE TMNext BY <2>2, CallerTypeShape, SchedulerTypeShape DEF TMNext
  <2> QED BY <2>1, <2>2
<1> QED BY <1>1, <1>2, PTL DEF TMSpec

(* Every variable of the task service keeps its type, in particular what   *)
(* passes through the queues is a request or an answer for a block.        *)
THEOREM TaskServiceTypes == TMSpec => []TMTypeOK
BY TypeShape, PTL

----------------------------------------------------------------------------
LEMMA DueNat == \A it : Due(it) \in {0, 1}
BY DEF Due

LEMMA WaitingFinite == TMTypeOK => IsFiniteSet(Waiting) /\ Cardinality(Waiting) \in Nat
BY TaskAssumption, FS_Subset, FS_CardinalityType DEF Waiting

(* A step that changes neither who waits nor what is due.                  *)
LEMMA DueSame ==
  ASSUME AnswersDue, "waiter" \notin cause, Waiting' = Waiting,
         Due(TaskAskQueue') + Due(schedItem') + Due(TaskRespQueue')
           = Due(TaskAskQueue) + Due(schedItem) + Due(TaskRespQueue)
  PROVE  AnswersDue'
BY DEF AnswersDue

LEMMA CallerDue ==
  ASSUME TMTypeOK, Shape, AnswersDue, NEW p \in Procs, Caller(p)
  PROVE  AnswersDue'
<1> SUFFICES ASSUME "waiter" \notin cause' PROVE AnswersDue'
  BY DEF AnswersDue
<1> USE TaskAssumption, DueNat
<1>0. call \in [Procs -> Call] BY DEF TMTypeOK
<1>1. ASSUME NEW id \in TaskIDs, RKTaskCreate(p, id, Blocks \ heap)
      PROVE  AnswersDue'
  <2>1. \A q \in Procs : call'[q].pc = "wait" <=> call[q].pc = "wait"
    <3>1. PICK c : call' = [call EXCEPT ![p] = c] /\ c.pc # "wait"
      BY <1>1 DEF RKTaskCreate, Returns, Idle
    <3>2. call[p].pc = "idle" BY <1>1 DEF RKTaskCreate
    <3> QED BY <1>0, <3>1, <3>2
  <2> QED BY <1>1, <2>1, DueSame DEF RKTaskCreate, Waiting
<1>2. ASSUME NEW id \in TaskIDs, NEW m \in Modes, RKTaskDelete(p, id, m)
      PROVE  AnswersDue'
  <2>1. \A q \in Procs : call'[q].pc = "wait" <=> call[q].pc = "wait"
    BY <1>0, <1>2 DEF RKTaskDelete, Returns, Idle
  <2>2. "waiter" \notin cause BY <1>2 DEF RKTaskDelete
  <2> QED BY <1>2, <2>1, <2>2, DueSame DEF RKTaskDelete, Waiting
<1>3. CASE AskSend(p)
  <2> DEFINE async == call[p].RkTaskEvent = "DELETE" /\ call[p].Mode = "ASYNC_MODE"
  <2>0. /\ "waiter" \notin cause
        /\ Cardinality(Waiting) = Due(TaskAskQueue) + Due(schedItem) + Due(TaskRespQueue)
    BY <1>3 DEF AskSend, AnswersDue
  <2>1. Due(TaskAskQueue) = 0 /\ UNCHANGED <<schedItem, TaskRespQueue>>
    BY <1>3 DEF AskSend, Due
  <2>2. TaskAskQueue' \in Item
    <3>1. call[p] \in Call /\ call[p].TaskHandler \in Blocks
      BY <1>0, <1>3 DEF AskSend, Shape
    <3> QED BY <1>3, <3>1 DEF AskSend, Item, Call
  <2>3. CASE async
    <3>1. Due(TaskAskQueue') = 0 BY <1>3, <2>2, <2>3 DEF AskSend, Due
    <3>2. Waiting' = Waiting BY <1>0, <1>3, <2>3 DEF AskSend, Returns, Waiting, Idle
    <3> QED BY <2>0, <2>1, <3>1, <3>2, DueSame
  <2>4. CASE ~async
    <3>1. Due(TaskAskQueue') = 1 BY <1>3, <2>2, <2>4 DEF AskSend, Due
    <3>2. Waiting' = Waiting \cup {p} /\ p \notin Waiting
      <4>1. call' = [call EXCEPT ![p] = [call[p] EXCEPT !.pc = "wait"]] /\ call[p].pc = "ask"
        BY <1>3, <2>4 DEF AskSend
      <4>2. [call[p] EXCEPT !.pc = "wait"].pc = "wait" BY <1>0 DEF Call
      <4> QED BY <1>0, <4>1, <4>2 DEF Waiting
    <3>3. Cardinality(Waiting') = Cardinality(Waiting) + 1
      BY <3>2, WaitingFinite, FS_AddElement
    <3>4. Cardinality(Waiting') = 0 + Due(schedItem) + Due(TaskRespQueue) + 1
      BY <2>0, <2>1, <3>3
    <3> QED BY <2>1, <3>1, <3>4 DEF AnswersDue
  <2> QED BY <2>3, <2>4
<1>4. CASE RespReceive(p)
  <2>0. /\ "waiter" \notin cause
        /\ Cardinality(Waiting) = Due(TaskAskQueue) + Due(schedItem) + Due(TaskRespQueue)
    BY <1>4 DEF RespReceive, AnswersDue
  <2>1. /\ Due(TaskRespQueue) = 1 /\ Due(TaskRespQueue') = 0
        /\ UNCHANGED <<TaskAskQueue, schedItem>>
    BY <1>4 DEF RespReceive, Due, Shape
  <2>2. Waiting' = Waiting \ {p} /\ p \in Waiting
    <3>1. call' = [call EXCEPT ![p] = Idle] /\ Idle.pc = "idle" /\ call[p].pc = "wait"
      BY <1>4 DEF RespReceive, Returns, Idle
    <3> QED BY <1>0, <3>1 DEF Waiting
  <2>3. Cardinality(Waiting') = Cardinality(Waiting) - 1
    BY <2>2, WaitingFinite, FS_RemoveElement
  <2>4. Cardinality(Waiting') = Due(TaskAskQueue) + Due(schedItem)
    BY <2>0, <2>1, <2>3
  <2> QED BY <2>1, <2>4 DEF AnswersDue
<1> QED BY <1>1, <1>2, <1>3, <1>4 DEF Caller

LEMMA SchedulerDue ==
  ASSUME TMTypeOK, Shape, AnswersDue, Scheduler
  PROVE  AnswersDue'
<1> SUFFICES ASSUME "waiter" \notin cause' PROVE AnswersDue'
  BY DEF AnswersDue
<1> USE TaskAssumption, DueNat
<1>1. ASSUME schedItem # NULL, NEW e \in Answers, AnswerWith(e)
      PROVE  Due(schedItem') = Due(schedItem)
  <2>1. schedItem \in Item BY <1>1 DEF TMTypeOK
  <2>2. schedItem' = [schedItem EXCEPT !.RkTaskEvent = e] BY <1>1 DEF AnswerWith
  <2>3. schedItem' \in Item BY <2>1, <2>2 DEF Item
  <2> QED BY <2>1, <2>2, <2>3 DEF Item, Due
<1>2. CASE SchedReceive
  <2>1. Due(schedItem) = 0 /\ Due(TaskAskQueue') = 0 /\ schedItem' = TaskAskQueue
        /\ UNCHANGED TaskRespQueue
    BY <1>2 DEF SchedReceive, Shape, Due
  <2>2. Due(TaskAskQueue') + Due(schedItem') + Due(TaskRespQueue')
          = Due(TaskAskQueue) + Due(schedItem) + Due(TaskRespQueue)
    <3> DEFINE x == Due(TaskAskQueue) y == Due(TaskRespQueue)
    <3>1. x \in Nat /\ y \in Nat OBVIOUS
    <3> HIDE DEF x, y
    <3>2. 0 + x + y = x + 0 + y BY <3>1
    <3> QED BY <2>1, <3>2 DEF x, y
  <2> QED BY <1>2, <2>2, DueSame DEF SchedReceive, Waiting
<1>3. CASE InitFails
  <2>1. Due(schedItem') = Due(schedItem) BY <1>1, <1>3 DEF InitFails, Shape, Answers
  <2> QED BY <1>3, <2>1, DueSame DEF InitFails, Waiting
<1>4. CASE TaskCreated
  <2>1. Due(schedItem') = Due(schedItem) BY <1>1, <1>4 DEF TaskCreated, Shape, Answers
  <2> QED BY <1>4, <2>1, DueSame DEF TaskCreated, Waiting
<1>5. CASE NoKernelTask
  <2>1. Due(schedItem') = Due(schedItem) BY <1>1, <1>5 DEF NoKernelTask, Shape, Answers
  <2>2. "waiter" \notin cause BY <1>5 DEF NoKernelTask
  <2> QED BY <1>5, <2>1, <2>2, DueSame DEF NoKernelTask, Waiting
<1>6. ASSUME NEW killed \in SUBSET Procs, TaskDeleted(killed)
      PROVE  AnswersDue'
  <2>1. killed \cap Waiting = {} /\ "waiter" \notin cause BY <1>6 DEF TaskDeleted
  <2>2. Waiting' = Waiting BY <1>6, <2>1 DEF TaskDeleted, Waiting, Idle
  <2>3. Due(schedItem') = Due(schedItem)
    <3>1. schedItem # NULL BY <1>6 DEF TaskDeleted, Shape
    <3>2. CASE schedItem.who = NULL BY <1>6, <3>2 DEF TaskDeleted, Due
    <3>3. CASE schedItem.who # NULL BY <1>1, <1>6, <3>1, <3>3 DEF TaskDeleted, Answers
    <3> QED BY <3>2, <3>3
  <2> QED BY <1>6, <2>1, <2>2, <2>3, DueSame DEF TaskDeleted
<1>7. CASE UseAfterFree
  BY <1>7, DueSame DEF UseAfterFree, Waiting
<1>8. CASE SchedRespond
  <2>1. Due(TaskRespQueue) = 0 /\ Due(schedItem') = 0 /\ TaskRespQueue' = schedItem
        /\ UNCHANGED TaskAskQueue
    BY <1>8 DEF SchedRespond, Due
  <2>2. Due(TaskAskQueue') + Due(schedItem') + Due(TaskRespQueue')
          = Due(TaskAskQueue) + Due(schedItem) + Due(TaskRespQueue)
    <3> DEFINE x == Due(TaskAskQueue) y == Due(schedItem)
    <3>1. x \in Nat /\ y \in Nat OBVIOUS
    <3> HIDE DEF x, y
    <3>2. x + 0 + y = x + y + 0 BY <3>1
    <3> QED BY <2>1, <3>2 DEF x, y
  <2> QED BY <1>8, <2>2, DueSame DEF SchedRespond, Waiting
<1> QED BY <1>2, <1>3, <1>4, <1>5, <1>6, <1>7, <1>8 DEF Scheduler

(* However many callers use the two queues and take each other's answers,  *)
(* there are always as many answers due as callers waiting.                *)
THEOREM TaskAnswers == TMSpec => []AnswersDue
<1>1. (\E b \in Blocks, id \in TaskIDs : TMInit(b, id)) => AnswersDue
  <2> SUFFICES ASSUME NEW b \in Blocks, NEW id \in TaskIDs, TMInit(b, id) PROVE AnswersDue
    OBVIOUS
  <2>1. Waiting = {} BY DEF TMInit, Waiting, Idle
  <2> QED BY <2>1, FS_EmptySet DEF TMInit, AnswersDue, Due
<1>2. (TMTypeOK /\ Shape) /\ AnswersDue /\ [TMNext]_tmVars => AnswersDue'
  <2> SUFFICES ASSUME TMTypeOK, Shape, AnswersDue, [TMNext]_tmVars PROVE AnswersDue'
    OBVIOUS
  <2>1. CASE UNCHANGED tmVars BY <2>1 DEF tmVars, AnswersDue, Waiting, Due
  <2>2. CASE TMNext BY <2>2, CallerDue, SchedulerDue DEF TMNext
  <2> QED BY <2>1, <2>2
<1> QED BY <1>1, <1>2, TypeShape, PTL DEF TMSpec

----------------------------------------------------------------------------
(* What the steps of callers do to ownership, when nothing that could      *)
(* spoil it has happened before or happens now.                            *)
CleanState == ~broken /\ Agree /\ Owned /\ Apart /\ Matched

LEMMA CreateClean ==
  ASSUME TMTypeOK, Shape, CleanState, NEW p \in Procs, NEW id \in TaskIDs,
         RKTaskCreate(p, id, Blocks \ heap)
  PROVE  CleanState'
<1> USE TaskAssumption
<1>0. call \in [Procs -> Call] BY DEF TMTypeOK
<1>1. ASSUME NEW b \in Blocks \ heap, heap' = heap \cup {b},
             call' = [call EXCEPT ![p] = [Idle EXCEPT !.pc = "ask", !.TaskHandler = b]]
      PROVE  CleanState'
  <2> DEFINE c == [Idle EXCEPT !.pc = "ask", !.TaskHandler = b]
  <2>1. c.pc = "ask" /\ c.TaskHandler = b /\ c.RkTaskEvent = "CREATE" BY DEF Idle
  <2>2. call' = [call EXCEPT ![p] = c] BY <1>1
  <2> HIDE DEF c
  <2>3. /\ call[p].pc = "idle"
        /\ UNCHANGED <<listed, hTask, TaskAskQueue, TaskRespQueue, schedItem, broken>>
    BY <1>1 DEF RKTaskCreate
  <2>4. \A q \in Procs : call[q].pc = "ask" => call[q].TaskHandler \in heap
    BY <1>0 DEF CleanState, Owned, Holds, Agree, Call, Requests
  <2>5. \A it \in InQueues : Needs(it) => it.TaskHandler \in heap
    BY DEF CleanState, Owned, OwnedItem, Holds, Agree, Needs, InQueues
  <2>6. ~broken' /\ Agree' BY <1>1, <2>3 DEF CleanState, Agree
  <2>7. Owned'
    BY <1>0, <1>1, <2>1, <2>2, <2>3 DEF CleanState, Owned, OwnedItem, Holds, Agree
  <2>8. Apart'
    BY <1>0, <1>1, <2>1, <2>2, <2>3, <2>4, <2>5
    DEF CleanState, Apart, ApartCalls, ApartItems, Needs, InQueues
  <2>9. Matched'
    BY <1>0, <2>2, <2>3 DEF CleanState, Matched, MatchedItem, NotSame
  <2> QED BY <2>6, <2>7, <2>8, <2>9 DEF CleanState
<1>2. CASE Returns(p) /\ UNCHANGED <<heap, TaskClassID>>
  <2>1. call' = [call EXCEPT ![p] = Idle] /\ Idle.pc = "idle" /\ call[p].pc = "idle"
        /\ UNCHANGED <<heap, listed, hTask, TaskAskQueue, TaskRespQueue, schedItem, broken>>
    BY <1>2 DEF RKTaskCreate, Returns, Idle
  <2>2. Owned' BY <1>0, <2>1 DEF CleanState, Owned, OwnedItem, Holds
  <2>3. Apart' BY <1>0, <2>1 DEF CleanState, Apart, ApartCalls, ApartItems, Needs
  <2>4. Matched' BY <1>0, <2>1 DEF CleanState, Matched, MatchedItem, NotSame
  <2> QED BY <2>1, <2>2, <2>3, <2>4 DEF CleanState, Agree
<1> QED BY <1>1, <1>2 DEF RKTaskCreate

LEMMA DeleteClean ==
  ASSUME TMTypeOK, Shape, CleanState, NEW p \in Procs, NEW id \in TaskIDs,
         NEW m \in Modes, RKTaskDelete(p, id, m), cause' = {}
  PROVE  CleanState'
<1> USE TaskAssumption
<1>0. call \in [Procs -> Call] BY DEF TMTypeOK
<1>1. /\ call[p].pc = "idle"
      /\ UNCHANGED <<heap, listed, hTask, TaskAskQueue, TaskRespQueue, schedItem, broken>>
  BY DEF RKTaskDelete
<1>2. ASSUME NEW b \in RKTaskFind(id), ~BeingDeleted(b),
             call' = [call EXCEPT ![p] = [pc |-> "ask", RkTaskEvent |-> "DELETE",
                                          TaskHandler |-> b, Mode |-> m]]
      PROVE  CleanState'
  <2> DEFINE c == [pc |-> "ask", RkTaskEvent |-> "DELETE", TaskHandler |-> b, Mode |-> m]
  <2>1. c.pc = "ask" /\ c.TaskHandler = b /\ c.RkTaskEvent = "DELETE" OBVIOUS
  <2>2. call' = [call EXCEPT ![p] = c] BY <1>2
  <2> HIDE DEF c
  <2>3. b \in listed BY DEF RKTaskFind
  <2>4. \A q \in Procs : call[q].pc = "ask" => call[q].TaskHandler # b
    BY <1>0, <1>2, <2>3 DEF CleanState, Owned, Holds, Call, Requests, BeingDeleted
  <2>5. \A it \in InQueues : Needs(it) => it.TaskHandler # b
    BY <1>2, <2>3 DEF CleanState, Owned, OwnedItem, Holds, Needs, InQueues, BeingDeleted
  <2>6. Owned'
    BY <1>0, <1>1, <2>1, <2>2, <2>3 DEF CleanState, Owned, OwnedItem, Holds
  <2>7. Apart'
    BY <1>0, <1>1, <2>1, <2>2, <2>4, <2>5
    DEF CleanState, Apart, ApartCalls, ApartItems, Needs, InQueues
  <2>8. Matched'
    BY <1>0, <1>1, <2>2 DEF CleanState, Matched, MatchedItem, NotSame
  <2> QED BY <1>1, <2>6, <2>7, <2>8 DEF CleanState, Agree
<1>3. CASE Returns(p)
  <2>1. call' = [call EXCEPT ![p] = Idle] /\ Idle.pc = "idle"
    BY <1>3 DEF Returns, Idle
  <2>2. Owned' BY <1>0, <1>1, <2>1 DEF CleanState, Owned, OwnedItem, Holds
  <2>3. Apart' BY <1>0, <1>1, <2>1 DEF CleanState, Apart, ApartCalls, ApartItems, Needs
  <2>4. Matched' BY <1>0, <1>1, <2>1 DEF CleanState, Matched, MatchedItem, NotSame
  <2> QED BY <1>1, <2>2, <2>3, <2>4 DEF CleanState, Agree
<1>4. \A b \in RKTaskFind(id) : BeingDeleted(b) =>
        cause' # IF BeingDeleted(b) THEN cause \cup {"twice"} ELSE cause
  OBVIOUS
<1> QED BY <1>2, <1>3, <1>4 DEF RKTaskDelete

LEMMA SendClean ==
  ASSUME TMTypeOK, Shape, CleanState, NEW p \in Procs, AskSend(p)
  PROVE  CleanState'
<1> USE TaskAssumption
<1> DEFINE async == call[p].RkTaskEvent = "DELETE" /\ call[p].Mode = "ASYNC_MODE"
           w == IF async THEN NULL ELSE p
           new == [TaskHandler |-> call[p].TaskHandler,
                   RkTaskEvent |-> call[p].RkTaskEvent, who |-> w]
<1>0. call \in [Procs -> Call] /\ call[p].pc = "ask" BY DEF TMTypeOK, AskSend
<1>1. /\ TaskAskQueue = NULL /\ TaskAskQueue' = new
      /\ UNCHANGED <<heap, listed, hTask, TaskRespQueue, schedItem, broken>>
  BY DEF AskSend
<1>2. /\ new.TaskHandler = call[p].TaskHandler /\ new.RkTaskEvent = call[p].RkTaskEvent
      /\ new.who = w /\ new # NULL
  <2>1. call[p] \in Call /\ call[p].TaskHandler \in Blocks BY <1>0 DEF Shape
  <2>2. new \in Item BY <2>1 DEF Item, Call
  <2> QED BY <2>2
<1>3. PICK c : /\ call' = [call EXCEPT ![p] = c]
               /\ c.pc # "ask"
               /\ w # NULL => /\ c.pc = "wait" /\ c.TaskHandler = call[p].TaskHandler
                              /\ c.RkTaskEvent = call[p].RkTaskEvent
  <2>1. CASE async
    <3>1. call' = [call EXCEPT ![p] = Idle] /\ Idle.pc # "ask" /\ w = NULL
      BY <2>1 DEF AskSend, Returns, Idle
    <3> QED BY <3>1
  <2>2. CASE ~async
    <3> DEFINE c == [call[p] EXCEPT !.pc = "wait"]
    <3>1. call' = [call EXCEPT ![p] = c] BY <2>2 DEF AskSend
    <3>2. c.pc = "wait" /\ c.TaskHandler = call[p].TaskHandler
          /\ c.RkTaskEvent = call[p].RkTaskEvent
      BY <1>0 DEF Call
    <3> QED BY <3>1, <3>2
  <2> QED BY <2>1, <2>2
<1>4. w \in {NULL, p} /\ call[p].RkTaskEvent \in Requests BY <1>0 DEF Call
<1> HIDE DEF new, w
<1>6. Owned'
  BY <1>0, <1>1, <1>2, <1>3 DEF CleanState, Owned, OwnedItem, Holds
<1>7. Apart'
  BY <1>0, <1>1, <1>2, <1>3 DEF CleanState, Apart, ApartCalls, ApartItems, Needs
<1>8. Matched'
  <2>1. MatchedItem(TaskAskQueue)'
    BY <1>0, <1>1, <1>2, <1>4, <1>3 DEF MatchedItem, Kind, Requests
  <2>2. MatchedItem(schedItem)' /\ MatchedItem(TaskRespQueue)'
    BY <1>0, <1>1, <1>3 DEF CleanState, Matched, MatchedItem
  <2>3. NotSame(TaskAskQueue, schedItem)' /\ NotSame(TaskAskQueue, TaskRespQueue)'
    BY <1>0, <1>1, <1>2, <1>4 DEF CleanState, Matched, MatchedItem, NotSame
  <2> QED BY <1>1, <2>1, <2>2, <2>3 DEF CleanState, Matched, NotSame
<1> QED BY <1>1, <1>6, <1>7, <1>8 DEF CleanState, Agree

LEMMA ReceiveClean ==
  ASSUME TMTypeOK, Shape, CleanState, NEW p \in Procs, RespReceive(p), cause' = {}
  PROVE  CleanState'
<1> USE TaskAssumption
<1> DEFINE h == call[p].TaskHandler
<1>0. /\ call \in [Procs -> Call] /\ call[p].pc = "wait"
      /\ call' = [call EXCEPT ![p] = Idle] /\ Idle.pc = "idle"
  BY DEF TMTypeOK, RespReceive, Returns, Idle
<1>1. /\ TaskRespQueue # NULL /\ TaskRespQueue' = NULL
      /\ UNCHANGED <<listed, hTask, TaskAskQueue, schedItem>>
  BY DEF RespReceive
<1>2. TaskRespQueue.who = p
  BY DEF RespReceive
<1>3. /\ TaskRespQueue.TaskHandler = h
      /\ call[p].RkTaskEvent = Kind(TaskRespQueue.RkTaskEvent)
      /\ TaskRespQueue.RkTaskEvent \in Answers
  BY <1>1, <1>2 DEF CleanState, Matched, MatchedItem, Shape
<1>4. Matched'
  BY <1>0, <1>1, <1>2 DEF CleanState, Matched, MatchedItem, NotSame
<1>5. Apart'
  BY <1>0, <1>1 DEF CleanState, Apart, ApartCalls, ApartItems, Needs
<1>6. CASE UNCHANGED <<heap, broken>>
  <2>1. Owned' BY <1>0, <1>1, <1>6 DEF CleanState, Owned, OwnedItem, Holds
  <2> QED BY <1>1, <1>4, <1>5, <1>6, <2>1 DEF CleanState, Agree
<1>7. CASE call[p].RkTaskEvent = "CREATE" /\ TaskRespQueue.RkTaskEvent # "CREATE_SUCCESS"
           /\ Free(h)
  <2>1. TaskRespQueue.RkTaskEvent = "CREATE_FAIL" /\ Needs(TaskRespQueue)
    BY <1>1, <1>3, <1>7 DEF Kind, Answers, Needs
  <2>2. h \in heap \ listed
    BY <1>1, <1>3, <2>1 DEF CleanState, Owned, OwnedItem, Holds
  <2>3. \A q \in Procs : call[q].pc = "ask" => call[q].TaskHandler # h
    BY <1>3, <2>1 DEF CleanState, Apart, ApartCalls
  <2>4. /\ Needs(TaskAskQueue) => TaskAskQueue.TaskHandler # h
        /\ Needs(schedItem) => schedItem.TaskHandler # h
    BY <1>3, <2>1 DEF CleanState, Apart, ApartItems
  <2>5. \A it \in InQueues : it.RkTaskEvent \in {"CREATE", "DELETE"} => it.TaskHandler # h
    BY <2>1, <2>4 DEF InQueues, Needs
  <2>6. ~BeingDeleted(h)
    BY <2>3, <2>5 DEF BeingDeleted
  <2>7. heap' = heap \ {h} /\ ~broken'
    BY <1>1, <1>7, <2>2, <2>5, <2>6 DEF Free
  <2>8. Owned'
    BY <1>0, <1>1, <2>3, <2>4, <2>7 DEF CleanState, Owned, OwnedItem, Holds, Needs
  <2> QED BY <1>1, <1>4, <1>5, <2>2, <2>7, <2>8 DEF CleanState, Agree
<1> QED BY <1>3, <1>6, <1>7 DEF RespReceive

LEMMA SchedulerClean ==
  ASSUME TMTypeOK, Shape, CleanState, Scheduler, cause' = {}
  PROVE  CleanState'
<1> USE TaskAssumption
<1> DEFINE h == schedItem.TaskHandler
<1>0. call \in [Procs -> Call] BY DEF TMTypeOK
<1>1. ASSUME schedItem # NULL, NEW e \in Answers, AnswerWith(e)
      PROVE  /\ schedItem' # NULL /\ schedItem'.RkTaskEvent = e
             /\ schedItem'.who = schedItem.who /\ schedItem'.TaskHandler = h
  <2>1. schedItem \in Item BY <1>1 DEF TMTypeOK
  <2>2. schedItem' = [schedItem EXCEPT !.RkTaskEvent = e] BY <1>1 DEF AnswerWith
  <2>3. schedItem' \in Item BY <2>1, <2>2 DEF Item
  <2> QED BY <2>1, <2>2, <2>3 DEF Item
<1>2. CASE SchedReceive
  <2>1. /\ TaskAskQueue' = NULL /\ schedItem' = TaskAskQueue /\ schedItem = NULL
        /\ UNCHANGED <<heap, listed, hTask, call, TaskRespQueue, broken>>
    BY <1>2 DEF SchedReceive, Shape
  <2>2. Owned' BY <2>1 DEF CleanState, Owned, OwnedItem, Holds
  <2>3. Apart' BY <2>1 DEF CleanState, Apart, ApartCalls, ApartItems, Needs
  <2>4. Matched' BY <2>1 DEF CleanState, Matched, MatchedItem, NotSame
  <2> QED BY <2>1, <2>2, <2>3, <2>4 DEF CleanState, Agree
<1>3. CASE InitFails
  <2>1. schedItem # NULL /\ schedItem.RkTaskEvent = "CREATE"
    BY <1>3 DEF InitFails, Shape, Requests
  <2>2. /\ schedItem' # NULL /\ schedItem'.RkTaskEvent = "CREATE_FAIL"
        /\ schedItem'.who = schedItem.who /\ schedItem'.TaskHandler = h
    BY <1>1, <1>3, <2>1 DEF InitFails, Answers
  <2>3. UNCHANGED <<heap, listed, hTask, call, TaskAskQueue, TaskRespQueue, broken>>
    BY <1>3 DEF InitFails
  <2>4. Owned' BY <2>1, <2>2, <2>3 DEF CleanState, Owned, OwnedItem, Holds
  <2>5. Apart' BY <2>1, <2>2, <2>3 DEF CleanState, Apart, ApartCalls, ApartItems, Needs
  <2>6. Matched' BY <2>1, <2>2, <2>3 DEF CleanState, Matched, MatchedItem, NotSame, Kind
  <2> QED BY <2>3, <2>4, <2>5, <2>6 DEF CleanState, Agree
<1>4. CASE TaskCreated
  <2>1. schedItem # NULL /\ schedItem.RkTaskEvent = "CREATE" /\ h \in heap
    BY <1>4 DEF TaskCreated, Shape, Requests
  <2>2. /\ schedItem' # NULL /\ schedItem'.RkTaskEvent = "CREATE_SUCCESS"
        /\ schedItem'.who = schedItem.who /\ schedItem'.TaskHandler = h
    BY <1>1, <1>4, <2>1 DEF TaskCreated, Answers
  <2>3. /\ UNCHANGED <<heap, call, TaskAskQueue, TaskRespQueue, broken>>
        /\ listed' = listed \cup {h} /\ hTask' = hTask \cup {h}
    BY <1>4 DEF TaskCreated, RKTaskRegister
  <2>4. Needs(schedItem) BY <2>1 DEF Needs
  <2>5. Owned'
    BY <2>2, <2>3, <2>4
    DEF CleanState, Owned, OwnedItem, Holds, Apart, ApartCalls, ApartItems, Needs
  <2>6. Apart' BY <2>2, <2>3 DEF CleanState, Apart, ApartCalls, ApartItems, Needs
  <2>7. Matched' BY <2>1, <2>2, <2>3 DEF CleanState, Matched, MatchedItem, NotSame, Kind
  <2>8. Agree' BY <2>1, <2>3 DEF CleanState, Agree
  <2> QED BY <2>3, <2>5, <2>6, <2>7, <2>8 DEF CleanState
<1>5. CASE NoKernelTask
  BY <1>5 DEF NoKernelTask
<1>6. ASSUME NEW killed \in SUBSET Procs, TaskDeleted(killed)
      PROVE  CleanState'
  <2>1. schedItem # NULL /\ schedItem.RkTaskEvent = "DELETE" /\ Needs(schedItem)
    BY <1>6 DEF TaskDeleted, Shape, Requests, Needs
  <2>2. h # TaskListHead /\ killed \cap Waiting = {}
    BY <1>6 DEF TaskDeleted
  <2>3. /\ listed' = listed \ {h} /\ heap' = heap \ {h} /\ hTask' = hTask \ {h}
        /\ UNCHANGED <<TaskAskQueue, TaskRespQueue, broken>>
        /\ call' = [q \in Procs |-> IF q \in killed THEN Idle ELSE call[q]]
    BY <1>6, <2>2 DEF TaskDeleted, RKTaskUnRegister
  <2>4. Idle.pc = "idle" BY DEF Idle
  <2>5. \/ schedItem' = NULL
        \/ /\ schedItem' # NULL
           /\ schedItem'.RkTaskEvent \in {"DELETE_SUCCESS", "DELETE_FAIL"}
           /\ schedItem'.who = schedItem.who /\ schedItem'.TaskHandler = h
    <3>1. CASE schedItem.who = NULL BY <1>6, <3>1 DEF TaskDeleted
    <3>2. CASE schedItem.who # NULL
      BY <1>1, <1>6, <2>1, <3>2 DEF TaskDeleted, Answers
    <3> QED BY <3>1, <3>2
  <2>6. ~Needs(schedItem)' BY <2>5 DEF Needs
  <2>7. \A q \in Procs : call'[q].pc = "ask" => call[q].pc = "ask" /\ call'[q] = call[q]
    BY <2>3, <2>4
  <2>8. \A q \in Procs : call[q].pc = "wait" => call'[q] = call[q]
    BY <2>2, <2>3 DEF Waiting
  <2>9. Agree' BY <2>3 DEF CleanState, Agree
  <2>10. Owned'
    <3>1. \A q \in Procs : call[q].pc = "ask" => call[q].TaskHandler # h
      BY <2>1 DEF CleanState, Apart, ApartCalls
    <3>2. /\ Needs(TaskAskQueue) => TaskAskQueue.TaskHandler # h
          /\ Needs(TaskRespQueue) => TaskRespQueue.TaskHandler # h
      BY <2>1 DEF CleanState, Apart, ApartItems
    <3>3. \A q \in Procs : call'[q].pc = "ask" =>
             Holds(call[q].RkTaskEvent, call[q].TaskHandler)'
      BY <2>3, <2>7, <3>1 DEF CleanState, Owned, Holds
    <3>4. OwnedItem(TaskAskQueue)' /\ OwnedItem(TaskRespQueue)'
      BY <2>3, <3>2 DEF CleanState, Owned, OwnedItem, Holds, Needs
    <3>5. OwnedItem(schedItem)' BY <2>5 DEF OwnedItem, Holds
    <3> QED BY <3>3, <3>4, <3>5 DEF Owned
  <2>11. Apart'
    BY <2>3, <2>6, <2>7 DEF CleanState, Apart, ApartCalls, ApartItems, Needs
  <2>12. Matched'
    <3>1. MatchedItem(TaskAskQueue)' /\ MatchedItem(TaskRespQueue)'
      <4>1. /\ TaskAskQueue # NULL => TaskAskQueue.who \in Procs \cup {NULL}
            /\ TaskRespQueue # NULL => TaskRespQueue.who \in Procs \cup {NULL}
        BY DEF TMTypeOK, Item
      <4> QED BY <2>3, <2>8, <4>1 DEF CleanState, Matched, MatchedItem
    <3>2. MatchedItem(schedItem)'
      <4>1. schedItem.who \in Procs \cup {NULL} BY <2>1 DEF TMTypeOK, Item
      <4> QED BY <2>1, <2>5, <2>8, <4>1 DEF CleanState, Matched, MatchedItem, Kind
    <3>3. NotSame(TaskAskQueue, schedItem)' /\ NotSame(TaskAskQueue, TaskRespQueue)'
          /\ NotSame(schedItem, TaskRespQueue)'
      BY <2>1, <2>3, <2>5 DEF CleanState, Matched, NotSame
    <3> QED BY <3>1, <3>2, <3>3 DEF Matched
  <2> QED BY <2>3, <2>9, <2>10, <2>11, <2>12 DEF CleanState
<1>7. CASE UseAfterFree
  <2>1. schedItem # NULL BY <1>7 DEF UseAfterFree, Shape
  <2>2. CASE schedPc = "CREATE"
    BY <1>7, <2>1, <2>2 DEF UseAfterFree, Shape, Requests, CleanState, Owned, OwnedItem, Holds
  <2>3. CASE schedPc = "DELETE"
    BY <1>7, <2>1, <2>3 DEF UseAfterFree, Shape, Requests, CleanState, Owned, OwnedItem, Holds, Agree
  <2> QED BY <1>7, <2>2, <2>3 DEF UseAfterFree
<1>8. CASE SchedRespond
  <2>1. /\ TaskRespQueue = NULL /\ TaskRespQueue' = schedItem /\ schedItem' = NULL
        /\ UNCHANGED <<heap, listed, hTask, call, TaskAskQueue, broken>>
    BY <1>8 DEF SchedRespond
  <2>2. Owned' BY <2>1 DEF CleanState, Owned, OwnedItem, Holds
  <2>3. Apart' BY <2>1 DEF CleanState, Apart, ApartCalls, ApartItems, Needs
  <2>4. Matched' BY <2>1 DEF CleanState, Matched, MatchedItem, NotSame
  <2> QED BY <2>1, <2>2, <2>3, <2>4 DEF CleanState, Agree
<1> QED BY <1>2, <1>3, <1>4, <1>5, <1>6, <1>7, <1>8 DEF Scheduler

(* No cause ever goes away, so that what holds without one can be carried  *)
(* from state to state.                                                    *)
LEMMA CauseGrows == ASSUME TMNext PROVE cause \subseteq cause'
<1>1. ASSUME NEW p \in Procs, Caller(p) PROVE cause \subseteq cause'
  BY <1>1 DEF Caller, RKTaskCreate, RKTaskDelete, AskSend, RespReceive
<1>2. CASE Scheduler
  BY <1>2 DEF Scheduler, SchedReceive, InitFails, TaskCreated, NoKernelTask, TaskDeleted,
              UseAfterFree, SchedRespond
<1> QED BY <1>1, <1>2 DEF TMNext

LEMMA CleanNext ==
  ASSUME TMTypeOK, Shape, Clean, TMNext
  PROVE  Clean'
<1> SUFFICES ASSUME cause' = {} PROVE CleanState'
  BY DEF Clean, CleanState
<1>1. CleanState BY CauseGrows DEF Clean, CleanState
<1>2. ASSUME NEW p \in Procs, Caller(p) PROVE CleanState'
  BY <1>1, <1>2, CreateClean, DeleteClean, SendClean, ReceiveClean DEF Caller
<1>3. CASE Scheduler BY <1>1, <1>3, SchedulerClean
<1> QED BY <1>2, <1>3 DEF TMNext

LEMMA CleanAlways == TMSpec => []Clean
<1>1. (\E b \in Blocks, id \in TaskIDs : TMInit(b, id)) => Clean
  <2> SUFFICES ASSUME NEW b \in Blocks, NEW id \in TaskIDs, TMInit(b, id) PROVE Clean
    OBVIOUS
  <2> QED BY DEF TMInit, Clean, Agree, Owned, OwnedItem, Apart, ApartCalls, ApartItems, Needs,
                 Matched, MatchedItem, NotSame, Idle
<1>2. (TMTypeOK /\ Shape) /\ Clean /\ [TMNext]_tmVars => Clean'
  <2> SUFFICES ASSUME TMTypeOK, Shape, Clean, [TMNext]_tmVars PROVE Clean'
    OBVIOUS
  <2>1. CASE UNCHANGED tmVars
    BY <2>1 DEF tmVars, Clean, Agree, Owned, OwnedItem, Holds, Apart, ApartCalls, ApartItems,
                Needs, Matched, MatchedItem, NotSame
  <2>2. CASE TMNext BY <2>2, CleanNext
  <2> QED BY <2>1, <2>2
<1> QED BY <1>1, <1>2, TypeShape, PTL DEF TMSpec

(* Without one of the four causes no block is freed twice or used after it *)
(* was freed, and the list, the heap and the kernel agree.                 *)
THEOREM TaskIntegrity == TMSpec => []Integrity
<1>1. Clean => Integrity BY DEF Clean, Integrity
<1> QED BY <1>1, CleanAlways, PTL

----------------------------------------------------------------------------
(* The refinement of TaskService.  Where a request can be, in each state   *)
(* and in the next one.                                                    *)
Hand(it, p) == it # NULL /\ it.who = p /\ it.RkTaskEvent \in Requests
Gone(it) == it # NULL /\ it.who = NULL /\ it.RkTaskEvent = "DELETE"

LEMMA InHandIs ==
  \A p : /\ InHand(p) <=> call[p].pc = "ask" \/ Hand(TaskAskQueue, p) \/ Hand(schedItem, p)
         /\ InHand(p)' <=> call'[p].pc = "ask" \/ Hand(TaskAskQueue', p) \/ Hand(schedItem', p)
BY DEF InHand, Hand

LEMMA UnawaitedIs ==
  \A b : /\ b \in Unawaited <=> \/ Gone(TaskAskQueue) /\ b = TaskAskQueue.TaskHandler
                                \/ Gone(schedItem) /\ b = schedItem.TaskHandler
         /\ b \in Unawaited' <=> \/ Gone(TaskAskQueue') /\ b = TaskAskQueue'.TaskHandler
                                 \/ Gone(schedItem') /\ b = schedItem'.TaskHandler
BY DEF Unawaited, Gone

LEMMA CallsAre ==
  ASSUME NEW p \in Procs
  PROVE  /\ Calls[p] = IF call[p].pc = "idle" THEN Service!NoCall
                       ELSE [stage |-> IF InHand(p) THEN "asked" ELSE "carriedOut",
                             event |-> call[p].RkTaskEvent, block |-> call[p].TaskHandler]
         /\ Calls'[p] = IF call'[p].pc = "idle" THEN Service!NoCall
                        ELSE [stage |-> IF InHand(p)' THEN "asked" ELSE "carriedOut",
                              event |-> call'[p].RkTaskEvent, block |-> call'[p].TaskHandler]
BY DEF Calls, CallOf, Service!NoCall

\* The same, by field.
LEMMA CallFields ==
  ASSUME NEW p \in Procs
  PROVE  /\ call[p].pc = "idle" => Calls[p].stage = "none"
         /\ call[p].pc # "idle" =>
              /\ Calls[p].stage = IF InHand(p) THEN "asked" ELSE "carriedOut"
              /\ Calls[p].event = call[p].RkTaskEvent
              /\ Calls[p].block = call[p].TaskHandler
         /\ Calls[p].stage = "asked" => call[p].pc # "idle" /\ InHand(p)
<1>1. Service!NoCall.stage = "none" BY DEF Service!NoCall
<1>2. CASE call[p].pc = "idle"
  <2>1. Calls[p] = Service!NoCall BY <1>2, CallsAre
  <2> QED BY <1>1, <1>2, <2>1
<1>3. CASE call[p].pc # "idle"
  <2> DEFINE s == IF InHand(p) THEN "asked" ELSE "carriedOut"
  <2>1. Calls[p] = [stage |-> s, event |-> call[p].RkTaskEvent, block |-> call[p].TaskHandler]
    BY <1>3, CallsAre
  <2>2. s = "asked" => InHand(p) OBVIOUS
  <2>3. Calls[p].stage = s BY <2>1
  <2> HIDE DEF s
  <2>4. Calls[p].stage = "asked" => InHand(p) BY <2>2, <2>3
  <2>5. Calls[p].event = call[p].RkTaskEvent /\ Calls[p].block = call[p].TaskHandler
    BY <2>1
  <2> QED BY <1>3, <2>3, <2>4, <2>5 DEF s
<1> QED BY <1>2, <1>3

\* Two functions on the callers are equal if they agree on every caller.
LEMMA CallsEqual ==
  ASSUME NEW f, \A p \in Procs : Calls'[p] = f[p], f = [p \in Procs |-> f[p]]
  PROVE  Calls' = f
<1>1. Calls' = [p \in Procs |-> Calls'[p]] BY DEF Calls
<1> QED BY <1>1

Same == hTask' = hTask /\ Calls' = Calls /\ Unawaited' = Unawaited

\* A call whose caller and requests stay where they are.
LEMMA CallStays ==
  ASSUME NEW p \in Procs, call'[p] = call[p], InHand(p)' <=> InHand(p)
  PROVE  Calls'[p] = Calls[p]
BY CallsAre

LEMMA AllStay ==
  ASSUME \A p \in Procs : Calls'[p] = Calls[p]
  PROVE  Calls' = Calls
<1>1. Calls = [p \in Procs |-> Calls[p]] BY DEF Calls
<1> QED BY <1>1, CallsEqual

LEMMA UnawaitedStays ==
  ASSUME \A b : b \in Unawaited' <=> b \in Unawaited
  PROVE  Unawaited' = Unawaited
OBVIOUS

\* A block that an open request names is allocated; if it is listed it is being deleted.
LEMMA OpenBlock ==
  ASSUME TMTypeOK, CleanState, NEW b \in Blocks, Service!Open(b)
  PROVE  b \in heap /\ (b \in listed => BeingDeleted(b))
<1>0. /\ Owned /\ Matched /\ listed \subseteq heap BY DEF CleanState, Agree
<1>1. CASE b \in Unawaited
  <2>1. PICK it \in {TaskAskQueue, schedItem} : Gone(it) /\ b = it.TaskHandler
    BY <1>1, UnawaitedIs
  <2>2. Holds("DELETE", b) BY <1>0, <2>1 DEF Gone, Owned, OwnedItem
  <2>3. it \in InQueues BY <2>1 DEF Gone, InQueues
  <2> QED BY <1>0, <2>1, <2>2, <2>3 DEF Holds, BeingDeleted, Gone
<1>2. ASSUME NEW p \in Procs, Calls[p].stage = "asked", Calls[p].block = b
      PROVE  b \in heap /\ (b \in listed => BeingDeleted(b))
  <2>0. p # NULL /\ call[p].RkTaskEvent \in Requests
    BY TaskAssumption DEF TMTypeOK, Call
  <2>1. InHand(p) /\ b = call[p].TaskHandler
    BY <1>2, CallFields
  <2>2. CASE call[p].pc = "ask"
    <3>1. Holds(call[p].RkTaskEvent, b) BY <1>0, <2>1, <2>2 DEF Owned
    <3> QED BY <1>0, <2>0, <2>1, <2>2, <3>1 DEF Holds, BeingDeleted, Requests
  <2>3. ASSUME NEW it \in {TaskAskQueue, schedItem}, Hand(it, p)
        PROVE  b \in heap /\ (b \in listed => BeingDeleted(b))
    <3>1. it.TaskHandler = b BY <1>0, <2>0, <2>1, <2>3 DEF Matched, MatchedItem, Hand
    <3>2. Holds(it.RkTaskEvent, b) BY <1>0, <2>3, <3>1 DEF Owned, OwnedItem, Hand
    <3>3. it \in InQueues BY <2>3 DEF Hand, InQueues
    <3> QED BY <1>0, <2>3, <3>1, <3>2, <3>3 DEF Holds, BeingDeleted, Hand, Requests
  <2> QED BY <2>1, <2>2, <2>3, InHandIs
<1> QED BY <1>1, <1>2 DEF Service!Open

\* A step of one call, which leaves the others as they are.
LEMMA OtherCalls ==
  ASSUME TMTypeOK, NEW p \in Procs, NEW c, call' = [call EXCEPT ![p] = c],
         \A q \in Procs \ {p} : /\ Hand(TaskAskQueue', q) <=> Hand(TaskAskQueue, q)
                                /\ Hand(schedItem', q) <=> Hand(schedItem, q)
  PROVE  \A q \in Procs \ {p} : Calls'[q] = Calls[q]
<1> TAKE q \in Procs \ {p}
<1>1. call'[q] = call[q] BY DEF TMTypeOK
<1> QED BY <1>1, CallStays, InHandIs

LEMMA OneCall ==
  ASSUME NEW p \in Procs, \A q \in Procs \ {p} : Calls'[q] = Calls[q], NEW v, Calls'[p] = v
  PROVE  Calls' = [Calls EXCEPT ![p] = v]
<1> DEFINE f == [Calls EXCEPT ![p] = v]
<1>1. \A q \in Procs : Calls'[q] = f[q] BY DEF Calls
<1>2. f = [q \in Procs |-> f[q]] BY DEF Calls
<1> HIDE DEF f
<1>3. Calls' = f BY <1>1, <1>2, CallsEqual
<1> QED BY <1>3 DEF f

\* A call starts.
LEMMA Starts ==
  ASSUME TMTypeOK, NEW p \in Procs, call[p].pc = "idle",
         UNCHANGED <<hTask, TaskAskQueue, schedItem>>,
         NEW b \in Blocks, ~Service!Open(b), NEW c, call' = [call EXCEPT ![p] = c],
         c.pc = "ask", c.TaskHandler = b,
         c.RkTaskEvent = IF b \in hTask THEN "DELETE" ELSE "CREATE"
  PROVE  Service!Ask(p)
<1> DEFINE e == IF b \in hTask THEN "DELETE" ELSE "CREATE"
<1>1. call'[p] = c BY DEF TMTypeOK
<1>2. Calls'[p] = Service!Asking(e, b)
  BY <1>1, CallsAre, InHandIs DEF Service!Asking
<1>3. \A q \in Procs \ {p} : Calls'[q] = Calls[q] BY OtherCalls
<1>4. Calls' = [Calls EXCEPT ![p] = Service!Asking(e, b)] BY <1>2, <1>3, OneCall
<1>5. Calls[p].stage = "none" BY CallFields
<1>6. Unawaited' = Unawaited BY DEF Unawaited
<1> QED BY <1>4, <1>5, <1>6 DEF Service!Ask

\* A call that could not start.
LEMMA Refused ==
  ASSUME TMTypeOK, NEW p \in Procs, call[p].pc = "idle", Returns(p),
         UNCHANGED <<hTask, TaskAskQueue, schedItem>>
  PROVE  Same
<1>1. call' = [call EXCEPT ![p] = Idle] /\ Idle.pc = "idle" BY DEF Returns, Idle
<1>2. call'[p].pc = "idle" BY <1>1 DEF TMTypeOK
<1>3. Calls'[p] = Calls[p] BY <1>2, CallsAre
<1>4. \A q \in Procs \ {p} : Calls'[q] = Calls[q] BY <1>1, OtherCalls
<1>5. Calls' = Calls BY <1>3, <1>4, AllStay
<1>6. Unawaited' = Unawaited BY DEF Unawaited
<1> QED BY <1>5, <1>6 DEF Same

LEMMA CreateServes ==
  ASSUME TMTypeOK, CleanState, NEW p \in Procs, NEW id \in TaskIDs,
         RKTaskCreate(p, id, Blocks \ heap)
  PROVE  Same \/ Service!Ask(p)
<1>0. call[p].pc = "idle" /\ UNCHANGED <<hTask, TaskAskQueue, schedItem>>
  BY DEF RKTaskCreate
<1>1. ASSUME NEW b \in Blocks \ heap,
             call' = [call EXCEPT ![p] = [Idle EXCEPT !.pc = "ask", !.TaskHandler = b]]
      PROVE  Service!Ask(p)
  <2> DEFINE c == [Idle EXCEPT !.pc = "ask", !.TaskHandler = b]
  <2>1. c.pc = "ask" /\ c.TaskHandler = b /\ c.RkTaskEvent = "CREATE" BY DEF Idle
  <2>2. call' = [call EXCEPT ![p] = c] BY <1>1
  <2> HIDE DEF c
  <2>3. b \notin hTask BY DEF CleanState, Agree
  <2>4. ~Service!Open(b) BY OpenBlock
  <2> QED BY <1>0, <2>1, <2>2, <2>3, <2>4, Starts
<1>2. CASE Returns(p) BY <1>0, <1>2, Refused
<1> QED BY <1>1, <1>2 DEF RKTaskCreate

LEMMA DeleteServes ==
  ASSUME TMTypeOK, CleanState, NEW p \in Procs, NEW id \in TaskIDs, NEW m \in Modes,
         RKTaskDelete(p, id, m), cause' = {}
  PROVE  Same \/ Service!Ask(p)
<1>0. call[p].pc = "idle" /\ UNCHANGED <<hTask, TaskAskQueue, schedItem>>
  BY DEF RKTaskDelete
<1>1. ASSUME NEW b \in RKTaskFind(id), ~BeingDeleted(b),
             call' = [call EXCEPT ![p] = [pc |-> "ask", RkTaskEvent |-> "DELETE",
                                          TaskHandler |-> b, Mode |-> m]]
      PROVE  Service!Ask(p)
  <2> DEFINE c == [pc |-> "ask", RkTaskEvent |-> "DELETE", TaskHandler |-> b, Mode |-> m]
  <2>1. c.pc = "ask" /\ c.TaskHandler = b /\ c.RkTaskEvent = "DELETE" OBVIOUS
  <2>2. call' = [call EXCEPT ![p] = c] BY <1>1
  <2> HIDE DEF c
  <2>3. b \in Blocks /\ b \in listed /\ b \in hTask
    BY DEF RKTaskFind, TMTypeOK, CleanState, Agree
  <2>4. ~Service!Open(b) BY <1>1, <2>3, OpenBlock
  <2> QED BY <1>0, <2>1, <2>2, <2>3, <2>4, Starts
<1>2. CASE Returns(p) BY <1>0, <1>2, Refused
<1>3. \A b \in RKTaskFind(id) : BeingDeleted(b) =>
        cause' # IF BeingDeleted(b) THEN cause \cup {"twice"} ELSE cause
  OBVIOUS
<1> QED BY <1>1, <1>2, <1>3 DEF RKTaskDelete

LEMMA SendServes ==
  ASSUME TMTypeOK, Shape, CleanState, NEW p \in Procs, AskSend(p)
  PROVE  Same \/ Service!Leave(p)
<1> USE TaskAssumption
<1> DEFINE async == call[p].RkTaskEvent = "DELETE" /\ call[p].Mode = "ASYNC_MODE"
           w == IF async THEN NULL ELSE p
           h == call[p].TaskHandler
           new == [TaskHandler |-> h, RkTaskEvent |-> call[p].RkTaskEvent, who |-> w]
<1>0. /\ call \in [Procs -> Call] /\ call[p] \in Call /\ call[p].pc = "ask"
      /\ call[p].RkTaskEvent \in Requests /\ p # NULL
  BY DEF TMTypeOK, AskSend, Call
<1>1. TaskAskQueue = NULL /\ TaskAskQueue' = new /\ UNCHANGED <<hTask, schedItem>>
  BY DEF AskSend
<1>2. /\ new.TaskHandler = h /\ new.RkTaskEvent = call[p].RkTaskEvent
      /\ new.who = w /\ new # NULL
  <2>1. h \in Blocks BY <1>0 DEF Shape
  <2>2. new \in Item BY <1>0, <2>1 DEF Item
  <2> QED BY <2>2
<1>3. InHand(p) /\ Calls[p].stage = "asked" BY <1>0, InHandIs, CallFields
<1> HIDE DEF new
<1>4. \A q \in Procs \ {p} : /\ Hand(TaskAskQueue', q) <=> Hand(TaskAskQueue, q)
                             /\ Hand(schedItem', q) <=> Hand(schedItem, q)
  BY <1>0, <1>1, <1>2 DEF Hand
<1>5. CASE async
  <2>1. call' = [call EXCEPT ![p] = Idle] /\ Idle.pc = "idle" /\ w = NULL
    BY <1>5 DEF AskSend, Returns, Idle
  <2>2. call'[p].pc = "idle" BY <1>0, <2>1
  <2>3. Calls' = [Calls EXCEPT ![p] = Service!NoCall]
    <3>1. Calls'[p] = Service!NoCall BY <2>2, CallsAre
    <3> QED BY <1>4, <2>1, <3>1, OtherCalls, OneCall
  <2>4. Unawaited' = Unawaited \cup {h}
    <3>1. Gone(TaskAskQueue') /\ TaskAskQueue'.TaskHandler = h /\ ~Gone(TaskAskQueue)
      BY <1>1, <1>2, <1>5, <2>1 DEF Gone
    <3>2. \A b : b \in Unawaited' <=> b \in Unawaited \cup {h}
      BY <1>1, <3>1, UnawaitedIs
    <3> QED BY <3>2
  <2>5. Calls[p].event = "DELETE" /\ Calls[p].block = h BY <1>0, <1>5, CallFields
  <2> QED BY <1>1, <1>3, <2>3, <2>4, <2>5 DEF Service!Leave
<1>6. CASE ~async
  <2> DEFINE c == [call[p] EXCEPT !.pc = "wait"]
  <2>1. call' = [call EXCEPT ![p] = c] BY <1>6 DEF AskSend
  <2>2. c.pc = "wait" /\ c.TaskHandler = h /\ c.RkTaskEvent = call[p].RkTaskEvent
    BY <1>0 DEF Call
  <2> HIDE DEF c
  <2>3. call'[p] = c BY <1>0, <2>1
  <2>4. Hand(TaskAskQueue', p) BY <1>0, <1>1, <1>2, <1>6 DEF Hand
  <2>5. InHand(p)' BY <2>4, InHandIs
  <2>6. Calls'[p] = Calls[p] BY <1>0, <1>3, <2>2, <2>3, <2>5, CallsAre
  <2>7. Calls' = Calls BY <1>4, <2>1, <2>6, OtherCalls, AllStay
  <2>8. ~Gone(TaskAskQueue) /\ ~Gone(TaskAskQueue')
    BY <1>0, <1>1, <1>2, <1>6 DEF Gone
  <2>9. Unawaited' = Unawaited BY <1>1, <2>8, UnawaitedIs, UnawaitedStays
  <2> QED BY <1>1, <2>7, <2>9 DEF Same
<1> QED BY <1>5, <1>6

LEMMA ReceiveServes ==
  ASSUME TMTypeOK, CleanState, NEW p \in Procs, RespReceive(p), cause' = {}
  PROVE  Service!Return(p)
<1> USE TaskAssumption
<1>0. /\ call[p].pc = "wait" /\ TaskRespQueue # NULL /\ TaskRespQueue.who = p /\ p # NULL
      /\ UNCHANGED <<hTask, TaskAskQueue, schedItem>>
  BY DEF RespReceive
<1>1. call' = [call EXCEPT ![p] = Idle] /\ Idle.pc = "idle"
  BY DEF RespReceive, Returns, Idle
<1>2. call'[p].pc = "idle" BY <1>1 DEF TMTypeOK
<1>3. ~Hand(TaskAskQueue, p) /\ ~Hand(schedItem, p)
  BY <1>0 DEF CleanState, Matched, NotSame, Hand
<1>4. ~InHand(p) BY <1>0, <1>3, InHandIs
<1>5. Calls[p].stage = "carriedOut" BY <1>0, <1>4, CallFields
<1>6. Calls' = [Calls EXCEPT ![p] = Service!NoCall]
  <2>1. Calls'[p] = Service!NoCall BY <1>2, CallsAre
  <2> QED BY <1>0, <1>1, <2>1, OtherCalls, OneCall
<1>7. Unawaited' = Unawaited BY <1>0 DEF Unawaited
<1> QED BY <1>0, <1>5, <1>6, <1>7 DEF Service!Return

\* A request is carried out.
LEMMA CarriedIs ==
  ASSUME NEW p \in Procs, call[p].pc # "idle", call'[p] = call[p], InHand(p), ~InHand(p)'
  PROVE  Calls'[p] = Service!Carried(Calls[p])
<1>1. Calls[p] = [stage |-> "asked", event |-> call[p].RkTaskEvent,
                  block |-> call[p].TaskHandler]
  BY CallsAre
<1>2. Calls'[p] = [stage |-> "carriedOut", event |-> call[p].RkTaskEvent,
                   block |-> call[p].TaskHandler]
  BY CallsAre
<1> QED BY <1>1, <1>2 DEF Service!Carried

LEMMA CreationServes ==
  ASSUME TMTypeOK, Shape, CleanState, schedPc = "CREATE",
         NEW e \in {"CREATE_SUCCESS", "CREATE_FAIL"}, AnswerWith(e),
         UNCHANGED <<call, TaskAskQueue>>,
         hTask' = hTask \/ hTask' = hTask \cup {schedItem.TaskHandler}
  PROVE  \E p \in Procs : Service!CarryOutCreate(p)
<1> USE TaskAssumption
<1> DEFINE p == schedItem.who
           h == schedItem.TaskHandler
<1>1. /\ schedItem # NULL /\ schedItem \in Item /\ schedItem.RkTaskEvent = "CREATE"
      /\ p # NULL
  BY DEF Shape, TMTypeOK, Requests
<1>2. p \in Procs BY <1>1 DEF Item
<1>3. schedItem' # NULL /\ schedItem'.RkTaskEvent = e /\ schedItem'.who = p
  <2>1. schedItem' \in Item BY <1>1 DEF AnswerWith, Item, Answers
  <2> QED BY <1>1, <2>1 DEF AnswerWith, Item
<1>4. call[p].pc = "wait" /\ call[p].TaskHandler = h /\ call[p].RkTaskEvent = "CREATE"
  BY <1>1 DEF CleanState, Matched, MatchedItem, Kind
<1>5. Hand(schedItem, p) /\ ~Hand(TaskAskQueue, p)
  BY <1>1 DEF CleanState, Matched, NotSame, Hand, Requests
<1>6. \A q : ~Hand(schedItem', q)
  BY <1>3 DEF Hand, Requests
<1>7. \A q \in Procs \ {p} : ~Hand(schedItem, q)
  BY DEF Hand
<1>8. Calls'[p] = Service!Carried(Calls[p])
  BY <1>2, <1>4, <1>5, <1>6, CarriedIs, InHandIs
<1>9. \A q \in Procs \ {p} : Calls'[q] = Calls[q]
  BY <1>6, <1>7, CallStays, InHandIs
<1>10. Calls' = [Calls EXCEPT ![p] = Service!Carried(Calls[p])]
  <2> HIDE DEF p
  <2> QED BY <1>2, <1>8, <1>9, OneCall
<1>11. Calls[p].stage = "asked" /\ Calls[p].event = "CREATE" /\ Calls[p].block = h
  <2>1. InHand(p) BY <1>5, InHandIs
  <2> QED BY <1>2, <1>4, <2>1, CallFields
<1>12. ~Gone(schedItem) /\ ~Gone(schedItem') BY <1>1, <1>3 DEF Gone
<1>13. Unawaited' = Unawaited BY <1>12, UnawaitedIs, UnawaitedStays
<1>14. Service!CarryOutCreate(p) BY <1>10, <1>11, <1>13 DEF Service!CarryOutCreate
<1> QED BY <1>2, <1>14

\* Where a request about the block to be deleted can be.
LEMMA RequestAbout ==
  ASSUME TMTypeOK, Shape, CleanState, schedPc = "DELETE", NEW p \in Procs
  PROVE  /\ schedItem # NULL /\ schedItem.RkTaskEvent = "DELETE"
         /\ Hand(schedItem, p) => /\ call[p].TaskHandler = schedItem.TaskHandler
                                  /\ call[p].pc = "wait" /\ ~Hand(TaskAskQueue, p)
         /\ call[p].pc = "ask" \/ Hand(TaskAskQueue, p) =>
              call[p].TaskHandler # schedItem.TaskHandler
         /\ Gone(TaskAskQueue) => TaskAskQueue.TaskHandler # schedItem.TaskHandler
<1>0. p # NULL BY TaskAssumption
<1>1. schedItem # NULL /\ schedItem.RkTaskEvent = "DELETE" /\ Needs(schedItem)
  BY DEF Shape, Requests, Needs
<1>2. Hand(schedItem, p) => /\ call[p].TaskHandler = schedItem.TaskHandler
                            /\ call[p].pc = "wait" /\ ~Hand(TaskAskQueue, p)
  BY <1>0 DEF CleanState, Matched, MatchedItem, NotSame, Hand
<1>3. call[p].pc = "ask" => call[p].TaskHandler # schedItem.TaskHandler
  BY <1>1 DEF CleanState, Apart, ApartCalls
<1>4. ASSUME Needs(TaskAskQueue) PROVE TaskAskQueue.TaskHandler # schedItem.TaskHandler
  BY <1>1, <1>4 DEF CleanState, Apart, ApartItems
<1>5. Hand(TaskAskQueue, p) => /\ Needs(TaskAskQueue)
                               /\ call[p].TaskHandler = TaskAskQueue.TaskHandler
  BY <1>0 DEF Hand, Needs, Requests, CleanState, Matched, MatchedItem
<1>6. Gone(TaskAskQueue) => Needs(TaskAskQueue) BY DEF Gone, Needs
<1> QED BY <1>1, <1>2, <1>3, <1>4, <1>5, <1>6

LEMMA DeletionServes ==
  ASSUME TMTypeOK, Shape, CleanState, NEW killed \in SUBSET Procs, TaskDeleted(killed),
         cause' = {}
  PROVE  \E b \in {b \in hTask : Service!Open(b)} : Service!CarryOutDelete(b, killed)
<1> USE TaskAssumption
<1> DEFINE h == schedItem.TaskHandler
<1>0. /\ schedPc = "DELETE" /\ h \in hTask /\ hTask' = hTask \ {h}
      /\ UNCHANGED TaskAskQueue /\ killed \cap Waiting = {}
      /\ call' = [q \in Procs |-> IF q \in killed THEN Idle ELSE call[q]]
  BY DEF TaskDeleted
<1>1. schedItem # NULL /\ schedItem \in Item /\ schedItem.RkTaskEvent = "DELETE"
  BY <1>0 DEF Shape, TMTypeOK, Requests
<1>2. schedItem' = NULL \/ (schedItem' # NULL /\ schedItem'.RkTaskEvent \in Answers)
  <2>1. CASE schedItem' = NULL BY <2>1
  <2>2. ASSUME NEW e \in {"DELETE_SUCCESS", "DELETE_FAIL"}, AnswerWith(e)
        PROVE  schedItem' # NULL /\ schedItem'.RkTaskEvent \in Answers
    <3>1. schedItem' \in Item BY <1>1, <2>2 DEF AnswerWith, Item, Answers
    <3>2. schedItem'.RkTaskEvent = e BY <1>1, <2>2 DEF AnswerWith, Item
    <3> QED BY <3>1, <3>2 DEF Answers
  <2> QED BY <2>1, <2>2 DEF TaskDeleted
<1>3. ~Gone(schedItem') /\ \A q : ~Hand(schedItem', q)
  BY <1>2 DEF Gone, Hand, Requests, Answers
<1>4. h \in hTask /\ Service!Open(h)
  <2>1. CASE schedItem.who = NULL
    <3>1. Gone(schedItem) BY <1>1, <2>1 DEF Gone
    <3>2. h \in Unawaited BY <3>1, UnawaitedIs
    <3> QED BY <1>0, <3>2 DEF Service!Open
  <2>2. CASE schedItem.who # NULL
    <3>1. PICK p \in Procs : p = schedItem.who BY <1>1, <2>2 DEF Item
    <3>2. Hand(schedItem, p) BY <1>1, <3>1 DEF Hand, Requests
    <3>3. call[p].TaskHandler = h /\ call[p].pc = "wait" BY <1>0, <3>2, RequestAbout
    <3>4. InHand(p) BY <3>2, InHandIs
    <3>5. Calls[p].stage = "asked" /\ Calls[p].block = h BY <3>3, <3>4, CallFields
    <3> QED BY <1>0, <3>5 DEF Service!Open
  <2> QED BY <2>1, <2>2
<1>5. Unawaited' = Unawaited \ {h}
  <2>1. Gone(TaskAskQueue) => TaskAskQueue.TaskHandler # h
    BY <1>0, <1>1 DEF Gone, CleanState, Apart, ApartItems, Needs
  <2>2. \A b : b \in Unawaited' => b \in Unawaited \ {h}
    BY <1>0, <1>3, <2>1, UnawaitedIs
  <2>3. \A b : b \in Unawaited \ {h} => b \in Unawaited'
    BY <1>0, UnawaitedIs
  <2> QED BY <2>2, <2>3
<1>6. \A p \in killed : Calls[p].stage # "carriedOut"
  <2> TAKE p \in killed
  <2>1. call[p].pc \in {"idle", "ask"} BY <1>0 DEF Waiting, TMTypeOK, Call
  <2>2. call[p].pc = "ask" => InHand(p) BY InHandIs
  <2> QED BY <2>1, <2>2, CallFields
<1> DEFINE f == [p \in Procs |->
                 IF p \in killed THEN Service!NoCall
                 ELSE IF Calls[p].stage = "asked" /\ Calls[p].block = h
                      THEN Service!Carried(Calls[p])
                 ELSE Calls[p]]
<1>7. ASSUME NEW p \in Procs PROVE Calls'[p] = f[p]
  <2>1. CASE p \in killed
    <3>1. call'[p].pc = "idle" BY <1>0, <2>1 DEF Idle
    <3> QED BY <2>1, <3>1, CallsAre
  <2>2. CASE p \notin killed
    <3>1. call'[p] = call[p] BY <1>0, <2>2
    <3>2. InHand(p)' <=> call[p].pc = "ask" \/ Hand(TaskAskQueue, p)
      BY <1>0, <1>3, <3>1, InHandIs
    <3>3. CASE Calls[p].stage = "asked" /\ Calls[p].block = h
      <4>1. call[p].pc # "idle" /\ InHand(p) /\ call[p].TaskHandler = h
        BY <3>3, CallFields
      <4>2. ~InHand(p)' BY <1>0, <3>2, <4>1, RequestAbout
      <4>3. Calls'[p] = Service!Carried(Calls[p]) BY <3>1, <4>1, <4>2, CarriedIs
      <4> QED BY <2>2, <3>3, <4>3
    <3>4. CASE ~(Calls[p].stage = "asked" /\ Calls[p].block = h)
      <4>1. CASE call[p].pc = "idle"
        <5>1. Calls'[p] = Calls[p] BY <3>1, <4>1, CallsAre
        <5> QED BY <2>2, <3>4, <5>1
      <4>2. CASE call[p].pc # "idle"
        <5>1. ~Hand(schedItem, p)
          <6>1. Hand(schedItem, p) => InHand(p) /\ call[p].TaskHandler = h
            BY <1>0, RequestAbout, InHandIs
          <6> QED BY <3>4, <4>2, <6>1, CallFields
        <5>2. InHand(p)' <=> InHand(p) BY <3>2, <5>1, InHandIs
        <5>3. Calls'[p] = Calls[p] BY <3>1, <5>2, CallStays
        <5> QED BY <2>2, <3>4, <5>3
      <4> QED BY <4>1, <4>2
    <3> QED BY <3>3, <3>4
  <2> QED BY <2>1, <2>2
<1>8. f = [p \in Procs |-> f[p]] OBVIOUS
<1>9. Calls' = f
  <2> HIDE DEF f
  <2> QED BY <1>7, <1>8, CallsEqual
<1>10. Service!CarryOutDelete(h, killed)
  <2> HIDE DEF h
  <2> QED BY <1>0, <1>5, <1>6, <1>9 DEF Service!CarryOutDelete
<1> QED BY <1>4, <1>10

LEMMA SchedulerServes ==
  ASSUME TMTypeOK, Shape, CleanState, Scheduler, cause' = {}, CleanState'
  PROVE  Same \/ Service!Serve
<1>1. CASE SchedReceive
  <2>1. /\ schedItem = NULL /\ TaskAskQueue' = NULL /\ schedItem' = TaskAskQueue
        /\ UNCHANGED <<call, hTask>>
    BY <1>1 DEF SchedReceive, Shape
  <2>2. \A p : InHand(p)' <=> InHand(p) BY <2>1, InHandIs DEF Hand
  <2>3. Calls' = Calls BY <2>1, <2>2, CallStays, AllStay
  <2>4. Unawaited' = Unawaited BY <2>1, UnawaitedIs, UnawaitedStays DEF Gone
  <2> QED BY <2>1, <2>3, <2>4 DEF Same
<1>2. CASE InitFails \/ TaskCreated
  <2>1. \E e \in {"CREATE_SUCCESS", "CREATE_FAIL"} : AnswerWith(e)
    BY <1>2 DEF InitFails, TaskCreated
  <2>2. /\ schedPc = "CREATE" /\ UNCHANGED <<call, TaskAskQueue>>
        /\ hTask' = hTask \/ hTask' = hTask \cup {schedItem.TaskHandler}
    BY <1>2 DEF InitFails, TaskCreated
  <2>3. \E p \in Procs : Service!CarryOutCreate(p) BY <2>1, <2>2, CreationServes
  <2> QED BY <2>3 DEF Service!Serve
<1>3. CASE NoKernelTask BY <1>3 DEF NoKernelTask
<1>4. ASSUME NEW killed \in SUBSET Procs, TaskDeleted(killed)
      PROVE  Same \/ Service!Serve
  BY <1>4, DeletionServes DEF Service!Serve
<1>5. CASE UseAfterFree BY <1>5 DEF UseAfterFree, CleanState
<1>6. CASE SchedRespond
  <2>1. schedItem' = NULL /\ UNCHANGED <<call, hTask, TaskAskQueue>>
    BY <1>6 DEF SchedRespond
  <2>2. schedItem.RkTaskEvent \in Answers BY <1>6 DEF SchedRespond, Shape
  <2>3. ~Gone(schedItem) /\ ~Gone(schedItem') BY <2>1, <2>2 DEF Gone, Answers
  <2>4. \A p : ~Hand(schedItem, p) /\ ~Hand(schedItem', p)
    BY <2>1, <2>2 DEF Hand, Answers, Requests
  <2>5. \A p \in Procs : InHand(p)' <=> InHand(p) BY <2>1, <2>4, InHandIs
  <2>6. Calls' = Calls BY <2>1, <2>5, CallStays, AllStay
  <2>7. Unawaited' = Unawaited BY <2>1, <2>3, UnawaitedIs, UnawaitedStays
  <2> QED BY <2>1, <2>6, <2>7 DEF Same
<1> QED BY <1>1, <1>2, <1>3, <1>4, <1>5, <1>6 DEF Scheduler

LEMMA CallerServes ==
  ASSUME TMTypeOK, Shape, CleanState, NEW p \in Procs, Caller(p), cause' = {}
  PROVE  Same \/ Service!Serve
BY CreateServes, DeleteServes, SendServes, ReceiveServes DEF Caller, Service!Serve

LEMMA ServesNext ==
  ASSUME TMTypeOK, Shape, Clean, [TMNext]_tmVars
  PROVE  [Service!Next]_(Service!vars)
<1>1. CASE UNCHANGED tmVars
  <2>1. UNCHANGED <<hTask, call, TaskAskQueue, schedItem, cause>> BY <1>1 DEF tmVars
  <2>2. \A p : InHand(p)' <=> InHand(p) BY <2>1 DEF InHand
  <2>3. Calls' = Calls BY <2>1, <2>2, CallStays, AllStay
  <2>4. Unawaited' = Unawaited BY <2>1 DEF Unawaited
  <2> QED BY <2>1, <2>3, <2>4 DEF Service!vars
<1>2. CASE TMNext /\ cause' # {} BY <1>2 DEF Service!Next
<1>3. CASE TMNext /\ cause' = {}
  <2>1. cause = {} BY <1>3, CauseGrows
  <2>2. CleanState BY <2>1 DEF Clean, CleanState
  <2>3. CleanState' BY <1>3, CleanNext DEF Clean, CleanState
  <2>4. Same \/ Service!Serve
    BY <1>3, <2>2, <2>3, CallerServes, SchedulerServes DEF TMNext
  <2>5. CASE Same BY <1>3, <2>1, <2>5 DEF Same, Service!vars
  <2>6. CASE Service!Serve BY <1>3, <2>1, <2>6 DEF Service!Next
  <2> QED BY <2>4, <2>5, <2>6
<1> QED BY <1>1, <1>2, <1>3

(* Unless one of the causes has happened, each request to create or to     *)
(* delete a task is carried out once, after the call began and before the  *)
(* call that waits for it returns: RKTaskCreate, RKTaskDelete and          *)
(* OSSchedulerTask implement TaskService.                                  *)
THEOREM TaskServes == TMSpec => ServesCalls
<1>1. (\E b \in Blocks, id \in TaskIDs : TMInit(b, id)) => Service!Init
  <2> SUFFICES ASSUME NEW b \in Blocks, NEW id \in TaskIDs, TMInit(b, id) PROVE Service!Init
    OBVIOUS
  <2>1. /\ hTask = {b} /\ cause = {} /\ TaskAskQueue = NULL /\ schedItem = NULL
        /\ \A p \in Procs : call[p].pc = "idle"
    BY DEF TMInit, Idle
  <2>2. Calls = [p \in Procs |-> Service!NoCall]
    BY <2>1 DEF Calls, CallOf, Service!NoCall
  <2>3. Unawaited = {} BY <2>1 DEF Unawaited
  <2> QED BY <2>1, <2>2, <2>3 DEF Service!Init
<1>2. TMTypeOK /\ Shape /\ Clean /\ [TMNext]_tmVars => [Service!Next]_(Service!vars)
  BY ServesNext
<1>3. TMSpec => []Clean BY CleanAlways
<1> QED BY <1>1, <1>2, <1>3, TypeShape, PTL DEF TMSpec, ServesCalls, Service!Spec
=============================================================================
