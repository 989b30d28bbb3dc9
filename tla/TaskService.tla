----------------------------- MODULE TaskService -----------------------------
(***************************************************************************)
(* What RKTaskCreate and RKTaskDelete promise their callers: a request is  *)
(* carried out once, after the call began and before it returns; one that  *)
(* is not waited for is carried out once, some time later.                 *)
(*                                                                         *)
(* A task is known by the block that describes it.                         *)
(***************************************************************************)
CONSTANTS
  Procs,    \* the callers
  Blocks,
  NULL

VARIABLES
  tasks,    \* the tasks that exist
  calls,    \* per caller: what it asked for, and whether that was carried out
  later,    \* tasks whose deletion nobody waits for
  orderly   \* the promise holds: none of the causes in TaskManager happened

vars == <<tasks, calls, later, orderly>>

NoCall == [stage |-> "none", event |-> "CREATE", block |-> NULL]
Asking(event, b) == [stage |-> "asked", event |-> event, block |-> b]
Carried(c) == [c EXCEPT !.stage = "carriedOut"]

\* Some request about b has not been carried out.
Open(b) == b \in later \/ \E p \in Procs : calls[p].stage = "asked" /\ calls[p].block = b

Init ==
  /\ tasks \in {{b} : b \in Blocks}
  /\ calls = [p \in Procs |-> NoCall]
  /\ later = {}
  /\ orderly = TRUE

\* A block is asked for by one caller only, to make a task of it or to end its task.
Ask(p) ==
  /\ calls[p].stage = "none"
  /\ \E b \in Blocks :
       /\ ~Open(b)
       /\ calls' = [calls EXCEPT ![p] = Asking(IF b \in tasks THEN "DELETE" ELSE "CREATE", b)]
  /\ UNCHANGED <<tasks, later>>

\* The caller does not wait.
Leave(p) ==
  /\ calls[p].stage = "asked" /\ calls[p].event = "DELETE"
  /\ calls' = [calls EXCEPT ![p] = NoCall]
  /\ later' = later \cup {calls[p].block}
  /\ UNCHANGED tasks

\* The task's init function may refuse.
CarryOutCreate(p) ==
  /\ calls[p].stage = "asked" /\ calls[p].event = "CREATE"
  /\ calls' = [calls EXCEPT ![p] = Carried(calls[p])]
  /\ tasks' = tasks \/ tasks' = tasks \cup {calls[p].block}
  /\ UNCHANGED later

\* The deleted task b may be a caller itself: what it has asked for is forgotten.
CarryOutDelete(b, killed) ==
  /\ \A p \in killed : calls[p].stage # "carriedOut"
  /\ tasks' = tasks \ {b}
  /\ later' = later \ {b}
  /\ calls' = [p \in Procs |->
                 IF p \in killed THEN NoCall
                 ELSE IF calls[p].stage = "asked" /\ calls[p].block = b THEN Carried(calls[p])
                 ELSE calls[p]]

Return(p) ==
  /\ calls[p].stage = "carriedOut"
  /\ calls' = [calls EXCEPT ![p] = NoCall]
  /\ UNCHANGED <<tasks, later>>

Serve ==
  \/ \E p \in Procs : Ask(p) \/ Leave(p) \/ CarryOutCreate(p) \/ Return(p)
  \/ \E b \in {b \in tasks : Open(b)} : \E killed \in SUBSET Procs : CarryOutDelete(b, killed)

Next == ~orderly' \/ (orderly /\ orderly' /\ Serve)

Spec == Init /\ [][Next]_vars
=============================================================================
