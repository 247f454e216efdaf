---------------------------- MODULE KernelChain ----------------------------
(***************************************************************************)
(* The scheduler with ChainTask: the caller is terminated and a successor  *)
(* activated in one critical section, after checks made outside of it.     *)
(***************************************************************************)
EXTENDS KernelProperties

\* Fault: a task that holds a resource may be chained.
ChainTaskStatusNoResourceCheck(t, id) ==
  IF id \notin Tasks THEN "E_OS_ID"
  ELSE IF activations[id] + 1 > MaxActivations[id] /\ id # t THEN "E_OS_LIMIT"
  ELSE "E_OK"

\* ChainTask checks its argument with the interrupts enabled ...
ChainTaskStatus(t, id) ==
  IF id \notin Tasks THEN "E_OS_ID"
  ELSE IF resources[t] # {} THEN "E_OS_RESOURCE"
  ELSE IF activations[id] + 1 > MaxActivations[id] /\ id # t THEN "E_OS_LIMIT"
  ELSE "E_OK"

ChainTask(t, id) ==
  /\ At(t, "app")
  /\ IF ChainTaskStatus(t, id) = "E_OK"
       THEN /\ setArg' = [setArg EXCEPT ![t] = <<id, {}>>]
            /\ Goto(t, "chain")
            /\ UNCHANGED <<taskVars, ready, cpuVars, postIsr, boot, errorVars>>
       ELSE ErrorHook(t, ChainTaskStatus(t, id))

\* Faults: the caller stays RunningTask; its activation is not given back.
ChainTaskSwapStaysRunning(t) ==
  LET id == setArg[t][1]
      readyAfter == [ready EXCEPT ![StaticPriority[t]] = Tail(@)]
  IN /\ At(t, "chain")
     /\ activations' = [[activations EXCEPT ![t] = @ - 1] EXCEPT ![id] = @ + 1]
     /\ state' = [state EXCEPT ![t] = "SUSPENDED"]
     /\ ready' = [readyAfter EXCEPT ![StaticPriority[id]] = Append(@, id)]
     /\ actualPriority' = [actualPriority EXCEPT ![id] = StaticPriority[id]]
     /\ Goto(t, "app")
     /\ setArg' = [setArg EXCEPT ![t] = NoArg]
     /\ UNCHANGED <<events, eventsWait, resources, cpuVars, postIsr, boot, errorVars>>

ChainTaskSwapNotGivenBack(t) ==
  LET id == setArg[t][1]
      readyAfter == [ready EXCEPT ![StaticPriority[t]] = Tail(@)]
  IN /\ At(t, "chain")
     /\ activations' = [activations EXCEPT ![id] = @ + 1]
     /\ state' = [state EXCEPT ![t] = "SUSPENDED"]
     /\ ready' = [readyAfter EXCEPT ![StaticPriority[id]] = Append(@, id)]
     /\ actualPriority' = [actualPriority EXCEPT ![id] = StaticPriority[id]]
     /\ LeaveCpu
     /\ Goto(t, "app")
     /\ setArg' = [setArg EXCEPT ![t] = NoArg]
     /\ UNCHANGED <<events, eventsWait, resources, postIsr, boot, errorVars>>

\* ... then gives up its place in the ready list and appends the successor,
\* whose state it leaves as it was.
ChainTaskSwap(t) ==
  LET id == setArg[t][1]
      stateAfter == [state EXCEPT ![t] = IF activations[t] = 1 THEN "SUSPENDED" ELSE "READY"]
      readyAfter == [ready EXCEPT ![StaticPriority[t]] = Tail(@)]
  IN /\ At(t, "chain")
     /\ activations' = [[activations EXCEPT ![t] = @ - 1] EXCEPT ![id] = @ + 1]
     /\ state' = stateAfter
     /\ events' = IF stateAfter[id] = "SUSPENDED" THEN [events EXCEPT ![id] = {}] ELSE events
     /\ ready' = [readyAfter EXCEPT ![StaticPriority[id]] = Append(@, id)]
     /\ actualPriority' = [actualPriority EXCEPT ![id] = StaticPriority[id]]
     /\ LeaveCpu
     /\ Goto(t, "app")
     /\ setArg' = [setArg EXCEPT ![t] = NoArg]
     /\ UNCHANGED <<eventsWait, resources, postIsr, boot, errorVars>>

ChainNext ==
  \/ Next
  \/ \E t \in Tasks, id \in 0 .. TASKS_COUNT : ChainTask(t, id)
  \/ \E t \in Tasks : ChainTaskSwap(t)

ChainSpec == Init /\ [][ChainNext]_vars

\* ChainTask.c: chained to itself, a task "does not result in multiple
\* requests": the number of its activations is the same before and after.
SelfChainKeepsActivations ==
  [][\A t \in Tasks : (pc[t] = "chain" /\ setArg[t][1] = t /\ pc'[t] = "app") =>
        activations'[t] = activations[t] /\ Entries(t)' = Entries(t)]_vars
=============================================================================
