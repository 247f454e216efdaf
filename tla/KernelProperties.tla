-------------------------- MODULE KernelProperties --------------------------
(***************************************************************************)
(* What the scheduler of module Kernel has to guarantee.                   *)
(***************************************************************************)
EXTENDS Kernel, Queues

\* How many entries of t its ready list holds, and how long a list may grow:
\* the generator sizes a list with the ACTIVATIONs of the tasks it serves.
Entries(t) == Cardinality(Occurrences(ready[StaticPriority[t]], t))

Slots(p) == UNION {{t} \X (1 .. MaxActivations[t]) :
                     t \in {u \in Tasks : StaticPriority[u] = p}}

\* While a task holds a resource, no other task that may take that resource
\* runs: the reason why GetResource never has to wait.
CeilingProtects ==
  \A t \in Tasks : \A r \in resources[t] :
     running \in Tasks \ {t} => r \notin ResourcesMask[running]

\* No resource has two holders.
ResourceExclusion ==
  \A t, u \in Tasks : t # u => resources[t] \cap resources[u] = {}

\* RemoveTask drops the oldest entry of a list, whichever task it is asked to
\* remove: so whoever runs, and whoever was preempted with a resource in hand,
\* must be the oldest entry of its list.
HoldsHead(t) ==
  ready[StaticPriority[t]] # <<>> /\ Head(ready[StaticPriority[t]]) = t

RunningIsHead == running \in Tasks => HoldsHead(running)

\* A task stands in its ready list once per pending activation, a waiting or
\* suspended one not at all, and it is suspended exactly with none pending.
EntriesMatchActivations ==
  \A t \in Tasks :
     /\ Entries(t) = IF state[t] = "WAITING" THEN 0 ELSE activations[t]
     /\ (state[t] = "SUSPENDED") <=> (activations[t] = 0)

\* AddReady writes without a check: no list outgrows the array generated for it.
ReadyListFits == \A p \in Priorities : Len(ready[p]) <= Cardinality(Slots(p))

\* No task waits for an event it already has: neither an ISR between the
\* application's ClearEvent and WaitEvent, nor one just before, loses a wakeup.
NoLostWakeup ==
  \A t \in Tasks : state[t] = "WAITING" => events[t] \cap eventsWait[t] = {}

\* GetNextTask never reads TasksVar[INVALID_TASK], and Schedule with a task
\* running never gets INVALID_TASK from it; the ISRs find a task to look at
\* whenever the context is TASK.
IndicesValid ==
  /\ ReadyListsEmpty => running = INVALID_TASK
  /\ ReadyListsEmpty => \A t \in Tasks : resources[t] = {}
  /\ (context = "TASK" \/ postIsr) => running \in Tasks

\* One task is RUNNING, the one RunningTask names.
OneRunning == \A t \in Tasks : (state[t] = "RUNNING") <=> (running = t)

\* Whenever the CPU is given to a task, no ready task has a static priority
\* above the one that task runs at.
SwitchPicksHighest ==
  [][running' \notin {running, INVALID_TASK} =>
       \A t \in Tasks : state'[t] = "READY" =>
          StaticPriority[t] <= actualPriority'[running']]_vars

\* A task that is not preemptable loses the CPU only by a call of its own to
\* Schedule, TerminateTask or WaitEvent, never at the end of an ISR or of a
\* service that made another task ready.
NonPreemtiveKeepsCpu ==
  [][(running \in Tasks \ Preemtive /\ running' # running) =>
       (pc[running] = "app" /\ ~postIsr)]_vars

\* A preemptable task without a resource runs although one of higher priority
\* is ready.
Inversion ==
  /\ Up /\ running \in Preemtive /\ resources[running] = {}
  /\ \E t \in Tasks : state[t] = "READY" /\ StaticPriority[t] > actualPriority[running]

\* Such a state ends: the reschedule an ISR skipped because it interrupted a
\* service in the SYS context is made up for by the next tick.
InversionEnds == Inversion ~> ~Inversion

\* With no task running and one ready the CPU is given to a task, even when
\* the ISR that made it ready came between the idle check and the wfi.
ReadyEndsIdle ==
  (Up /\ running = INVALID_TASK /\ ~ReadyListsEmpty) ~> (~Up \/ running # INVALID_TASK)

\* os.h on ActivateTask: "Activating a higher priority task preemts the running
\* task (only if preemtable)".  Back in its own code, a preemptable task is
\* never outranked by a ready one.
HigherPriorityPreempts ==
  (Inversion /\ context = "TASK") => pc[running] # "app" \/ postIsr
=============================================================================
