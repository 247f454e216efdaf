------------------------------- MODULE Kernel -------------------------------
(***************************************************************************)
(* The FreeOSEK scheduler of the CIAA firmware: task states, activations,  *)
(* the ready lists, resources with the priority ceiling, events, the two   *)
(* kinds of reschedule (from a task and from the end of an ISR of          *)
(* category 2), and the idle loop.  ChainTask is added by KernelChain.     *)
(*                                                                         *)
(* One step is one critical section (IntSecure_Start .. IntSecure_End) or  *)
(* one assignment made outside of one; interrupts are taken between steps. *)
(* CallTask and JmpTask are taken to switch the CPU at once, with the end  *)
(* of the critical section that decided the switch.                        *)
(***************************************************************************)
EXTENDS Naturals, Sequences

CONSTANTS
  TASKS_COUNT,        \* number of tasks of the OIL configuration
  READYLISTS_COUNT,   \* number of priorities, one ready list each
  RESOURCES_COUNT,    \* number of resources
  Events,             \* the bits of an event mask; a mask is a set of them
  StaticPriority,     \* [Tasks -> Priorities]
  MaxActivations,     \* [Tasks -> Nat \ {0}]
  Extended,           \* the extended tasks (ConstFlags.Extended)
  Preemtive,          \* the preemptable tasks (ConstFlags.Preemtive)
  ResourcesMask,      \* [Tasks -> SUBSET Resources]
  EventsMask,         \* [Tasks -> SUBSET Events]
  ResourcesPriority,  \* [Resources -> Priorities], the generated ceilings
  AutoStart,          \* the sequence of tasks StartOS activates
  IsrActivates,       \* tasks some ISR of category 2, or an alarm, activates
  IsrSetsEvents       \* tasks some ISR of category 2, or an alarm, signals

Tasks == 0 .. TASKS_COUNT - 1
Priorities == 0 .. READYLISTS_COUNT - 1
Resources == 0 .. RESOURCES_COUNT - 1
INVALID_TASK == 255
Masks == SUBSET Events

\* The generator writes TasksConst, ResourcesPriority and AutoStart from the
\* OIL file: a ceiling is the highest priority of the tasks that name the
\* resource, an extended task has ACTIVATION = 1.
ASSUME KernelAssumption ==
  /\ TASKS_COUNT \in 1 .. 255
  /\ READYLISTS_COUNT \in Nat \ {0}
  /\ RESOURCES_COUNT \in Nat
  /\ StaticPriority \in [Tasks -> Priorities]
  /\ MaxActivations \in [Tasks -> Nat \ {0}]
  /\ Extended \subseteq Tasks
  /\ Preemtive \subseteq Tasks
  /\ ResourcesMask \in [Tasks -> SUBSET Resources]
  /\ EventsMask \in [Tasks -> SUBSET Events]
  /\ ResourcesPriority \in [Resources -> Priorities]
  /\ AutoStart \in Seq(Tasks)
  /\ IsrActivates \subseteq Tasks
  /\ IsrSetsEvents \subseteq Tasks
  /\ \A t \in Tasks : \A r \in ResourcesMask[t] :
        StaticPriority[t] <= ResourcesPriority[r]
  /\ \A t \in Extended : MaxActivations[t] = 1

VARIABLES
  state,           \* TasksVar[t].Flags.State
  activations,     \* TasksVar[t].Activations
  actualPriority,  \* TasksVar[t].ActualPriority
  events,          \* TasksVar[t].Events
  eventsWait,      \* TasksVar[t].EventsWait
  resources,       \* TasksVar[t].Resources
  ready,           \* ReadyVar and ReadyConst[p].TaskRef, oldest entry first
  running,         \* RunningTask
  context,         \* ActualContext, as it stands outside of the ISRs
  pc,              \* where in a service each task's code stands
  setArg,          \* <<TaskID, Mask>> of a SetEvent past its checks
  postIsr,         \* an ISR is about to call Schedule_WOChecks
  idle,            \* the idle loop: running it not, before wfi, in wfi
  boot,            \* how many of AutoStart StartOS has activated
  err,             \* E_OK, or the status the ErrorHook runs for
  halted           \* an ISR or StartOS itself sits in ShutdownOS

taskVars == <<state, activations, actualPriority, events, eventsWait, resources>>
cpuVars == <<running, context, idle>>
codeVars == <<pc, setArg, postIsr>>
errorVars == <<err, halted>>
vars == <<taskVars, ready, cpuVars, codeVars, boot, errorVars>>

\* Where a task can be stopped by an interrupt while it is inside a service.
PCs == {"app", "activated", "sysctx", "scheduled", "released", "setevent", "eventset",
        "chain", "shutdown"}
States == {"SUSPENDED", "READY", "RUNNING", "WAITING"}
NoArg == <<0, {}>>

TypeOK ==
  /\ state \in [Tasks -> States]
  /\ activations \in [Tasks -> Nat]
  /\ actualPriority \in [Tasks -> Priorities]
  /\ events \in [Tasks -> Masks]
  /\ eventsWait \in [Tasks -> Masks]
  /\ resources \in [Tasks -> SUBSET Resources]
  /\ ready \in [Priorities -> Seq(Tasks)]
  /\ running \in Tasks \cup {INVALID_TASK}
  /\ context \in {"TASK", "SYS"}
  /\ pc \in [Tasks -> PCs]
  /\ setArg \in [Tasks -> Tasks \X Masks]
  /\ postIsr \in BOOLEAN
  /\ idle \in {"no", "pause", "wfi"}
  /\ boot \in 0 .. Len(AutoStart)
  /\ err \in {"E_OK", "E_OS_ACCESS", "E_OS_ID", "E_OS_LIMIT", "E_OS_NOFUNC",
              "E_OS_RESOURCE", "E_OS_STATE"}
  /\ halted \in BOOLEAN

Init ==
  /\ state = [t \in Tasks |-> "SUSPENDED"]
  /\ activations = [t \in Tasks |-> 0]
  /\ actualPriority = [t \in Tasks |-> 0]
  /\ events = [t \in Tasks |-> {}]
  /\ eventsWait = [t \in Tasks |-> {}]
  /\ resources = [t \in Tasks |-> {}]
  /\ ready = [p \in Priorities |-> <<>>]
  /\ running = INVALID_TASK
  /\ context = "SYS"
  /\ pc = [t \in Tasks |-> "app"]
  /\ setArg = [t \in Tasks |-> NoArg]
  /\ postIsr = FALSE
  /\ idle = "no"
  /\ boot = 0
  /\ err = "E_OK"
  /\ halted = FALSE

(***************************************************************************)
(* Ready lists and the choice of the next task                             *)
(***************************************************************************)

\* Faults: the entry at the wrong end; the priority one too high.
AddReadyAtFront(t) ==
  /\ ready' = [ready EXCEPT ![StaticPriority[t]] = <<t>> \o @]
  /\ actualPriority' = [actualPriority EXCEPT ![t] = StaticPriority[t]]

AddReadyOneAbove(t) ==
  /\ ready' = [ready EXCEPT ![StaticPriority[t]] = Append(@, t)]
  /\ actualPriority' = [actualPriority EXCEPT ![t] = StaticPriority[t] + 1]

\* AddReady also sets the actual priority back to the static one, whatever
\* resources the task holds.
AddReady(t) ==
  /\ ready' = [ready EXCEPT ![StaticPriority[t]] = Append(@, t)]
  /\ actualPriority' = [actualPriority EXCEPT ![t] = StaticPriority[t]]

\* RemoveTask drops the oldest entry of t's list, which need not be t.
RemoveTask(t) == ready' = [ready EXCEPT ![StaticPriority[t]] = Tail(@)]

\* Fault: the first task of any list.
IsHeadOfSomeList(t) == \E p \in Priorities : ready[p] # <<>> /\ t = Head(ready[p])

\* The first task of the highest list that is not empty.
IsReadyHead(t) ==
  \E p \in Priorities :
     /\ ready[p] # <<>>
     /\ t = Head(ready[p])
     /\ \A q \in Priorities : q > p => ready[q] = <<>>

\* A task GetNextTask prefers to the ready lists for the resources it holds:
\* of those, it takes the one of highest actual priority and lowest index.
HoldsResource(t) == resources[t] # {} /\ actualPriority[t] > 0

IsResTask(t) ==
  /\ HoldsResource(t)
  /\ \A u \in Tasks : HoldsResource(u) =>
        \/ actualPriority[u] < actualPriority[t]
        \/ actualPriority[u] = actualPriority[t] /\ t <= u

ReadyListsEmpty == \A p \in Priorities : ready[p] = <<>>

\* What GetNextTask can return.  With every list empty and a resource held it
\* reads TasksVar[INVALID_TASK], and either answer is possible.
GetNextTask(next) ==
  \/ /\ next \in Tasks /\ IsResTask(next)
     /\ \A head \in Tasks : IsReadyHead(head) => actualPriority[next] >= actualPriority[head]
  \/ /\ next \in Tasks /\ IsReadyHead(next)
     /\ \A t \in Tasks : HoldsResource(t) => actualPriority[t] < actualPriority[next]
  \/ next = INVALID_TASK /\ ReadyListsEmpty

(***************************************************************************)
(* Errors.  The ErrorHook of the application ends in ShutdownOS, which      *)
(* loops for ever with the interrupts as they are.  It is entered once:     *)
(* ErrorHookRunning stays set, and a later error is only a return code.     *)
(***************************************************************************)
Up == ~halted
ErrorHookRunning == err # "E_OK"

\* An error in a service of task t, that then loops, or returns to "app".
ErrorHook(t, status) ==
  /\ err' = IF ErrorHookRunning THEN err ELSE status
  /\ pc' = [pc EXCEPT ![t] = IF ErrorHookRunning THEN "app" ELSE "shutdown"]
  /\ UNCHANGED <<taskVars, ready, cpuVars, setArg, postIsr, boot, halted>>

\* The first error in an ISR, or in StartOS: the loop is never left.
ErrorHookOutsideTasks(status) ==
  /\ ~ErrorHookRunning
  /\ err' = status
  /\ halted' = TRUE
  /\ UNCHANGED <<taskVars, ready, cpuVars, codeVars, boot>>

(***************************************************************************)
(* Critical sections shared by tasks, ISRs and StartOS                     *)
(***************************************************************************)
\* Fault: no limit to the activations of a basic task.
ActivableUnlimited(t) == state[t] = "SUSPENDED" \/ t \notin Extended

Activable(t) ==
  \/ state[t] = "SUSPENDED"
  \/ t \notin Extended /\ activations[t] < MaxActivations[t]

\* Fault: a further activation is not counted.
ActivateOnce(t) ==
  /\ activations' = [activations EXCEPT ![t] = 1]
  /\ state' = IF state[t] = "SUSPENDED" THEN [state EXCEPT ![t] = "READY"] ELSE state
  /\ events' = IF state[t] = "SUSPENDED" THEN [events EXCEPT ![t] = {}] ELSE events
  /\ AddReady(t)
  /\ UNCHANGED <<eventsWait, resources>>

Activate(t) ==
  /\ activations' = [activations EXCEPT ![t] = @ + 1]
  /\ state' = IF state[t] = "SUSPENDED" THEN [state EXCEPT ![t] = "READY"] ELSE state
  /\ events' = IF state[t] = "SUSPENDED" THEN [events EXCEPT ![t] = {}] ELSE events
  /\ AddReady(t)
  /\ UNCHANGED <<eventsWait, resources>>

\* The mask SetEvent leaves in TasksVar[t].Events, and whether it ends the wait.
EventsAfter(t, mask) == events[t] \cup (mask \cap EventsMask[t])
WakesUp(t, mask) ==
  state[t] = "WAITING" /\ eventsWait[t] \cap EventsAfter(t, mask) # {}

SetEventBits(t, mask) ==
  /\ events' = IF state[t] # "SUSPENDED"
                 THEN [events EXCEPT ![t] = EventsAfter(t, mask)] ELSE events
  /\ IF WakesUp(t, mask)
       THEN AddReady(t) /\ state' = [state EXCEPT ![t] = "READY"]
       ELSE UNCHANGED <<ready, actualPriority, state>>
  /\ UNCHANGED <<activations, eventsWait, resources>>

\* Fault: the preempted task is left RUNNING.
GiveWayLeavingRunning(t) ==
  \E next \in Tasks :
     /\ GetNextTask(next)
     /\ IF StaticPriority[next] > actualPriority[t]
          THEN /\ state' = [state EXCEPT ![next] = "RUNNING"]
               /\ running' = next
               /\ context' = "TASK"
          ELSE UNCHANGED <<state, running, context>>

\* Schedule gives the CPU from t to the next task, if that has a higher
\* static priority than t's actual one.  t keeps its place in its ready list.
GiveWay(t) ==
  \E next \in Tasks :
     /\ GetNextTask(next)
     /\ IF StaticPriority[next] > actualPriority[t]
          THEN /\ state' = [state EXCEPT ![t] = "READY", ![next] = "RUNNING"]
               /\ running' = next
               /\ context' = "TASK"
          ELSE UNCHANGED <<state, running, context>>

\* Schedule as a task calls it: with a resource held, and not from within
\* another service that set the SYS context, it is refused.
Refused(t) == context = "TASK" /\ resources[t] # {}
ScheduleFrom(t) ==
  /\ ~Refused(t)
  /\ GiveWay(t)
  /\ UNCHANGED <<activations, actualPriority, events, eventsWait, resources,
                 ready, idle, setArg, postIsr, boot, errorVars>>

(***************************************************************************)
(* Services called by the running task                                     *)
(***************************************************************************)
At(t, place) ==
  /\ Up /\ boot = Len(AutoStart) /\ ~postIsr
  /\ running = t /\ pc[t] = place

Goto(t, place) == pc' = [pc EXCEPT ![t] = place]

\* Returned to the application, or on to the reschedule if t is preemptable.
ThenIfPreemtive(t, place) == Goto(t, IF t \in Preemtive THEN place ELSE "app")

ActivateTask(t, id) ==
  /\ At(t, "app")
  /\ IF id \in Tasks /\ Activable(id)
       THEN /\ Activate(id)
            /\ ThenIfPreemtive(t, "activated")
            /\ UNCHANGED <<cpuVars, setArg, postIsr, boot, errorVars>>
       ELSE ErrorHook(t, IF id \in Tasks THEN "E_OS_LIMIT" ELSE "E_OS_ID")

\* The end of ActivateTask: SetActualContext(SYS), Schedule, and the context back.
SetSysContext(t) ==
  /\ At(t, "activated")
  /\ context' = "SYS"
  /\ Goto(t, "sysctx")
  /\ UNCHANGED <<taskVars, ready, running, idle, setArg, postIsr, boot, errorVars>>

ActivateTaskSchedule(t) ==
  /\ At(t, "sysctx")
  /\ ScheduleFrom(t)
  /\ Goto(t, "scheduled")

RestoreTaskContext(t) ==
  /\ At(t, "scheduled")
  /\ context' = "TASK"
  /\ Goto(t, "app")
  /\ UNCHANGED <<taskVars, ready, running, idle, setArg, postIsr, boot, errorVars>>

Schedule(t) ==
  /\ At(t, "app")
  /\ \/ ScheduleFrom(t) /\ UNCHANGED pc
     \/ Refused(t) /\ ErrorHook(t, "E_OS_RESOURCE")

\* The Schedule at the end of ReleaseResource and of SetEvent.
Reschedule(t) ==
  /\ At(t, "released") \/ At(t, "eventset")
  /\ \/ ScheduleFrom(t) /\ Goto(t, "app")
     \/ Refused(t) /\ ErrorHook(t, "E_OS_RESOURCE")

\* Fault: the context stays TASK.
LeaveCpuInTaskContext == running' = INVALID_TASK /\ UNCHANGED <<context, idle>>

\* The CPU is left with no task; Schedule follows in the SYS context.
LeaveCpu == running' = INVALID_TASK /\ context' = "SYS" /\ UNCHANGED idle

TerminateTask(t) ==
  /\ At(t, "app")
  /\ IF resources[t] = {}
       THEN /\ activations' = [activations EXCEPT ![t] = @ - 1]
            /\ state' = [state EXCEPT ![t] =
                           IF activations[t] = 1 THEN "SUSPENDED" ELSE "READY"]
            /\ RemoveTask(t)
            /\ LeaveCpu
            /\ UNCHANGED <<actualPriority, events, eventsWait, resources, codeVars, boot, errorVars>>
       ELSE ErrorHook(t, "E_OS_RESOURCE")

\* Fault: the priority is not raised to the ceiling.
GetResourceNoCeiling(t, r) ==
  /\ At(t, "app")
  /\ IF r \in ResourcesMask[t] \ resources[t]
       THEN /\ resources' = [resources EXCEPT ![t] = @ \cup {r}]
            /\ UNCHANGED <<state, activations, actualPriority, events, eventsWait, ready,
                           cpuVars, codeVars, boot, errorVars>>
       ELSE ErrorHook(t, IF r \in Resources THEN "E_OS_ACCESS" ELSE "E_OS_ID")

GetResource(t, r) ==
  /\ At(t, "app")
  /\ IF r \in ResourcesMask[t] \ resources[t]
       THEN /\ actualPriority' = [actualPriority EXCEPT ![t] =
                 IF @ < ResourcesPriority[r] THEN ResourcesPriority[r] ELSE @]
            /\ resources' = [resources EXCEPT ![t] = @ \cup {r}]
            /\ UNCHANGED <<state, activations, events, eventsWait, ready, cpuVars,
                           codeVars, boot, errorVars>>
       ELSE ErrorHook(t, IF r \in Resources THEN "E_OS_ACCESS" ELSE "E_OS_ID")

\* Fault: any release goes back to the static priority.
IsStatic(t, held, p) == p = StaticPriority[t]

\* p is the priority of t when it holds exactly the resources in held.
IsCeiling(t, held, p) ==
  /\ p \in {StaticPriority[t]} \cup {ResourcesPriority[r] : r \in held}
  /\ p >= StaticPriority[t] /\ \A r \in held : p >= ResourcesPriority[r]

ReleaseResource(t, r) ==
  /\ At(t, "app")
  /\ IF r \in resources[t]
       THEN /\ resources' = [resources EXCEPT ![t] = @ \ {r}]
            /\ \E p \in Priorities :
                  /\ IsCeiling(t, resources[t] \ {r}, p)
                  /\ actualPriority' = [actualPriority EXCEPT ![t] = p]
            /\ ThenIfPreemtive(t, "released")
            /\ UNCHANGED <<state, activations, events, eventsWait, ready, cpuVars,
                           setArg, postIsr, boot, errorVars>>
       ELSE ErrorHook(t, IF r \in Resources THEN "E_OS_NOFUNC" ELSE "E_OS_ID")

\* SetEvent checks its arguments with the interrupts enabled ...
SetEventStatus(id) ==
  IF id \notin Tasks THEN "E_OS_ID"
  ELSE IF id \notin Extended THEN "E_OS_ACCESS"
  ELSE IF state[id] = "SUSPENDED" THEN "E_OS_STATE" ELSE "E_OK"

SetEvent(t, id, mask) ==
  /\ At(t, "app")
  /\ IF SetEventStatus(id) = "E_OK"
       THEN /\ setArg' = [setArg EXCEPT ![t] = <<id, mask>>]
            /\ Goto(t, "setevent")
            /\ UNCHANGED <<taskVars, ready, cpuVars, postIsr, boot, errorVars>>
       ELSE ErrorHook(t, SetEventStatus(id))

\* ... and sets the event in a critical section, where the state may differ.
SetEventSet(t) ==
  LET id == setArg[t][1]
      mask == setArg[t][2]
  IN /\ At(t, "setevent")
     /\ SetEventBits(id, mask)
     /\ IF WakesUp(id, mask) THEN ThenIfPreemtive(t, "eventset") ELSE Goto(t, "app")
     /\ setArg' = [setArg EXCEPT ![t] = NoArg]
     /\ UNCHANGED <<cpuVars, postIsr, boot, errorVars>>

\* Fault: the events already set are not looked at.
WaitEventAlways(t, mask) ==
  /\ At(t, "app")
  /\ IF t \notin Extended THEN ErrorHook(t, "E_OS_ACCESS")
     ELSE IF resources[t] # {} THEN ErrorHook(t, "E_OS_RESOURCE")
     ELSE /\ state' = [state EXCEPT ![t] = "WAITING"]
          /\ eventsWait' = [eventsWait EXCEPT ![t] = mask]
          /\ RemoveTask(t)
          /\ LeaveCpu
          /\ UNCHANGED <<activations, actualPriority, events, resources, codeVars, boot, errorVars>>

WaitEvent(t, mask) ==
  /\ At(t, "app")
  /\ IF t \notin Extended THEN ErrorHook(t, "E_OS_ACCESS")
     ELSE IF resources[t] # {} THEN ErrorHook(t, "E_OS_RESOURCE")
     ELSE /\ mask \cap events[t] = {}
          /\ state' = [state EXCEPT ![t] = "WAITING"]
          /\ eventsWait' = [eventsWait EXCEPT ![t] = mask]
          /\ RemoveTask(t)
          /\ LeaveCpu
          /\ UNCHANGED <<activations, actualPriority, events, resources, codeVars, boot, errorVars>>

ClearEvent(t, mask) ==
  /\ At(t, "app")
  /\ IF t \in Extended
       THEN /\ events' = [events EXCEPT ![t] = @ \ (mask \cap EventsMask[t])]
            /\ UNCHANGED <<state, activations, actualPriority, eventsWait, resources,
                           ready, cpuVars, codeVars, boot, errorVars>>
       ELSE ErrorHook(t, "E_OS_ACCESS")

(***************************************************************************)
(* Interrupts of category 2                                                *)
(***************************************************************************)
InterruptsEnabled == Up /\ boot = Len(AutoStart)

\* Faults: a reschedule for any task, for none, and a wfi that is not ended.
IsrEndAlwaysPosts ==
  /\ postIsr' = (postIsr \/ context = "TASK")
  /\ idle' = IF idle = "wfi" THEN "no" ELSE idle

IsrEndNeverPosts ==
  /\ postIsr' = postIsr
  /\ idle' = IF idle = "wfi" THEN "no" ELSE idle

IsrEndKeepsWaiting ==
  /\ postIsr' = (postIsr \/ (context = "TASK" /\ running \in Preemtive))
  /\ idle' = idle

\* An ISR ends: it calls Schedule_WOChecks if it interrupted a preemptable
\* task in the TASK context, and it ends a wfi.
IsrEnd ==
  /\ postIsr' = (postIsr \/ (context = "TASK" /\ running \in Preemtive))
  /\ idle' = IF idle = "wfi" THEN "no" ELSE idle

\* A service an ISR calls fails.
IsrError(status) ==
  \/ ErrorHookOutsideTasks(status)
  \/ /\ ErrorHookRunning
     /\ IsrEnd
     /\ UNCHANGED <<taskVars, ready, running, context, pc, setArg, boot, errorVars>>

\* A tick on which no alarm expires, or any ISR that calls no service.
IsrNoCall ==
  /\ InterruptsEnabled
  /\ IsrEnd
  /\ UNCHANGED <<taskVars, ready, running, context, pc, setArg, boot, errorVars>>

IsrActivateTask(id) ==
  /\ InterruptsEnabled
  /\ \/ /\ Activable(id)
        /\ Activate(id)
        /\ IsrEnd
        /\ UNCHANGED <<running, context, pc, setArg, boot, errorVars>>
     \/ ~Activable(id) /\ IsrError("E_OS_LIMIT")

IsrSetEvent(id, mask) ==
  /\ InterruptsEnabled
  /\ \/ /\ SetEventStatus(id) = "E_OK"
        /\ SetEventBits(id, mask)
        /\ IsrEnd
        /\ UNCHANGED <<running, context, pc, setArg, boot, errorVars>>
     \/ SetEventStatus(id) # "E_OK" /\ IsrError(SetEventStatus(id))

PostIsr2 ==
  /\ Up /\ postIsr
  /\ \E t \in Tasks : running = t /\ GiveWay(t)
  /\ postIsr' = FALSE
  /\ UNCHANGED <<activations, actualPriority, events, eventsWait, resources,
                 ready, idle, pc, setArg, boot, errorVars>>

(***************************************************************************)
(* StartOS and the scheduler with no running task                          *)
(***************************************************************************)
\* StartOS activates the tasks of AutoStart with the interrupts disabled.
StartOS ==
  /\ Up /\ boot < Len(AutoStart)
  /\ LET t == AutoStart[boot + 1]
     IN IF Activable(t)
          THEN Activate(t) /\ boot' = boot + 1 /\ UNCHANGED <<cpuVars, codeVars, errorVars>>
          ELSE ErrorHookOutsideTasks("E_OS_LIMIT")

NoTask == Up /\ boot = Len(AutoStart) /\ running = INVALID_TASK

Dispatch ==
  /\ NoTask /\ idle = "no"
  /\ \E next \in Tasks :
        /\ GetNextTask(next)
        /\ state' = [state EXCEPT ![next] = "RUNNING"]
        /\ running' = next
  /\ context' = "TASK"
  /\ UNCHANGED <<activations, actualPriority, events, eventsWait, resources,
                 ready, idle, codeVars, boot, errorVars>>

\* Nothing is ready: the interrupts are enabled, then osekpause executes wfi.
IdleEnableInterrupts ==
  /\ NoTask /\ idle = "no"
  /\ GetNextTask(INVALID_TASK)
  /\ idle' = "pause"
  /\ UNCHANGED <<taskVars, ready, running, context, codeVars, boot, errorVars>>

OsekPause ==
  /\ NoTask /\ idle = "pause"
  /\ idle' = "wfi"
  /\ UNCHANGED <<taskVars, ready, running, context, codeVars, boot, errorVars>>

\* ShutdownOS: while(1), in an ISR or in StartOS.
ShutdownOS == ~Up /\ UNCHANGED vars

Service(t) ==
  \/ \E id \in 0 .. TASKS_COUNT : ActivateTask(t, id)
  \/ TerminateTask(t)
  \/ Schedule(t)
  \/ \E r \in 0 .. RESOURCES_COUNT : GetResource(t, r) \/ ReleaseResource(t, r)
  \/ \E id \in 0 .. TASKS_COUNT, mask \in Masks \ {{}} : SetEvent(t, id, mask)
  \/ \E mask \in Masks \ {{}} : WaitEvent(t, mask) \/ ClearEvent(t, mask)

\* What remains of a service that an interrupt may have suspended.
ServiceEnd(t) ==
  \/ SetSysContext(t)
  \/ ActivateTaskSchedule(t)
  \/ RestoreTaskContext(t)
  \/ Reschedule(t)
  \/ SetEventSet(t)

Isr ==
  \/ IsrNoCall
  \/ \E id \in IsrActivates : IsrActivateTask(id)
  \/ \E id \in IsrSetsEvents, mask \in Masks \ {{}} : IsrSetEvent(id, mask)

Next ==
  \/ \E t \in Tasks : Service(t) \/ ServiceEnd(t)
  \/ Isr
  \/ PostIsr2
  \/ StartOS
  \/ Dispatch
  \/ IdleEnableInterrupts
  \/ OsekPause
  \/ ShutdownOS

Spec == Init /\ [][Next]_vars

\* The CPU executes what the kernel has to do, and the system tick recurs;
\* nothing is assumed of the application's own calls.
Fairness ==
  /\ \A t \in Tasks : WF_vars(ServiceEnd(t))
  /\ WF_vars(IsrNoCall)
  /\ WF_vars(PostIsr2)
  /\ WF_vars(StartOS)
  /\ WF_vars(Dispatch)
  /\ WF_vars(OsekPause)

FairSpec == Spec /\ Fairness
=============================================================================
