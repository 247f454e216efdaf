# Verification of the PanelLed firmware

The repository holds the firmware of an LED panel: an EDU-CIAA-NXP board
(LPC4337, Cortex-M4) that scrolls a message over a chain of MAX7219 matrices and
lets a user edit it with a keypad. The application (`projects/myproject`) is a few
hundred lines on top of the CIAA firmware: FreeOSEK (an OSEK/VDX kernel), a POSIX
layer for devices, drivers, and a library of ring buffers. All paths below are
relative to `src/Firmware/`; `examples/modules` is a copy of `modules` and is not
looked at again.

The TLA+ modules here are translated from the C code (and from the PHP templates
that generate the kernel's tables). TLC checks them on small instances; TLAPS
proves the safety properties of every component but `KernelChain` for all values
of the constants.

## 1. Inventory

### The kernel, `modules/rtos` (FreeOSEK)

*State.* For each task (`TasksVar`, generated by `gen/src/Os_Internal_Cfg.c.php`):
its state, pending activations, actual priority, event mask, awaited mask and
the resources it holds. For each priority a ready list: a ring array
`ReadyConst[p].TaskRef` with a start and a count in `ReadyVar[p]`. Globally:
`RunningTask`, `ActualContext` (TASK, SYS or ISR2), `ErrorHookRunning`,
`SuspendAllInterrupts_Counter`, and for alarms and counters their state, time and
cycle time.

*Operations.* `StartOS`, `ShutdownOS`, `ActivateTask`, `TerminateTask`, `ChainTask`,
`Schedule`, `GetResource`, `ReleaseResource`, `SetEvent`, `WaitEvent`, `ClearEvent`,
`GetEvent`, `SetRelAlarm`, `SetAbsAlarm`, `CancelAlarm`, `GetAlarm`; internally `AddReady`,
`RemoveTask`, `GetNextTask`, `IncrementCounter`, `IncrementAlarm`; the ISRs of category 2
(`OSEK_ISR2_*`) and the system tick; the port's `CallTask`, `JmpTask`, `SaveContext`
and the PendSV handler.

*How they interact.* Tasks call services; each service has a critical section
with all interrupts disabled and, after it, possibly a reschedule. An ISR calls
`ActivateTask`, `SetEvent` or an alarm action in the ISR2 context and reschedules
at its end (`PostIsr2`) when it interrupted a preemptable task in the TASK context.
There is no other concurrency: one CPU, tasks that interleave at interrupts.

*Hard.* Argument checks made before the critical section; the reschedule at the
end of a service that an ISR can interrupt; the ISR that finds the context SYS
and reschedules nobody; the idle loop that enables the interrupts and then
executes `wfi`; `RemoveTask`, which removes the head of a list whoever is to be
removed; an error whose hook never returns.

*Correct when.* No two tasks run, nor hold one resource; the ready lists agree
with the states and activations; every reschedule picks the highest ready
priority; a higher priority preempts; no wakeup is lost; the system leaves the
idle loop when there is work.

### Alarms and counters, `modules/rtos`

*State.* `AlarmsVar[a]` (state, time to the next expiration, cycle) and
`CountersVar[c].Time`. *Operations.* `SetRelAlarm`, `SetAbsAlarm`, `CancelAlarm`,
`GetAlarm`, `IncrementCounter` from the tick (which expires alarms: activate a
task, set an event, call back, increment a further counter). *Hard.* An alarm set
or cancelled while the tick expires it; checks outside of the critical section;
cycles shorter than one increment. *Correct when* an alarm expires after exactly its
offset and then once per cycle, and its services act on the state they checked.

### The Cortex-M4 port, `modules/rtos/*/cortexM4`

*State.* The stacked contexts, `TerminatingTask`, `WaitingTask`, the NVIC's pending
PendSV. *Hard.* The kernel's notion of the running task changes before the CPU
does: an interrupt between `IntSecure_End` and the PendSV finds `RunningTask` already
set to the next task.

### POSIX layer, `modules/posix`, and kernel glue, `modules/ciaak`

File descriptors (`ciaaPOSIX_stdio.c`), a device table (`ciaaDevices.c`), the serial
device (`ciaaSerialDevices.c`: two ring buffers, one task blocked on the event
`POSIXE`, callbacks from the UART's ISRs), block and digital-I/O devices, and an
allocator that never frees. *Hard.* A reader and a writer share the one `blocked` slot;
the ISR that empties or fills the ring between the check and `WaitEvent`; transfers
of length zero. *Correct when* bytes arrive once and in order, and a
blocked task wakes when its condition holds.

### Ring buffer, `modules/libs`

`ciaaLibs_CircBuf`: head and tail in one power-of-two array, one producer and one
consumer in different contexts, no lock. *Correct when* it is a FIFO of the bytes
put, for every interleaving of `Put` and `Get`.

### Drivers, `modules/drivers`

UART (receive FIFO, ISRs), DIO (the panel's outputs and keypad inputs), AIO,
flash. *Hard* in the UART: a receive buffer filled by the ISR and emptied by a task.

### Application, `projects/myproject`

`myproject.c` (the tasks `InitTask`, `SwitchesTask`, `PeriodicTask`), `botonera.c` (scan
and debounce of the keypad, the editor of the message), `LedControl.c` (MAX7219 over
bit-banged SPI, the scrolling of the message). `SwitchesTask` scrolls for ever;
`PeriodicTask`, of higher priority and activated by an alarm, scans the keypad and
replaces the message that is being scrolled. *Hard.* The message is read and
written by two tasks without a lock; the editor's cursor and its bounds; a
`PeriodicTask` that overruns its period takes the ErrorHook from the tick.

### Modbus, `modules/modbus`

Not linked into the panel, but part of the firmware (`examples/blinking_modbus*`).
*State.* The gateway's clients (state, message, server, timeout) and servers (busy);
for each master its command, retries, result and the task that waits for it; for
each line the frame that came in. *Operations.* `gatewayMainTask`, run by a task an
alarm activates; the master's commands, called by other tasks, which block on the
event MODBUSE. *Hard.* Answers that are lost or come after the wait was given
up; retries; a task that preempts the gateway inside a master's functions; the
buffer the gateway uses again for the next message. *Correct when* an answer reaches
the client that asked, a server is busy for one client at a time, and every
command ends with the result its task is told.

### Not part of the program, or not looked at

The PLC modules are not linked into the panel; the other ports (x86, MIPS, K60),
`externals`, the code generator, Hardware and the tests drive or surround it.

## 2. Modules and plan

| module | models |
| --- | --- |
| `Kernel` | the scheduler: all services but `ChainTask`, ISRs of category 2, idle loop, errors |
| `KernelProperties` | what the scheduler guarantees |
| `KernelChain` | `Kernel` with `ChainTask` |
| `Queues`, `QueueLemmas` | occurrences of an element in a sequence; lemmas on `Append`, `Tail`, `Head`, and on how long a sequence of limited occurrences can be |
| `KernelProofs` | types, ready lists, the running task, indices, wakeups, non-preemptable tasks |
| `KernelCeilingProofs` | the priority ceiling, mutual exclusion, the choice at a switch |
| `Alarms`, `AlarmsHistory`, `AlarmsProofs` | alarms, counters and the cascade of counters; what was asked of each alarm; their proofs |
| `CircBuf`, `Fifo`, `CircBufProofs` | the ring buffer, the queue it implements, and the proof that it does |
| `SerialDevice`, `SerialProofs` | the serial device over two rings, the UART's ISR and registers, blocked tasks; its proofs |
| `Panel`, `PanelProofs` | the editor of the message, the settings, and the scan of the message; its proofs |
| `Modbus`, `ModbusProofs` | the Modbus gateway with masters, slaves and lines; its proofs |
| `MCKernel`, `MCKernelChain`, `MCAlarms`, `MCCircBuf`, `MCModbus` | instances for TLC |

`KernelChain` extends `Kernel`; `AlarmsHistory` extends `Alarms`; `CircBuf` instantiates
`Fifo` under a refinement mapping; `SerialDevice` instantiates `CircBuf` twice, for the
arithmetic of its two rings, and takes a `Put` as one step because `CircBufProofs` says
it may. The events of `SerialDevice` and `Modbus` are those of `Kernel`, whose
`NoWakeupIsLost` is why `WaitEvent` is one guard there.

What could still be added, in this order: `ReadyList` (the ring arrays behind the ready
lists, which `Kernel` takes as sequences), `CortexM4Port` (the CPU against `RunningTask`,
PendSV and the interrupts between), and proofs about `KernelChain`: as it leaves a
successor SUSPENDED in its ready list, it needs another invariant than `KernelInv`.

## 3. The scheduler

### State and steps (`Kernel`)

A step is one critical section (`IntSecure_Start` to `IntSecure_End`), or one
assignment outside of one that an ISR can tell apart. A service that has more
than one is split there, and `pc[t]` says where task `t` stands:

| `pc` | where | code |
| --- | --- | --- |
| `activated` | critical section of `ActivateTask` done, context still TASK | `ActivateTask.c:169-181` |
| `sysctx` | context set to SYS, `Schedule` not yet called | `ActivateTask.c:181-185` |
| `scheduled` | `Schedule` done, context not yet restored | `ActivateTask.c:185-188` |
| `setevent` | checks of `SetEvent` passed | `SetEvent.c:119-123` |
| `eventset`, `released` | about to call `Schedule` | `SetEvent.c:164`, `ReleaseResource.c:193` |
| `chain` | checks of `ChainTask` passed | `ChainTask.c:139-145` |
| `shutdown` | in the ErrorHook's `ShutdownOS`, for ever | `myproject.c:165-170` |

The other services do everything that matters in one critical section. `ready[p]`
is the sequence of the entries of the ready list of priority `p`, oldest first
(priority 0 lowest; the code stores the lists in reverse order). `context` is
`ActualContext` outside of ISRs: an ISR saves and restores it, and is one step, so
CONTEXT_ISR2 is never seen. `postIsr` holds between an ISR's decision to
reschedule and the `Schedule_WOChecks` that does so. `idle` is where `Schedule`'s idle
loop stands. Events and resources of a task are sets of bits. The `GetNextTask`
of the code, with its two maxima (the ready lists and the holders of resources), is
the predicate `GetNextTask(next)`.

An ISR of category 2 is any of: no service called, one task activated, one event
set; `IsrActivates` and `IsrSetsEvents` bound which tasks. This stands for the
tick (which acts through the alarms) and for the UART's ISRs.

The application's ErrorHook calls `ShutdownOS`, which loops for ever *without*
disabling the interrupts (`ShutdownOs_Arch` is empty on the Cortex-M4). So an
error ends the task it happens in, at its priority, while ISRs and higher tasks go
on; an error inside an ISR, or in `StartOS`, ends the system (`halted`). A second
error finds `ErrorHookRunning` set and just returns its code.

Abstractions: `CallTask`/`JmpTask` switch the CPU with the end of the critical section
(the window in between is left to `CortexM4Port`); one ISR at a time; hooks other
than the ErrorHook, `GetTaskState`, `GetEvent` and the other services without an effect
are left out; internal resources (not configured) too.

### Runs

`panel` and `inversion` run the panel's own configuration: its three extended tasks,
their priorities and preemptability, the resource POSIXR they share, the event
POSIXE. `mixed` runs a configuration the panel does not have but the kernel
supports: four preemptable tasks, two of one priority, one with two activations,
nested resources of different ceilings. `chain` runs three tasks with `ChainTask`.
All the state is finite without any bound of ours. Instances of three or four tasks
exercise every pair of neighbours a list or a priority comparison distinguishes;
the proofs cover every other size.

| run | question | result |
| --- | --- | --- |
| `panel` | types, ceiling, wakeups, indices, choice at a switch, non-preemptable tasks; an inversion ends; ready work ends the idle loop | hold |
| `mixed` | the same ready list for several tasks and activations, nested resources | hold |
| `chain` | chaining keeps ceiling, list heads and activations | hold |
| `inversion` | `HigherPriorityPreempts` | violated |

*inversion*: an ISR that activates a higher task while a service of a lower one has
set the SYS context does not reschedule, and the service, past its `Schedule`, returns
to the lower task; `modules/rtos/inc/os.h:425` promises the preemption. `InversionEnds`
bounds the damage: the next tick makes up for it.

### Observations

The model also shows these, which no property states:

* After `ShutdownOS` in a task the tick still dispatches tasks of higher priority
  (`ShutdownOS.c:94-104`), though `os.h:603` says that the OS stops.
* `ReleaseResource` and `SetEvent` call `Schedule` in the TASK context, unlike
  `ActivateTask`; a task that still holds another resource gets E_OS_RESOURCE out of a
  call that itself was correct, and with it the ErrorHook (`ReleaseResource.c:193`,
  `SetEvent.c:164`).
* Activating the task that holds a resource a second time runs `AddReady`, which sets its
  actual priority back to the static one; a task that shares the resource then
  preempts it and gets the resource as well. `ResourceExclusion` fails in such a
  configuration; the proofs exclude it by `UsersActivateOnce`.
* `ChainTask` checks the maximum of activations with the interrupts enabled, and
  an ISR may activate the successor before the critical section. The maximum is then
  exceeded and a ready list may outgrow its array.
* An ISR between the idle loop's `IntSecure_End` and `wfi` readies a task, and the CPU
  still sleeps until the next interrupt; `ReadyEndsIdle` shows that a tick ends it.
* `ChainTask` adds the successor to its ready list and leaves its state SUSPENDED
  (`ChainTask.c:188`, where `ActivateTask` sets READY), so that `EntriesMatchActivations`
  is not claimed of `KernelChain`.

### Fairness (`FairSpec`)

Weak fairness of what the CPU does by itself (the rest of a service once it is
entered, a pending reschedule, `StartOS`, the dispatch, `osekpause`) and of the system
tick (`IsrNoCall`), which the timer raises for ever. Each of these stays enabled until
it is taken or the state it belongs to is left. No fairness of the services
themselves: an application may compute for ever, as `SwitchesTask` does.

### Proofs

`KernelAssumption` is all that is assumed of the constants (plus, where named,
`UsersActivateOnce`): the shape of the generated tables, a ceiling not below the
priority of any task that names the resource, and one activation for an extended
task. It is what the generator computes from the OIL file.

| theorem | says, for every configuration |
| --- | --- |
| `TypeCorrect` | `[]TypeOK` |
| `ListsMatchActivations` | `[]EntriesMatchActivations` |
| `ReadyListsFit` | `[]ReadyListFits` |
| `RunningHeadsItsList` | `[]RunningIsHead` |
| `AtMostOneRuns` | `[]OneRunning` |
| `IndicesAreValid` | `[]IndicesValid` |
| `NoWakeupIsLost` | `[]NoLostWakeup` |
| `CeilingHolds` | `[]CeilingProtects` |
| `ResourcesExclude` | `[]ResourceExclusion` |
| `SwitchesPickHighest` | `SwitchPicksHighest` |
| `NonPreemtivesKeepCpu` | `NonPreemtiveKeepsCpu` |

`TypeOK` is not inductive: `TerminateTask` subtracts one from the activations, and
`RemoveTask` takes a `Tail`, so types need that the running task has an activation and
an entry; that needs that it is the head of its list; and a preempted task may come
back to run by `GetNextTask`'s preference for holders of resources, so a holder too
must be the head of its list. The invariant of `KernelProofs` is the conjunction of
these facts: types, entries against activations, one RUNNING task, heads for the
running task and for the holders, and the link between contexts and the running
task. Each action has a lemma that says what it changes, and one that it preserves
the invariant. The counting of entries rests on `QueueLemmas`: what `Append` and
`Tail` do to the number of occurrences of a task in a sequence. From the number of
occurrences of each task `ReadyListsFit` goes on to the length of a list: the k-th
entry of a task takes the place `<<task, k>>`, no two entries take the same
(`Places`), and the generator made one slot for each place.

`NonPreemtivesKeepCpu` rests on `NonPreemtiveInv`: a task that is not preemptable
stops inside a service only where no reschedule follows, and no ISR posts one
while it runs.

The ceiling needs more: `CeilingInv` says that a task runs at its static priority
until it takes a resource (`StaticWithoutResources`) and not below the ceilings of
those it holds (`AtCeiling`); that the running task has a static priority above the
actual one of every other holder (`RunningOutranksHolders`); and that of two holders
one had such a priority over the other (`HoldersRanked`), which is how the second came
to run. `AddReady` breaks `AtCeiling` for a task activated a second time while it holds a
resource, see the observations; `UsersActivateOnce` excludes such
configurations: tasks that may take resources have one activation, as all tasks of
the panel have. `CeilingHolds` and `ResourcesExclude` assume it, the others do not.

## 4. Alarms

A tick increments counter 0 inside one critical section; nested calls of
`IncrementCounter` and `IncrementAlarm` are steps over `work`, the calls still to make, the
next one first, which is the depth-first order of the C calls. Tasks call
`SetRelAlarm`, `SetAbsAlarm` and `CancelAlarm`: one step for the checks, made with the
interrupts enabled, one for the assignments. Tasks are named by their priority; one
of higher priority may run between the two steps of a preemptable one, and so may
the tick. What an expiring alarm does to a task is `Kernel`'s; here it may be refused,
which halts the system in the tick. The number of expirations in one increment, a
loop in the code, is a quotient. The 32 bits of `AlarmTime` are not modelled: with
MAXALLOWEDVALUE at most 2^31 they do not overflow.

`AlarmsHistory` adds what was asked of each alarm and counts what the time calls for.
Its bound `MaxSeen` ends the observation of an alarm after that many increments;
`TickValues` bounds the arguments. In the run `alarms` one alarm increments a second
counter, and two tasks, of which one can be preempted, set and cancel the alarms of
both: cycles of 1 with a time of 0 expire twice in a tick, and the second counter
then advances by two, so its alarm may expire twice as well.

| run | question | result |
| --- | --- | --- |
| `alarms` | types; every alarm expires when it is due (`FiresOnTime`) | hold |
| `alarm_absolute` | `AbsAlarmAtStart` | violated |

The violation: the time of an absolute alarm is the counter's value plus the start
value, yet it counts down from there like a relative one. Set with the counter at c,
the alarm expires when the counter stands at twice c plus the start value.

`FiresOnTime` holds of the service calls as they are carried out, not as they are
checked. `SetRelAlarm` may find the alarm free, be preempted by a task that sets it, and
overwrite that setting without an error; `CancelAlarm` may find the alarm running, have
it expire or cancelled in between, and still return E_OK. The services have no
critical section around check and assignment.

### Proofs (`AlarmsProofs`)

`AlarmsAssumption` is all that is assumed: each alarm is listed once, by one counter, what it
increments is a counter, and maxima and cycles are numbers. For every such configuration, any callers and any values
they pass: `[]TypeOK`; that `AlarmsHistory` adds no step to `Alarms` (`HSpec => Spec`); and
`[]FiresOnTime`, whatever `MaxSeen` is, so that the bound of the run bounds the run only.

`FiresOnTime` speaks of the time between ticks; within one the calls in `work` are still
to be made. `AlarmsInv` therefore says what those calls still *owe* an alarm: the
increments of its counter that `IncrementCounter` and `IncrementAlarm` have yet to bring
(`Owes`), found by adding up the calls in their order. What was seen and is no longer owed was
counted down (`Countdown`): time left and increments given make up the request and
the cycles begun. An expiration moves increments from one alarm's debt to
those of the alarms of the counter it increments; when `work` is empty nothing is
owed, and by the arithmetic of quotients the countdown is `Due`.

## 5. Ring buffer

Each step of `CircBuf` is one access to shared memory: the writer reads the head once,
copies one or two pieces, moves the tail; the reader likewise. Writer and reader
interleave freely, which includes every nesting of a task and an ISR. `ImplementsFifo`
is the refinement: under `queue <- Contents` every step is a `Put` of a whole block, a
`Get` of the oldest bytes, or nothing. A `Put` takes effect with the tail, a `Get` with the
head. The run `circbuf` takes the smallest array the code allows (8 bytes), blocks of
0 to 7 bytes that cross the end of the array at every place, and reads of 1, 3
and 7. The masks `& size` are remainders, right for powers of two. `circBufClean`,
which nobody calls, is left out.

`CircBufProofs` proves the same for every size, every set of blocks and every length
of a read. The invariant says of each side, at each of its steps, what it knows of
the other's index: since the writer only moves the tail and the reader only the
head, the space a writer has seen, and the bytes a reader has, can only grow
(`PutFits`, `GetFits`), and what is copied already stands where `Contents` will find it
(`PutCopied`) or is the front of the queue (`GetCopied`). With it, moving the tail is a
`Put`, moving the head a `Get`, and each other step leaves `Contents` as it was.

## 6. Serial device and UART

### State and steps (`SerialDevice`)

One port, one task that reads it and one that writes it, and the UART's ISR. `rx` and
`tx` are the ring buffers with their indices, `rxcnt` is how many bytes the driver's receive
buffer `hwbuf` holds, `ier` the interrupts enabled, `thre` the transmitter's status bit,
`blocked` the device's one slot for a blocked task. `pc` says where each task and the ISR stand.
A step is one access to what another context may change in between:

| steps | code |
| --- | --- |
| `Read`, `Get`, `GetCopy`, `GetUpdateHead` | `ciaaSerialDevices_read` (`ciaaSerialDevices.c:281-335`) and `circBufGet` |
| `Write`, `WriteSpace`, `WritePut`, `StartTx`, `StartTxEnd` | `ciaaSerialDevices_write` (337-391) and the ioctl STARTTX |
| `BlockIrqOff` ... `BlockIrqOn`, `WaitEvent`, `ClearEvent` | blocking, in both (310-322, 374-384) |
| `Confirm`, `SendByte`, `SendEnd`, `SendMore`, `WakeWriter` | `txConfirmation` (393-447), in the task and in the ISR |
| `IsrEnter`, `RxIndication`, `IsrCheck` | `UART0_IRQHandler` (`ciaaDriverUart.c:354-379`), `rxIndication` (449-503) |
| `TransmitterEmpty` | the UART itself (external) |

`IER |= bit` is a load and a store, and so are the two assignments of `blocked`. Tasks
preempt each other as `Higher` says, the ISR preempts both. In the writer's own
confirmation `WakeWriter` is one step although a reader could preempt it: there the
slot never holds a writer (theorem `OnlyIsrWakesWriter`), so that it changes nothing.

The peer sends at will: `IsrEnter` finds any number of bytes that `hwbuf` takes, at any time.
With the ring full, `ciaaDriverUart_read` is called for 0 bytes and returns -1, and
`rxIndication` moves the tail back by one (`ciaaSerialDevices.c:486`): the newest byte is off
the ring, and the model gives its number to the next one. What the ring does not take
stays in `hwbuf`; a byte that finds `hwbuf` full is stored behind it, which is in `rxcnt`
(`ciaaDriverUart.c:362`), and makes `rxcnt` any number the code can go on with (`Stored`). Values
beyond `UART_RX_FIFO_SIZE`, with which the ISR writes behind the whole record, are left out.

Bytes are their own numbers, from 1 and modulo the size of the ring, so that order and
loss show; 0 is also what a ring holds at first. Abstractions: the ring has 4 bytes where
the code has 256; what is in `hwbuf` is only counted, as the driver hands it over in the
order it came; an ISR's receive part is one step (tasks do not run in it, and it works
on what the reader only reads); close, baud rate and trigger level are left out.

### Runs and bounds

| run | question | result |
| --- | --- | --- |
| `serial` | types; bytes received and sent in order (`RxInOrder`, `TxInOrder`); a full ring takes none back that a read has counted (`TakesWhatIsThere`); no event left over (`NoStaleEvent`); what is written is sent (`TxDrains`) | hold |
| `serial_no_data` | `WokenReaderHasData` | violated |

With a ring of 4 and writes of 4 every write has to block (3 bytes fit) and both
pieces of the confirmation occur; reads of 2 cross the end of the ring at each place.
A `hwbuf` of 2 is filled and overrun. `LineFast` = FALSE lets the transmitter empty between
ISRs only. Deadlock is not checked: a task may really
block for ever, see below.

*serial_no_data*: the comment at `ciaaSerialDevices.c:325` says that after the wait there is
data. The slot for a blocked task is two assignments; a reader that blocks between
those of a writer leaves its own task with the writer's function, the transmit
confirmation wakes it, and `read` returns 0. The writer is never woken.

### Observations

* A byte that arrives between the reader's test of the ring and its entry in the slot
  wakes nobody: the reader waits until the next one. Likewise a writer that finds the
  slot taken by a reader overwrites it, and one of the two sleeps on.
* With `LineFast` = TRUE the transmitter may empty between the confirmation and the
  ISR's second look at THRE (`ciaaDriverUart.c:374`), which takes it for nothing left to
  send: bytes stay in the ring until the next write, and `TxDrains` fails.
* With a writer of higher priority than the reader, the reader's store into IER, loaded
  before the writer ran, disables the transmit interrupt the writer enabled.
* A peer that is faster than the reader loses bytes without a sign of it: the newest
  ones off the full ring, then those behind `hwbuf`, whose counter they overwrite. What
  is read is still in order, as `RxInOrder` says of the bytes that stayed in the ring.
* A read that asks for a whole full ring (`ReadLengths` = {3} here; `ciaaModbus_asciiTask` asks
  for up to 512, twice the ring of the code) may be overtaken: the ISR moves the tail
  back behind what the read has counted, the head passes the tail, and the ring seems
  full of bytes already read: `TakesWhatIsThere` fails. `RxInOrder` does not show it, as the numbers are
  modulo the ring.

### Fairness

Weak fairness of the transmitter and of the ISR when it is due (in the midst of a run, or
with the transmitter empty and its interrupt enabled; the peer need not send), which
run as hardware does; strong fairness of the steps inside a call, since a task that was
preempted gets the CPU again and again, for as long as the others leave it. The last two
are written with ENABLED spelled out (`IsrDue`, `CanGoOn`): each of the steps meant moves
the `pc` of its context, and nothing else does. No fairness of new calls.

### Proofs (`SerialProofs`)

For rings of every size from 4 places, reads and writes of every length, and any order of the
tasks' priorities unless said otherwise. `SerialAssumption` has reader and writer
as two tasks: one task that both reads and writes does one call at a time.

| theorem | says | under |
| --- | --- | --- |
| `TypeCorrect` | `[]TypeOK` | |
| `EventsAreAwaited` | `[]NoStaleEvent` | |
| `ReadsAreInOrder` | `[]RxInOrder` | `ReadLengths \subseteq 1 .. NBytes - 2` |
| `ReadsStayBehindTail` | `[]TakesWhatIsThere` | `ReadLengths \subseteq 1 .. NBytes - 2` |
| `OnlyIsrWakesWriter` | the writer's own confirmation wakes nobody | |
| `SendsAreInOrder` | `TxInOrder` | `Higher # Tasks` |

`ReadLengths \subseteq 1 .. NBytes - 2`: no read asks for a whole full ring, see the observations.
Nothing is assumed of the peer. `Higher # Tasks` says that the two tasks do not preempt each
other both ways, which fixed priorities exclude; with both in `Higher` the invariant fails.

The proofs start with rings of numbered bytes: `Holds` says that a ring holds the
bytes from one number to before another, whatever its head, and lemmas say what
taking and adding bytes, around the end of the array too, do to it. On top of the types
(`TypeInv`) there are four inductive invariants, each checked by TLC first:

* `SlotInv`: the task in the slot has not been told and is on its way to the
  wait (`InSlot`), one that was told has still to take notice (`Told`), and the task a
  confirmation is about to tell is the one in the slot, as long as a writer is in it
  (`FoundInSlot`).
* `LostInv`: if the slot names the function of a task that does not wait for it, the other
  task has lost its place and waits without end (`LeftOver`), so that a writer that
  confirms cannot find a writer there. It is needed for `OnlyIsrWakesWriter` only.
* `RxInv`: the ring holds exactly the bytes put there and neither read nor taken off again
  (`RxHolds`), and what the reader is about to take is its front (`Taking`) and less than
  a full ring (`ReadsLess`), so that the ISR, which takes bytes off a full ring only, leaves
  it there.
* `TxInv`: one context sends at a time (`OneSender`), because the transmit interrupt is
  off while the writer confirms, and the store into IER that a reader prepared before cannot
  undo that (`ReaderKeepsOff`, `AboutOff`); the ring holds the bytes written and not yet
  sent, those of the piece being sent included (`TxHolds`), and what is put fits (`Room`).

## 7. Panel

`Panel` composes the two tasks of the application. `PeriodicTask` is not preemptable and
of higher priority, so one run of it is one step; each function of `botonera.c` is an
operator from the editor's variables (the record `k`) to what it leaves in them, and
`PeriodicTask(key)` applies them in the order of `maquina_estados`: the settings
(`inicializar_sistema`), then the editor (`obtener_funcionalidad`: the time counts in every
run, the keys act in every third one). `SwitchesTask` is preempted between any two
characters, so `ScrollCount` and `ScrollShow` are one character each.

Characters are told apart as terminator, blank or other; the LCD, the LEDs,
speed and intensity, which only delay, are left out. In modes 2 and 3 the scan goes
to the terminator a number of times that depends on widths (`printStringScroll`): any
number here. The buffers have 3 places instead of 17 and the waiting time is 2
runs instead of 20; keys are 0, 2 and every key that is not a digit: 0 stands for the
digits without case, 2 for the letters. A row of 6 letters is as in the code.

| run | question | result |
| --- | --- | --- |
| `panel_app` | types; the cursor stays on the line (`CursorOnLine`); the scan stays in the array (`ScanInBounds`); a key gives its own letters in the right case (`KeyGivesItsLetters`); what is shown is what is stored (`SettingShown`); a character is confirmed by the time (`TimeConfirms`) | hold |

*Fairness*: the alarm activates `PeriodicTask` for ever. It is always enabled and always
changes `k`, which nothing else does, so its weak fairness is `[]<><<k' # k>>_k`.

*Observations.* ENTER without SHIFT stores the value of the setting before (0, 4 or 5) as
the mode, and `msjScroll` then does nothing for ever. With no key pressed,
`matrix_aux['e']` is cleared: index 101 of 16 (`botonera.c:300`). ENTER with the cursor at
the end writes `mensaje_actual[17]`, behind the array (`botonera.c:309`). `Panel` leaves out
what these two write, and no property says that the indices of the editor's own writes stay in
their arrays: `TypeOK` is about types, `ScanInBounds` about the scan. A key seen in the run in which the time expires
is dropped. The scan may show the start of one message and the end of
another, and mode 1 as many characters as the old one had.

### Proofs (`PanelProofs`)

All five invariants of the run are theorems, for a line of 2 to 255 places and a
waiting time of up to 255 runs, the bounds of the `uint8_t` that count them, and any set
of keys. `PanelInv` adds to the properties that a key being pressed is a digit
with a count among its letters (`EditorFine`), that nothing is being written in the
settings and the count of key 1 is the value or one ahead of it (`SettingFine`), and
that the message being scrolled keeps its terminator (`ScrollFine`). One run of `PeriodicTask` is
a composition of some twenty functions; each has a lemma that takes a keypad of
which the invariant holds to another, so that the step is the chain of these.

## 8. Modbus

### State and steps (`Modbus`)

`client`, `busy` and `master` are the fields of the gateway's and the masters' objects
that control something; `gw` says which client `gatewayMainTask` is at, how often it was
called, and where inside a master's function it stands. A step is one call of
`gatewayClientProcess`; those of a master are cut where the application's task can see
the difference: between `masterTask`, its signal, and `masterRecvMsg`, and between the
signal and `cmd = 0` in `masterSendMsg`. A message is a request or a response, of a client, for
a slave id, with the number of its command. `RequestArrives`, `AnswerArrives` and
`AnswerLost` are the lines: requests and answers are lost, late, or arrive while
something else is awaited, and a later one replaces an earlier one as in `asciiTask`.
A frame that is incomplete, too long or has a wrong LRC is one that is lost; so is one with a
PDU of one byte, which `gatewayClientStateWaitingServerResponse` does not take for a response.

A line receives into the buffer in which `ciaaModbus_asciiSendMsg` makes up its frames, and
sending leaves the number of bytes received (`ciaaModbus_ascii.c:432-489`). Frames that are
complete do not matter here: they wait in the serial device, as `asciiTask` takes them out
only right before `asciiRecvMsg`. But a wait that is given up may leave part of a frame
(`GiveUp`, `Unfinished`), and if the next frame to be sent is not longer than that part, the
gateway reads its own request back as the answer (`Framed`). `Arrived` is the message at a
line's end for `asciiRecvMsg`. At a client's end the same may make a request of a response;
`RequestArrives` has any request at any time.

`MasterRecvMsg` routes any message left: `CIAAMODBUS_REQ_PDU_MINLENGTH` is 1, which every
message has. The codes for an exception of the slave and for a response that does not fit are one
value, `error`. Only the ASCII transport is more than a stub in the source.

A command (`masterCmd0x01` ... `0x17`) is one step up to its wait, as the gateway's task
does not preempt the one that gives it. `AppHigher` says whether that task preempts
the gateway; if not, as in `examples/blinking_modbus_master`, where both have one
priority, it runs between two runs of the gateway.
`ended`, `sends` and `timedOut` are history variables.

### Runs and bounds

One slave of the program and one line, a master and a line to a remote master, ids for
both, one retry, a timeout of one run. The slave and the line exercise both
routes; two clients are enough for one to wait for a server the other has.

| run | question | result |
| --- | --- | --- |
| `modbus` (`AppHigher`) | types; `BusyIsOwned`; answers reach who asked (`AnswerToRequester`); no task waits for a command that is over (`BlockedHasCommand`); `RetriesBounded`; `CommandsEnd` | hold |
| `modbus_result` (not `AppHigher`, as in `examples/blinking_modbus_master`) | `ReturnsWhatEnded` | violated |

`AnswerToRequester` holds until a wait was given up: a frame carries no number, so a
late answer goes to whoever waits for the line next, and the client's own request may come back
as its answer. `RetriesBounded` allows one more
sending than `retryComm` when the task preempts the gateway, for a command given
between `masterTask` and `masterRecvMsg`. `CommandsEnd` excepts a master that finds
its server busy again and again: the gateway takes the clients in turn, and another
one may have the line whenever its turn comes.

*modbus_result*: with no command pending, `masterRecvMsg` leaves the size of the message as it
was (`ciaaModbus_master.c:873`), so the gateway takes the response it still has for a new
message and sends it to the slave, whose answer fits no command and sets the exception
code. A blocked task that has not run since then returns "wrong PDU received" for
a command that succeeded.

*Fairness*: an alarm activates the gateway's task for ever; each of its steps moves `gw`
and nothing else does, so its weak fairness is `[]<><<gw' # gw>>_gw`.

### Proofs (`ModbusProofs`)

For any number of clients, servers, retries and any timeouts: `[]TypeOK`, `[]BusyIsOwned`,
`[]BlockedHasCommand`, `[]AnswerToRequester` and `[]RetriesBounded`. The inductive invariant adds that a client that is to send has a message and, once
routed, a server; that one that waits for a slave has kept the message the slave
answers; that a command names a slave, and a task waits for a blocking one only; and
that the gateway stands inside a master's function only with that master's command
pending and its task already signalled. `BusyIsOwned` needs no more than that
`indexServer` stays what it was while a client waits; `BlockedHasCommand` needs the order
of the signal and of `cmd = 0`, which a task that preempts the gateway sees.

`AnswerToRequester` and `RetriesBounded` have invariants of their own on top of it.
`AnswerInv`: a message a client has is its own, or names a slave of a line on which a
wait was given up; what a line carries was routed to that line; and on a line on which none was
given up there is one request or answer at most, of the client that waits, and no unfinished frame
(`GivenUp`) that would make a request its own answer. `TriesInv`: the
tries made, the one on its way and those left make up no more than the limit, and a
request that has a route is on its way only while its command is pending.

## 9. What is proved, checked and left out

*Proved* (TLAPS, every value of the constants that the modules' assumptions allow): each
invariant and each action property that a passing run checks, but those of the run
`chain`; and that `CircBuf` implements `Fifo` and `AlarmsHistory` implements `Alarms`. Five
theorems have a hypothesis beyond the assumptions of their module: `CeilingHolds` and
`ResourcesExclude` (`UsersActivateOnce`, section 3), `ReadsAreInOrder` and
`ReadsStayBehindTail` (no read of a whole full ring, section 6), and `SendsAreInOrder` (`Higher # Tasks`, section 6).

*Checked only* (TLC, the instances above): liveness (`InversionEnds`, `ReadyEndsIdle`, `TxDrains`,
`TimeConfirms`, `CommandsEnd`), since neither ENABLED nor fairness is in the prover's reach;
the run `chain`, see section 2. What a recursive definition computes for every input could
not be proved either (induction over data needs the library's operator
parameters), nor anything in a module with a RECURSIVE operator; no module here has
one.

*Not modelled*:

* PendSV and the switch of the stacks (`PendSV.s`): `Kernel` takes a switch to be immediate. Between
  `IntSecure_End` and PendSV `RunningTask` is already the next task.
* POSIX files: opened once at start and never closed; a table look-up.
* The PLC, the other ports and the DIO, AIO and flash drivers: not linked into the panel, not built
  for its board, or register access without state.
* The MAX7219 protocol and the LCD: output without control flow of interest.
* What a Modbus slave does with registers, the LRC and the digits of ASCII frames: data.
* The OIL generator as a program: only the tables it computes, as constants.
