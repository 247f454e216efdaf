---------------------------- MODULE KernelProofs ----------------------------
(***************************************************************************)
(* Proofs about the scheduler, for every configuration of tasks,           *)
(* priorities, activations, resources, events and interrupts.              *)
(***************************************************************************)
EXTENDS KernelProperties, QueueLemmas

USE KernelAssumption

(***************************************************************************)
(* The inductive invariant.  EntriesMatchActivations and RunningIsHead     *)
(* depend on each other: a list is right after RemoveTask because its head *)
(* was the running task, and the running task is the head because lists    *)
(* hold what the activations say.                                          *)
(***************************************************************************)
SortedByPriority ==
  \A p \in Priorities : \A i \in DOMAIN ready[p] : StaticPriority[ready[p][i]] = p
WithinLimits == \A t \in Tasks : activations[t] <= MaxActivations[t]
WaitingIsExtended == \A t \in Tasks : state[t] = "WAITING" => t \in Extended
HoldersAreHeads == \A t \in Tasks : resources[t] # {} => HoldsHead(t)

QueueInv ==
  /\ SortedByPriority
  /\ EntriesMatchActivations
  /\ WithinLimits
  /\ WaitingIsExtended
  /\ OneRunning
  /\ RunningIsHead
  /\ HoldersAreHeads

ContextInv ==
  /\ context = "TASK" => running \in Tasks
  /\ postIsr => context = "TASK"

KernelInv == TypeOK /\ QueueInv /\ ContextInv

(***************************************************************************)
(* What AddReady and RemoveTask do to the ready lists                      *)
(***************************************************************************)
LEMMA TasksFacts ==
  /\ INVALID_TASK \notin Tasks
  /\ Tasks \subseteq Nat /\ Priorities \subseteq Nat
  /\ \A t \in Tasks : StaticPriority[t] \in Priorities /\ MaxActivations[t] \in Nat \ {0}
BY DEF Tasks, Priorities, INVALID_TASK

\* What a task without a pending SetEvent has for its arguments.
LEMMA NoArgType == NoArg \in Tasks \X Masks
<1>1. 0 \in Tasks
  BY DEF KernelAssumption, Tasks
<1>2. {} \in Masks
  BY DEF Masks
<1> QED
  BY <1>1, <1>2 DEF NoArg

LEMMA EntriesType ==
  ASSUME TypeOK, NEW t \in Tasks
  PROVE  Entries(t) \in Nat
BY TasksFacts, OccurrencesFinite DEF TypeOK, Entries

\* A task that is the head of its list has an entry.
LEMMA HeadHasEntry ==
  ASSUME TypeOK, NEW t \in Tasks, HoldsHead(t)
  PROVE  Entries(t) >= 1
<1> DEFINE list == ready[StaticPriority[t]]
<1>1. list \in Seq(Tasks) /\ list # <<>> /\ Head(list) = t
  BY TasksFacts DEF TypeOK, HoldsHead
<1>2. 1 \in DOMAIN list /\ list[1] = t
  BY <1>1, LenProperties, EmptySeq
<1> HIDE DEF list
<1>3. Cardinality(Occurrences(list, list[1])) >= 1
  BY <1>1, <1>2, OccurrencesPositive
<1> QED
  BY <1>2, <1>3 DEF Entries, list

LEMMA AddReadyEffect ==
  ASSUME TypeOK, NEW id \in Tasks,
         ready' = [ready EXCEPT ![StaticPriority[id]] = Append(@, id)]
  PROVE  /\ ready' \in [Priorities -> Seq(Tasks)]
         /\ \A t \in Tasks : Entries(t)' = Entries(t) + (IF t = id THEN 1 ELSE 0)
         /\ \A t \in Tasks : HoldsHead(t) => HoldsHead(t)'
         /\ SortedByPriority => SortedByPriority'
<1> DEFINE q == StaticPriority[id]
<1>1. /\ q \in Priorities /\ ready \in [Priorities -> Seq(Tasks)] /\ ready[q] \in Seq(Tasks)
  BY TasksFacts DEF TypeOK
<1>2. /\ Append(ready[q], id) \in Seq(Tasks)
      /\ Len(Append(ready[q], id)) = Len(ready[q]) + 1
      /\ \A i \in 1 .. Len(ready[q]) : Append(ready[q], id)[i] = ready[q][i]
      /\ Append(ready[q], id)[Len(ready[q]) + 1] = id
      /\ Append(ready[q], id) # <<>>
  BY SMTT(20), <1>1, AppendProperties
<1>3. /\ ready'[q] = Append(ready[q], id)
      /\ \A p \in Priorities \ {q} : ready'[p] = ready[p]
      /\ ready' \in [Priorities -> Seq(Tasks)]
  BY <1>1, <1>2
<1>4. ASSUME NEW t \in Tasks
      PROVE  Entries(t)' = Entries(t) + (IF t = id THEN 1 ELSE 0)
  <2>1. CASE StaticPriority[t] = q
    <3>1. Cardinality(Occurrences(Append(ready[q], id), t)) =
            Cardinality(Occurrences(ready[q], t)) + (IF t = id THEN 1 ELSE 0)
      BY <1>1, OccurrencesAppend
    <3> QED
      BY <2>1, <3>1, <1>3 DEF Entries
  <2>2. CASE StaticPriority[t] # q
    <3>1. Entries(t)' = Entries(t) /\ t # id
      BY <2>2, <1>3, TasksFacts DEF Entries
    <3> QED
      BY <3>1, EntriesType
  <2> QED
    BY <2>1, <2>2
<1>5. ASSUME NEW t \in Tasks, HoldsHead(t)
      PROVE  HoldsHead(t)'
  <2>1. Head(Append(ready[q], id)) = IF ready[q] = <<>> THEN id ELSE Head(ready[q])
    BY <1>1, HeadTailAppend
  <2> QED
    BY <2>1, <1>2, <1>3, <1>5, TasksFacts DEF HoldsHead
<1>6. ASSUME SortedByPriority
      PROVE  SortedByPriority'
  <2> SUFFICES ASSUME NEW p \in Priorities, NEW i \in DOMAIN ready'[p]
               PROVE  StaticPriority[ready'[p][i]] = p
    BY DEF SortedByPriority
  <2>1. CASE p # q
    BY <2>1, <1>3, <1>6 DEF SortedByPriority
  <2>2. CASE p = q
    <3>1. i \in 1 .. (Len(ready[q]) + 1) /\ Len(ready[q]) \in Nat
          /\ DOMAIN ready[q] = 1 .. Len(ready[q])
      BY <2>2, <1>1, <1>2, <1>3, LenProperties
    <3>2. CASE i \in 1 .. Len(ready[q])
      BY <3>1, <3>2, <2>2, <1>1, <1>2, <1>3, <1>6 DEF SortedByPriority
    <3>3. CASE i = Len(ready[q]) + 1
      BY <3>3, <2>2, <1>2, <1>3
    <3> QED
      BY <3>1, <3>2, <3>3
  <2> QED
    BY <2>1, <2>2
<1> QED
  BY <1>3, <1>4, <1>5, <1>6

LEMMA RemoveTaskEffect ==
  ASSUME TypeOK, NEW id \in Tasks, HoldsHead(id), RemoveTask(id)
  PROVE  /\ ready' \in [Priorities -> Seq(Tasks)]
         /\ \A t \in Tasks : Entries(t)' = Entries(t) - (IF t = id THEN 1 ELSE 0)
         /\ \A t \in Tasks : HoldsHead(t) /\ t # id => HoldsHead(t)'
         /\ SortedByPriority => SortedByPriority'
<1> DEFINE q == StaticPriority[id]
<1>1. /\ q \in Priorities /\ ready \in [Priorities -> Seq(Tasks)] /\ ready[q] \in Seq(Tasks)
      /\ ready[q] # <<>> /\ Head(ready[q]) = id
  BY TasksFacts DEF TypeOK, HoldsHead
<1>2. /\ Tail(ready[q]) \in Seq(Tasks)
      /\ Len(Tail(ready[q])) = Len(ready[q]) - 1
      /\ \A i \in 1 .. Len(Tail(ready[q])) : Tail(ready[q])[i] = ready[q][i + 1]
  BY <1>1, HeadTailProperties
<1>3. /\ ready'[q] = Tail(ready[q])
      /\ \A p \in Priorities \ {q} : ready'[p] = ready[p]
      /\ ready' \in [Priorities -> Seq(Tasks)]
  BY <1>1, <1>2 DEF RemoveTask
<1>4. ASSUME NEW t \in Tasks
      PROVE  Entries(t)' = Entries(t) - (IF t = id THEN 1 ELSE 0)
  <2>1. CASE StaticPriority[t] = q
    <3>1. Cardinality(Occurrences(Tail(ready[q]), t)) =
            Cardinality(Occurrences(ready[q], t)) - (IF t = Head(ready[q]) THEN 1 ELSE 0)
      BY <1>1, OccurrencesTail
    <3> QED
      BY <2>1, <3>1, <1>1, <1>3 DEF Entries
  <2>2. CASE StaticPriority[t] # q
    <3>1. Entries(t)' = Entries(t) /\ t # id
      BY <2>2, <1>3, TasksFacts DEF Entries
    <3> QED
      BY <3>1, EntriesType
  <2> QED
    BY <2>1, <2>2
<1>5. ASSUME NEW t \in Tasks, HoldsHead(t), t # id
      PROVE  HoldsHead(t)'
  <2>1. StaticPriority[t] # q
    BY <1>1, <1>5 DEF HoldsHead
  <2> QED
    BY <2>1, <1>3, <1>5, TasksFacts DEF HoldsHead
<1>6. ASSUME SortedByPriority
      PROVE  SortedByPriority'
  <2> SUFFICES ASSUME NEW p \in Priorities, NEW i \in DOMAIN ready'[p]
               PROVE  StaticPriority[ready'[p][i]] = p
    BY DEF SortedByPriority
  <2>1. CASE p # q
    BY <2>1, <1>3, <1>6 DEF SortedByPriority
  <2>2. CASE p = q
    <3>1. /\ i \in 1 .. (Len(ready[q]) - 1) /\ Len(ready[q]) \in Nat
          /\ DOMAIN ready[q] = 1 .. Len(ready[q])
      BY <2>2, <1>1, <1>2, <1>3, LenProperties
    <3>2. i \in 1 .. Len(Tail(ready[q])) /\ i + 1 \in DOMAIN ready[q]
      BY <3>1, <1>2
    <3>3. ready'[q][i] = ready[q][i + 1]
      BY <3>2, <1>2, <1>3
    <3>4. StaticPriority[ready[q][i + 1]] = q
      BY <3>2, <1>1, <1>6 DEF SortedByPriority
    <3> QED
      BY <3>3, <3>4, <2>2
  <2> QED
    BY <2>1, <2>2
<1> QED
  BY <1>3, <1>4, <1>5, <1>6

(***************************************************************************)
(* What the steps of the kernel do to QueueInv                             *)
(***************************************************************************)
TaskTypeOK ==
  /\ state \in [Tasks -> States]
  /\ activations \in [Tasks -> Nat]
  /\ actualPriority \in [Tasks -> Priorities]
  /\ events \in [Tasks -> Masks]
  /\ eventsWait \in [Tasks -> Masks]
  /\ resources \in [Tasks -> SUBSET Resources]
  /\ ready \in [Priorities -> Seq(Tasks)]

\* Only these variables matter to QueueInv.
LEMMA QueueInvUnchanged ==
  ASSUME QueueInv, UNCHANGED <<state, activations, resources, ready, running>>
  PROVE  QueueInv'
BY DEF QueueInv, SortedByPriority, EntriesMatchActivations, Entries, WithinLimits,
       WaitingIsExtended, OneRunning, RunningIsHead, HoldersAreHeads, HoldsHead

LEMMA ActivateQueueInv ==
  ASSUME TypeOK, QueueInv, NEW id \in Tasks, Activable(id), Activate(id), running' = running
  PROVE  TaskTypeOK' /\ QueueInv'
<1>1. /\ ready' \in [Priorities -> Seq(Tasks)]
      /\ \A t \in Tasks : Entries(t)' = Entries(t) + (IF t = id THEN 1 ELSE 0)
      /\ \A t \in Tasks : HoldsHead(t) => HoldsHead(t)'
      /\ SortedByPriority'
  BY AddReadyEffect DEF Activate, AddReady, QueueInv
<1>2. /\ state \in [Tasks -> States] /\ activations \in [Tasks -> Nat]
      /\ events \in [Tasks -> Masks] /\ actualPriority \in [Tasks -> Priorities]
  BY DEF TypeOK
<1>3. /\ activations'[id] = activations[id] + 1
      /\ state'[id] = IF state[id] = "SUSPENDED" THEN "READY" ELSE state[id]
      /\ \A t \in Tasks \ {id} : state'[t] = state[t] /\ activations'[t] = activations[t]
  BY <1>2 DEF Activate
<1>4. TaskTypeOK'
  <2>1. activations' \in [Tasks -> Nat] /\ state' \in [Tasks -> States]
    BY <1>2 DEF Activate, States
  <2>2. events' \in [Tasks -> Masks] /\ actualPriority' \in [Tasks -> Priorities]
    BY <1>2, TasksFacts DEF Activate, AddReady, Masks
  <2> QED
    BY <2>1, <2>2, <1>1 DEF TaskTypeOK, TypeOK, Activate
<1>5. /\ state[id] = "SUSPENDED" => activations[id] = 0 /\ Entries(id) = 0
      /\ state[id] # "SUSPENDED" => /\ state[id] # "WAITING"
                                   /\ Entries(id) = activations[id]
                                   /\ activations[id] < MaxActivations[id]
  BY DEF QueueInv, EntriesMatchActivations, WaitingIsExtended, Activable
<1>6. EntriesMatchActivations'
  <2> SUFFICES ASSUME NEW t \in Tasks
               PROVE  /\ Entries(t)' = IF state'[t] = "WAITING" THEN 0 ELSE activations'[t]
                      /\ (state'[t] = "SUSPENDED") <=> (activations'[t] = 0)
    BY DEF EntriesMatchActivations
  <2>1. activations[t] \in Nat /\ Entries(t) \in Nat
    BY <1>2, EntriesType
  <2>2. CASE t = id
    BY <2>1, <2>2, <1>1, <1>3, <1>5 DEF Entries
  <2>3. CASE t # id
    <3>1. Entries(t)' = Entries(t)
      BY <2>1, <2>3, <1>1
    <3>2. state'[t] = state[t] /\ activations'[t] = activations[t]
      BY <2>3, <1>3
    <3> QED
      BY <3>1, <3>2 DEF QueueInv, EntriesMatchActivations
  <2> QED
    BY <2>2, <2>3
<1>7. WithinLimits'
  <2> SUFFICES ASSUME NEW t \in Tasks PROVE activations'[t] <= MaxActivations[t]
    BY DEF WithinLimits
  <2>1. activations[t] \in Nat /\ MaxActivations[t] \in Nat \ {0}
    BY <1>2, TasksFacts
  <2>2. activations[t] <= MaxActivations[t]
    BY DEF QueueInv, WithinLimits
  <2>3. CASE t = id
    <3>1. state[id] = "SUSPENDED" => activations[id] = 0
      BY <1>5
    <3>2. state[id] # "SUSPENDED" => activations[id] < MaxActivations[id]
      BY <1>5
    <3> QED
      BY <3>1, <3>2, <2>1, <2>3, <1>3
  <2>4. CASE t # id
    BY <2>2, <2>4, <1>3
  <2> QED
    BY <2>3, <2>4
<1>8. OneRunning' /\ WaitingIsExtended'
  <2>1. \A t \in Tasks : (state'[t] = "RUNNING") <=> (state[t] = "RUNNING")
    BY <1>3
  <2>2. \A t \in Tasks : state'[t] = "WAITING" => state[t] = "WAITING"
    BY <1>3
  <2> QED
    BY <2>1, <2>2 DEF QueueInv, OneRunning, WaitingIsExtended
<1>9. RunningIsHead' /\ HoldersAreHeads'
  BY <1>1 DEF QueueInv, RunningIsHead, HoldersAreHeads, Activate
<1> QED
  BY <1>1, <1>4, <1>6, <1>7, <1>8, <1>9 DEF QueueInv

\* A waiting task has no entry, so that the one SetEvent adds is its only one.
LEMMA SetEventQueueInv ==
  ASSUME TypeOK, QueueInv, NEW id \in Tasks, NEW mask \in Masks,
         SetEventBits(id, mask), running' = running
  PROVE  TaskTypeOK' /\ QueueInv'
<1>1. /\ state \in [Tasks -> States] /\ activations \in [Tasks -> Nat]
      /\ events \in [Tasks -> Masks] /\ actualPriority \in [Tasks -> Priorities]
  BY DEF TypeOK
<1>2. events' \in [Tasks -> Masks]
  BY <1>1 DEF SetEventBits, EventsAfter, Masks
<1>3. CASE ~WakesUp(id, mask)
  <2>1. UNCHANGED <<state, activations, actualPriority, eventsWait, resources, ready>>
    BY <1>3 DEF SetEventBits
  <2> QED
    BY <2>1, <1>2, QueueInvUnchanged DEF TypeOK, TaskTypeOK
<1>4. CASE WakesUp(id, mask)
  <2>1. /\ AddReady(id)
        /\ state' = [state EXCEPT ![id] = "READY"]
        /\ UNCHANGED <<activations, eventsWait, resources>>
        /\ state[id] = "WAITING"
    BY <1>4 DEF SetEventBits, WakesUp
  <2>2. /\ ready' \in [Priorities -> Seq(Tasks)]
        /\ \A t \in Tasks : Entries(t)' = Entries(t) + (IF t = id THEN 1 ELSE 0)
        /\ \A t \in Tasks : HoldsHead(t) => HoldsHead(t)'
        /\ SortedByPriority'
    BY <2>1, AddReadyEffect DEF AddReady, QueueInv
  <2>3. state' \in [Tasks -> States] /\ actualPriority' \in [Tasks -> Priorities]
    BY <2>1, <1>1, TasksFacts DEF AddReady, States
  <2>4. state'[id] = "READY" /\ \A t \in Tasks \ {id} : state'[t] = state[t]
    BY <2>1, <1>1
  <2>5. EntriesMatchActivations'
    <3> SUFFICES ASSUME NEW t \in Tasks
                 PROVE  /\ Entries(t)' = IF state'[t] = "WAITING" THEN 0 ELSE activations[t]
                        /\ (state'[t] = "SUSPENDED") <=> (activations[t] = 0)
      BY <2>1 DEF EntriesMatchActivations
    <3>1. activations[t] \in Nat /\ Entries(t) \in Nat
      BY <1>1, EntriesType
    <3>2. activations[t] <= MaxActivations[t]
      BY DEF QueueInv, WithinLimits
    <3>3. CASE t = id
      <4>1. activations[t] # 0 /\ Entries(t) = 0
        BY <2>1, <3>3 DEF QueueInv, EntriesMatchActivations
      <4>2. MaxActivations[t] = 1
        BY <2>1, <3>3 DEF QueueInv, WaitingIsExtended, KernelAssumption
      <4> QED
        BY <4>1, <4>2, <3>1, <3>2, <3>3, <2>2, <2>4 DEF Entries
    <3>4. CASE t # id
      <4>1. Entries(t)' = Entries(t) /\ state'[t] = state[t]
        BY <3>1, <3>4, <2>2, <2>4
      <4> QED
        BY <4>1 DEF QueueInv, EntriesMatchActivations
    <3> QED
      BY <3>3, <3>4
  <2>6. OneRunning' /\ WaitingIsExtended'
    BY <2>1, <2>4 DEF QueueInv, OneRunning, WaitingIsExtended
  <2>7. RunningIsHead' /\ HoldersAreHeads' /\ WithinLimits'
    BY <2>1, <2>2 DEF QueueInv, RunningIsHead, HoldersAreHeads, WithinLimits
  <2>8. TaskTypeOK'
    BY <2>1, <2>2, <2>3, <1>2 DEF TypeOK, TaskTypeOK
  <2> QED
    BY <2>2, <2>5, <2>6, <2>7, <2>8 DEF QueueInv
<1> QED
  BY <1>3, <1>4

\* Whoever GetNextTask chooses heads its list and is able to run: it stands in
\* the list for an activation it has, or because it was preempted.
LEMMA NextTaskIsHead ==
  ASSUME TypeOK, QueueInv, NEW next \in Tasks, GetNextTask(next)
  PROVE  HoldsHead(next) /\ state[next] \in {"READY", "RUNNING"}
<1>1. HoldsHead(next)
  <2>1. CASE resources[next] # {}
    BY <2>1 DEF QueueInv, HoldersAreHeads
  <2>2. CASE IsReadyHead(next)
    <3>1. PICK p \in Priorities : ready[p] # <<>> /\ next = Head(ready[p])
      BY <2>2 DEF IsReadyHead
    <3>2. ready[p] \in Seq(Tasks)
      BY <3>1 DEF TypeOK
    <3>3. 1 \in DOMAIN ready[p] /\ ready[p][1] = next
      BY <3>1, <3>2, LenProperties, EmptySeq
    <3>4. StaticPriority[next] = p
      BY <3>3 DEF QueueInv, SortedByPriority
    <3> QED
      BY <3>1, <3>4 DEF HoldsHead
  <2> QED
    BY <2>1, <2>2, TasksFacts DEF GetNextTask, IsResTask, HoldsResource
<1>2. Entries(next) >= 1
  BY <1>1, HeadHasEntry
<1>3. Entries(next) = IF state[next] = "WAITING" THEN 0 ELSE activations[next]
  BY DEF QueueInv, EntriesMatchActivations
<1>4. state[next] \in States /\ activations[next] \in Nat
  BY DEF TypeOK
<1>5. (state[next] = "SUSPENDED") <=> (activations[next] = 0)
  BY DEF QueueInv, EntriesMatchActivations
<1> QED
  BY <1>1, <1>2, <1>3, <1>4, <1>5 DEF States

\* The CPU is given to a task able to run; whoever had it becomes READY.
LEMMA SwitchQueueInv ==
  ASSUME TypeOK, QueueInv, NEW next \in Tasks,
         HoldsHead(next), state[next] \in {"READY", "RUNNING"},
         running' = next,
         state' \in [Tasks -> States], state'[next] = "RUNNING",
         \A t \in Tasks \ {next} :
            state'[t] = IF state[t] = "RUNNING" THEN "READY" ELSE state[t],
         UNCHANGED <<activations, resources, ready>>
  PROVE  QueueInv'
<1>1. \A t \in Tasks : /\ (state'[t] = "WAITING") <=> (state[t] = "WAITING")
                       /\ (state'[t] = "SUSPENDED") <=> (state[t] = "SUSPENDED")
                       /\ (state'[t] = "RUNNING") <=> (next = t)
  OBVIOUS
<1>2. EntriesMatchActivations'
  BY <1>1 DEF QueueInv, EntriesMatchActivations, Entries
<1>3. OneRunning' /\ WaitingIsExtended'
  BY <1>1 DEF QueueInv, OneRunning, WaitingIsExtended
<1>4. SortedByPriority' /\ WithinLimits' /\ RunningIsHead' /\ HoldersAreHeads'
  BY DEF QueueInv, SortedByPriority, WithinLimits, RunningIsHead, HoldersAreHeads, HoldsHead
<1> QED
  BY <1>2, <1>3, <1>4 DEF QueueInv

LEMMA GiveWayQueueInv ==
  ASSUME TypeOK, QueueInv, NEW t \in Tasks, running = t, GiveWay(t),
         UNCHANGED <<activations, resources, ready>>
  PROVE  /\ state' \in [Tasks -> States] /\ running' \in Tasks
         /\ QueueInv'
<1>1. PICK next \in Tasks :
        /\ GetNextTask(next)
        /\ IF StaticPriority[next] > actualPriority[t]
             THEN /\ state' = [state EXCEPT ![t] = "READY", ![next] = "RUNNING"]
                  /\ running' = next
             ELSE UNCHANGED <<state, running>>
  BY DEF GiveWay
<1>2. state \in [Tasks -> States]
  BY DEF TypeOK
<1>3. CASE StaticPriority[next] > actualPriority[t]
  <2>1. state' = [state EXCEPT ![t] = "READY", ![next] = "RUNNING"] /\ running' = next
    BY <1>1, <1>3
  <2>2. HoldsHead(next) /\ state[next] \in {"READY", "RUNNING"}
    BY <1>1, NextTaskIsHead
  <2>3. state' \in [Tasks -> States] /\ state'[next] = "RUNNING"
    BY <2>1, <1>2 DEF States
  <2>4. \A u \in Tasks \ {next} : state'[u] = IF state[u] = "RUNNING" THEN "READY" ELSE state[u]
    BY <2>1, <1>2 DEF QueueInv, OneRunning
  <2> QED
    BY <2>1, <2>2, <2>3, <2>4, SwitchQueueInv
<1>4. CASE ~(StaticPriority[next] > actualPriority[t])
  BY <1>1, <1>2, <1>4, QueueInvUnchanged
<1> QED
  BY <1>3, <1>4

LEMMA DispatchQueueInv ==
  ASSUME TypeOK, QueueInv, Dispatch
  PROVE  /\ state' \in [Tasks -> States] /\ running' \in Tasks
         /\ QueueInv'
<1>1. PICK next \in Tasks : /\ GetNextTask(next)
                            /\ state' = [state EXCEPT ![next] = "RUNNING"]
                            /\ running' = next
  BY DEF Dispatch
<1>2. HoldsHead(next) /\ state[next] \in {"READY", "RUNNING"}
  BY <1>1, NextTaskIsHead
<1>3. state \in [Tasks -> States] /\ running = INVALID_TASK
  BY DEF TypeOK, Dispatch, NoTask
<1>4. state' \in [Tasks -> States] /\ state'[next] = "RUNNING"
  BY <1>1, <1>3 DEF States
<1>5. \A u \in Tasks \ {next} : state'[u] = IF state[u] = "RUNNING" THEN "READY" ELSE state[u]
  BY <1>1, <1>3, TasksFacts DEF QueueInv, OneRunning
<1>6. UNCHANGED <<activations, resources, ready>>
  BY DEF Dispatch
<1> QED
  BY <1>1, <1>2, <1>4, <1>5, <1>6, SwitchQueueInv

\* The running task, without a resource, leaves the CPU and the head of its
\* list: with one activation less, or to wait for an event.
LEMMA LeaveQueueInv ==
  ASSUME TypeOK, QueueInv, NEW t \in Tasks, running = t, resources[t] = {},
         RemoveTask(t), running' = INVALID_TASK, UNCHANGED resources,
         \/ /\ activations' = [activations EXCEPT ![t] = @ - 1]
            /\ state' = [state EXCEPT ![t] = IF activations[t] = 1 THEN "SUSPENDED" ELSE "READY"]
         \/ /\ UNCHANGED activations
            /\ state' = [state EXCEPT ![t] = "WAITING"]
            /\ t \in Extended
  PROVE  /\ state' \in [Tasks -> States] /\ activations' \in [Tasks -> Nat]
         /\ ready' \in [Priorities -> Seq(Tasks)]
         /\ QueueInv'
<1>1. HoldsHead(t) /\ state[t] = "RUNNING"
  BY DEF QueueInv, RunningIsHead, OneRunning
<1>2. /\ ready' \in [Priorities -> Seq(Tasks)]
      /\ \A u \in Tasks : Entries(u)' = Entries(u) - (IF u = t THEN 1 ELSE 0)
      /\ \A u \in Tasks : HoldsHead(u) /\ u # t => HoldsHead(u)'
      /\ SortedByPriority'
  BY <1>1, RemoveTaskEffect DEF QueueInv
<1>3. state \in [Tasks -> States] /\ activations \in [Tasks -> Nat]
  BY DEF TypeOK
<1>4. Entries(t) = activations[t] /\ activations[t] # 0 /\ activations[t] <= MaxActivations[t]
  BY <1>1 DEF QueueInv, EntriesMatchActivations, WithinLimits
<1>5. state' \in [Tasks -> States] /\ activations' \in [Tasks -> Nat]
  <2>1. activations[t] \in Nat \ {0} /\ activations[t] - 1 \in Nat
    BY <1>3, <1>4
  <2>2. \A s \in States : [state EXCEPT ![t] = s] \in [Tasks -> States]
    BY <1>3
  <2>3. [activations EXCEPT ![t] = @ - 1] \in [Tasks -> Nat]
    BY <2>1, <1>3
  <2> QED
    BY <2>2, <2>3, <1>3 DEF States
<1>6. \A u \in Tasks \ {t} : /\ state'[u] = state[u] /\ activations'[u] = activations[u]
                             /\ Entries(u)' = Entries(u)
  <2> SUFFICES ASSUME NEW u \in Tasks \ {t}
               PROVE  /\ state'[u] = state[u] /\ activations'[u] = activations[u]
                      /\ Entries(u)' = Entries(u)
    OBVIOUS
  <2>1. state'[u] = state[u] /\ activations'[u] = activations[u]
    BY <1>3
  <2>2. Entries(u)' = Entries(u)
    BY <1>2, EntriesType
  <2> QED
    BY <2>1, <2>2
<1>7. EntriesMatchActivations' /\ WithinLimits'
  <2>1. CASE activations' = [activations EXCEPT ![t] = @ - 1]
             /\ state' = [state EXCEPT ![t] = IF activations[t] = 1 THEN "SUSPENDED" ELSE "READY"]
    <3>1. /\ Entries(t)' = activations'[t] /\ activations'[t] <= MaxActivations[t]
          /\ state'[t] \in {"SUSPENDED", "READY"}
          /\ (state'[t] = "SUSPENDED") <=> (activations'[t] = 0)
      <4>1. activations'[t] = activations[t] - 1 /\ activations[t] \in Nat
            /\ MaxActivations[t] \in Nat
        BY <2>1, <1>3, TasksFacts
      <4>2. Entries(t)' = Entries(t) - 1
        BY <1>2
      <4>3. state'[t] = IF activations[t] = 1 THEN "SUSPENDED" ELSE "READY"
        BY <2>1, <1>3
      <4> QED
        BY <4>1, <4>2, <4>3, <1>4
    <3> QED
      <4>1. \A u \in Tasks : /\ Entries(u) = IF state[u] = "WAITING" THEN 0 ELSE activations[u]
                             /\ (state[u] = "SUSPENDED") <=> (activations[u] = 0)
                             /\ activations[u] <= MaxActivations[u]
        BY DEF QueueInv, EntriesMatchActivations, WithinLimits
      <4>2. \A u \in Tasks : /\ Entries(u)' = IF state'[u] = "WAITING" THEN 0 ELSE activations'[u]
                             /\ (state'[u] = "SUSPENDED") <=> (activations'[u] = 0)
                             /\ activations'[u] <= MaxActivations[u]
        BY <3>1, <4>1, <1>6
      <4> QED
        BY <4>2 DEF EntriesMatchActivations, WithinLimits
  <2>2. CASE UNCHANGED activations /\ state' = [state EXCEPT ![t] = "WAITING"] /\ t \in Extended
    <3>1. activations[t] = 1
      <4>1. MaxActivations[t] = 1
        BY <2>2 DEF KernelAssumption
      <4> QED
        BY <4>1, <1>3, <1>4
    <3>2. Entries(t)' = Entries(t) - 1
      BY <1>2
    <3>3. Entries(t)' = 0 /\ state'[t] = "WAITING" /\ activations'[t] = activations[t]
      BY <2>2, <3>1, <3>2, <1>3, <1>4
    <3>4. EntriesMatchActivations'
      BY <3>1, <3>3, <1>6 DEF QueueInv, EntriesMatchActivations, Entries
    <3> QED
      BY <3>4, <2>2 DEF QueueInv, WithinLimits
  <2> QED
    BY <2>1, <2>2
<1>8. OneRunning' /\ WaitingIsExtended' /\ RunningIsHead'
  <2>1. state'[t] # "RUNNING" /\ (state'[t] = "WAITING" => t \in Extended)
    BY <1>3
  <2> QED
    BY <2>1, <1>6, TasksFacts DEF QueueInv, OneRunning, WaitingIsExtended, RunningIsHead
<1>9. HoldersAreHeads'
  BY <1>2 DEF QueueInv, HoldersAreHeads
<1> QED
  BY <1>2, <1>5, <1>7, <1>8, <1>9 DEF QueueInv

\* The running task may take resources, being the head of its list.
LEMMA ResourcesQueueInv ==
  ASSUME QueueInv, NEW t \in Tasks, running = t,
         \A u \in Tasks \ {t} : resources'[u] = resources[u],
         UNCHANGED <<state, activations, ready, running>>
  PROVE  QueueInv'
<1>1. HoldersAreHeads'
  BY DEF QueueInv, HoldersAreHeads, RunningIsHead, HoldsHead
<1> QED
  BY <1>1 DEF QueueInv, SortedByPriority, EntriesMatchActivations, Entries, WithinLimits,
              WaitingIsExtended, OneRunning, RunningIsHead, HoldsHead

(***************************************************************************)
(* KernelInv is inductive                                                  *)
(***************************************************************************)
CodeTypeOK ==
  /\ running \in Tasks \cup {INVALID_TASK}
  /\ context \in {"TASK", "SYS"}
  /\ pc \in [Tasks -> PCs]
  /\ setArg \in [Tasks -> Tasks \X Masks]
  /\ postIsr \in BOOLEAN
  /\ idle \in {"no", "pause", "wfi"}
  /\ boot \in 0 .. Len(AutoStart)
  /\ err \in {"E_OK", "E_OS_ACCESS", "E_OS_ID", "E_OS_LIMIT", "E_OS_NOFUNC",
              "E_OS_RESOURCE", "E_OS_STATE"}
  /\ halted \in BOOLEAN

LEMMA TypeOKParts == TypeOK <=> TaskTypeOK /\ CodeTypeOK
BY DEF TypeOK, TaskTypeOK, CodeTypeOK

LEMMA KernelInit == Init => KernelInv
<1> SUFFICES ASSUME Init PROVE KernelInv
  OBVIOUS
<1>1. TypeOK
  <2>1. <<>> \in Seq(Tasks) /\ 0 \in Priorities /\ 0 \in Tasks
    BY DEF KernelAssumption, Priorities, Tasks
  <2>2. TaskTypeOK
    BY <2>1 DEF Init, TaskTypeOK, States, Masks
  <2>4. 0 \in 0 .. Len(AutoStart)
    BY LenProperties DEF KernelAssumption
  <2>5. CodeTypeOK
    BY NoArgType, <2>4 DEF Init, CodeTypeOK, PCs
  <2> QED
    BY <2>2, <2>5, TypeOKParts
<1>2. \A t \in Tasks : ready[StaticPriority[t]] = <<>>
  BY TasksFacts DEF Init
<1>3. \A t \in Tasks : Entries(t) = 0
  <2>1. \A t \in Tasks : Occurrences(<<>>, t) = {}
    BY DEF Occurrences
  <2>2. Cardinality({}) = 0
    BY FS_EmptySet
  <2> QED
    BY <1>2, <2>1, <2>2 DEF Entries
<1>4. EntriesMatchActivations /\ WithinLimits
  BY <1>3, TasksFacts DEF Init, EntriesMatchActivations, WithinLimits
<1>5. SortedByPriority /\ WaitingIsExtended /\ OneRunning /\ RunningIsHead /\ HoldersAreHeads
  BY TasksFacts DEF Init, SortedByPriority, WaitingIsExtended, OneRunning, RunningIsHead,
                    HoldersAreHeads
<1>6. ContextInv
  BY DEF Init, ContextInv
<1> QED
  BY <1>1, <1>4, <1>5, <1>6 DEF KernelInv, QueueInv

LEMMA TypeOKNext ==
  ASSUME TaskTypeOK', CodeTypeOK'
  PROVE  TypeOK'
BY DEF TypeOK, TaskTypeOK, CodeTypeOK

\* A step that changes only what is recorded of the tasks.
LEMMA CodeUnchanged ==
  ASSUME CodeTypeOK, ContextInv, UNCHANGED <<cpuVars, codeVars, boot, errorVars>>
  PROVE  CodeTypeOK' /\ ContextInv'
BY DEF CodeTypeOK, ContextInv, cpuVars, codeVars, errorVars

\* A step that keeps what QueueInv is about.
LEMMA QuietStep ==
  ASSUME KernelInv, CodeTypeOK', ContextInv',
         UNCHANGED <<taskVars, ready, running>>
  PROVE  KernelInv'
<1>1. UNCHANGED <<state, activations, actualPriority, events, eventsWait, resources, ready, running>>
  BY DEF taskVars
<1>2. TaskTypeOK' /\ QueueInv'
  BY <1>1, QueueInvUnchanged DEF KernelInv, TypeOK, TaskTypeOK
<1> QED
  BY <1>2, TypeOKNext DEF KernelInv

Statuses ==
  {"E_OS_ACCESS", "E_OS_ID", "E_OS_LIMIT", "E_OS_NOFUNC", "E_OS_RESOURCE", "E_OS_STATE"}

LEMMA ErrorHookStep ==
  ASSUME KernelInv, NEW t \in Tasks, NEW status \in Statuses, ErrorHook(t, status)
  PROVE  KernelInv'
<1>1. pc' \in [Tasks -> PCs]
  <2>1. {"app", "shutdown"} \subseteq PCs
    BY DEF PCs
  <2> QED
    BY <2>1 DEF KernelInv, TypeOK, ErrorHook
<1>2. CodeTypeOK' /\ ContextInv'
  BY <1>1 DEF KernelInv, TypeOK, ContextInv, CodeTypeOK, ErrorHook, Statuses, cpuVars
<1> QED
  BY <1>2, QuietStep DEF ErrorHook, cpuVars

LEMMA ErrorHookOutsideTasksStep ==
  ASSUME KernelInv, NEW status \in Statuses, ErrorHookOutsideTasks(status)
  PROVE  KernelInv'
<1>1. CodeTypeOK' /\ ContextInv'
  BY DEF KernelInv, TypeOK, ContextInv, CodeTypeOK, ErrorHookOutsideTasks, Statuses,
         cpuVars, codeVars
<1> QED
  BY <1>1, QuietStep DEF ErrorHookOutsideTasks, cpuVars

LEMMA GiveWayStep ==
  ASSUME KernelInv, NEW t \in Tasks, running = t, GiveWay(t),
         pc' \in [Tasks -> PCs], postIsr' = FALSE,
         UNCHANGED <<activations, actualPriority, events, eventsWait, resources,
                     ready, idle, setArg, boot, errorVars>>
  PROVE  KernelInv'
<1>1. /\ state' \in [Tasks -> States] /\ running' \in Tasks
      /\ QueueInv'
  BY GiveWayQueueInv DEF KernelInv
<1>2. context' \in {"TASK", "SYS"}
  BY DEF GiveWay, KernelInv, TypeOK
<1>3. TaskTypeOK' /\ CodeTypeOK'
  BY <1>1, <1>2 DEF KernelInv, TypeOK, TaskTypeOK, CodeTypeOK, errorVars
<1>4. ContextInv'
  BY <1>1 DEF ContextInv
<1> QED
  BY <1>1, <1>3, <1>4, TypeOKNext DEF KernelInv

\* The same for the Schedule a task calls.
LEMMA ScheduleFromStep ==
  ASSUME KernelInv, NEW t \in Tasks, running = t, ~postIsr, ScheduleFrom(t),
         pc' \in [Tasks -> PCs]
  PROVE  KernelInv'
<1>1. postIsr' = FALSE
  <2>1. postIsr \in BOOLEAN /\ postIsr' = postIsr
    BY DEF KernelInv, TypeOK, ScheduleFrom
  <2> QED
    BY <2>1
<1>2. GiveWay(t) /\ UNCHANGED <<activations, actualPriority, events, eventsWait, resources,
                               ready, idle, setArg, boot, errorVars>>
  BY DEF ScheduleFrom
<1> QED
  BY <1>1, <1>2, GiveWayStep

LEMMA GotoType ==
  ASSUME TypeOK, NEW t \in Tasks, NEW place \in PCs, Goto(t, place)
  PROVE  pc' \in [Tasks -> PCs]
BY DEF TypeOK, Goto

LEMMA ServiceStep ==
  ASSUME KernelInv, NEW t \in Tasks, Service(t)
  PROVE  KernelInv'
<1> USE DEF KernelInv
<1>0. {"app", "activated", "sysctx", "scheduled", "released", "setevent", "eventset",
       "chain", "shutdown"} = PCs
  BY DEF PCs
<1>1. ASSUME NEW id \in 0 .. TASKS_COUNT, ActivateTask(t, id)
      PROVE  KernelInv'
  <2>1. CASE id \in Tasks /\ Activable(id)
    <3>1. Activate(id) /\ running' = running
      BY <1>1, <2>1 DEF ActivateTask, cpuVars
    <3>2. TaskTypeOK' /\ QueueInv'
      BY <2>1, <3>1, ActivateQueueInv
    <3>3. pc' \in [Tasks -> PCs]
      BY <1>0, <1>1, <2>1, GotoType DEF ActivateTask, ThenIfPreemtive
    <3>4. CodeTypeOK' /\ ContextInv'
      BY <1>1, <2>1, <3>3 DEF ActivateTask, TypeOK, CodeTypeOK, ContextInv, errorVars, cpuVars
    <3> QED
      BY <3>2, <3>4, TypeOKNext
  <2>2. CASE ~(id \in Tasks /\ Activable(id))
    BY <1>1, <2>2, ErrorHookStep DEF Statuses, ActivateTask
  <2> QED
    BY <2>1, <2>2
<1>2. ASSUME TerminateTask(t)
      PROVE  KernelInv'
  <2>1. CASE resources[t] = {}
    <3>1. /\ state' \in [Tasks -> States] /\ activations' \in [Tasks -> Nat]
          /\ ready' \in [Priorities -> Seq(Tasks)]
          /\ QueueInv'
      BY <1>2, <2>1, LeaveQueueInv DEF TerminateTask, LeaveCpu, At
    <3>2. TaskTypeOK'
      BY <1>2, <2>1, <3>1 DEF TerminateTask, TypeOK, TaskTypeOK
    <3>3. CodeTypeOK' /\ ContextInv'
      BY <1>2, <2>1 DEF TerminateTask, LeaveCpu, At, TypeOK, CodeTypeOK, ContextInv, errorVars, codeVars
    <3> QED
      BY <3>1, <3>2, <3>3, TypeOKNext
  <2>2. CASE resources[t] # {}
    BY <1>2, <2>2, ErrorHookStep DEF Statuses, TerminateTask
  <2> QED
    BY <2>1, <2>2
<1>3. ASSUME Schedule(t)
      PROVE  KernelInv'
  <2>1. CASE ScheduleFrom(t) /\ UNCHANGED pc
    BY <1>3, <2>1, ScheduleFromStep DEF Schedule, At, TypeOK
  <2>2. CASE ErrorHook(t, "E_OS_RESOURCE")
    BY <2>2, ErrorHookStep DEF Statuses
  <2> QED
    BY <1>3, <2>1, <2>2 DEF Schedule
<1>4. ASSUME NEW r \in 0 .. RESOURCES_COUNT, GetResource(t, r)
      PROVE  KernelInv'
  <2>1. CASE r \in ResourcesMask[t] \ resources[t]
    <3>1. r \in Resources /\ ResourcesPriority[r] \in Priorities
      BY <2>1 DEF KernelAssumption
    <3>2. /\ actualPriority' \in [Tasks -> Priorities]
          /\ resources' \in [Tasks -> SUBSET Resources]
          /\ \A u \in Tasks \ {t} : resources'[u] = resources[u]
      <4>1. /\ actualPriority' = [actualPriority EXCEPT ![t] =
                   IF @ < ResourcesPriority[r] THEN ResourcesPriority[r] ELSE @]
            /\ resources' = [resources EXCEPT ![t] = @ \cup {r}]
        BY <1>4, <2>1 DEF GetResource
      <4>2. resources[t] \cup {r} \in SUBSET Resources
        BY <3>1 DEF TypeOK
      <4>3. actualPriority' \in [Tasks -> Priorities]
        BY <4>1, <3>1 DEF TypeOK
      <4> QED
        BY <4>1, <4>2, <4>3 DEF TypeOK
    <3>3. QueueInv'
      BY <1>4, <2>1, <3>2, ResourcesQueueInv DEF GetResource, At, cpuVars
    <3>4. TaskTypeOK'
      BY <1>4, <2>1, <3>2, TypeOKParts DEF GetResource, TaskTypeOK
    <3>5. CodeTypeOK' /\ ContextInv'
      BY <1>4, <2>1, CodeUnchanged, TypeOKParts DEF GetResource
    <3> QED
      BY <3>3, <3>4, <3>5, TypeOKNext
  <2>2. CASE r \notin ResourcesMask[t] \ resources[t]
    BY <1>4, <2>2, ErrorHookStep DEF Statuses, GetResource
  <2> QED
    BY <2>1, <2>2
<1>5. ASSUME NEW r \in 0 .. RESOURCES_COUNT, ReleaseResource(t, r)
      PROVE  KernelInv'
  <2>1. CASE r \in resources[t]
    <3>1. /\ actualPriority' \in [Tasks -> Priorities]
          /\ resources' \in [Tasks -> SUBSET Resources]
          /\ \A u \in Tasks \ {t} : resources'[u] = resources[u]
      <4>1. resources' = [resources EXCEPT ![t] = @ \ {r}]
        BY <1>5, <2>1 DEF ReleaseResource
      <4>2. resources[t] \ {r} \in SUBSET Resources
        BY DEF TypeOK
      <4>3. PICK p \in Priorities : actualPriority' = [actualPriority EXCEPT ![t] = p]
        BY <1>5, <2>1 DEF ReleaseResource
      <4>4. actualPriority' \in [Tasks -> Priorities]
        BY <4>3 DEF TypeOK
      <4> QED
        BY <4>1, <4>2, <4>4 DEF TypeOK
    <3>2. QueueInv'
      BY <1>5, <2>1, <3>1, ResourcesQueueInv DEF ReleaseResource, At, cpuVars
    <3>3. pc' \in [Tasks -> PCs]
      BY <1>0, <1>5, <2>1, GotoType DEF ReleaseResource, ThenIfPreemtive
    <3>4. TaskTypeOK' /\ CodeTypeOK' /\ ContextInv'
      BY <1>5, <2>1, <3>1, <3>3 DEF ReleaseResource, TypeOK, TaskTypeOK, CodeTypeOK, errorVars,
                                    ContextInv, cpuVars
    <3> QED
      BY <3>2, <3>4, TypeOKNext
  <2>2. CASE r \notin resources[t]
    BY <1>5, <2>2, ErrorHookStep DEF Statuses, ReleaseResource
  <2> QED
    BY <2>1, <2>2
<1>6. ASSUME NEW id \in 0 .. TASKS_COUNT, NEW mask \in Masks \ {{}}, SetEvent(t, id, mask)
      PROVE  KernelInv'
  <2>1. CASE SetEventStatus(id) = "E_OK"
    <3>1. id \in Tasks
      BY <2>1 DEF SetEventStatus
    <3>2. setArg' \in [Tasks -> Tasks \X Masks]
      <4>1. <<id, mask>> \in Tasks \X Masks
        BY <3>1
      <4>2. setArg' = [setArg EXCEPT ![t] = <<id, mask>>]
        BY <1>6, <2>1 DEF SetEvent
      <4> QED
        BY <4>1, <4>2 DEF TypeOK
    <3>3. pc' \in [Tasks -> PCs]
      BY <1>0, <1>6, <2>1, GotoType DEF SetEvent
    <3>4. CodeTypeOK' /\ ContextInv'
      BY <1>6, <2>1, <3>2, <3>3 DEF SetEvent, TypeOK, CodeTypeOK, ContextInv, errorVars, cpuVars
    <3> QED
      BY <1>6, <2>1, <3>4, QuietStep DEF SetEvent, cpuVars
  <2>2. CASE SetEventStatus(id) # "E_OK"
    <3>1. ErrorHook(t, SetEventStatus(id))
      BY <1>6, <2>2 DEF SetEvent
    <3>2. SetEventStatus(id) \in Statuses
      BY <2>2 DEF SetEventStatus, Statuses
    <3> QED
      BY <3>1, <3>2, ErrorHookStep
  <2> QED
    BY <2>1, <2>2
<1>7. ASSUME NEW mask \in Masks \ {{}}, WaitEvent(t, mask)
      PROVE  KernelInv'
  <2>1. CASE t \in Extended /\ resources[t] = {}
    <3>1. /\ state' \in [Tasks -> States]
          /\ ready' \in [Priorities -> Seq(Tasks)]
          /\ QueueInv'
      BY <1>7, <2>1, LeaveQueueInv DEF WaitEvent, LeaveCpu, At
    <3>2. eventsWait' \in [Tasks -> Masks]
      BY <1>7, <2>1 DEF WaitEvent, TypeOK
    <3>3. TaskTypeOK'
      BY <1>7, <2>1, <3>1, <3>2 DEF WaitEvent, TypeOK, TaskTypeOK
    <3>4. CodeTypeOK' /\ ContextInv'
      BY <1>7, <2>1 DEF WaitEvent, LeaveCpu, At, TypeOK, CodeTypeOK, ContextInv, errorVars, codeVars
    <3> QED
      BY <3>1, <3>3, <3>4, TypeOKNext
  <2>2. CASE ~(t \in Extended /\ resources[t] = {})
    BY <1>7, <2>2, ErrorHookStep DEF Statuses, WaitEvent
  <2> QED
    BY <2>1, <2>2
<1>8. ASSUME NEW mask \in Masks \ {{}}, ClearEvent(t, mask)
      PROVE  KernelInv'
  <2>1. CASE t \in Extended
    <3>1. events' \in [Tasks -> Masks]
      <4>1. events[t] \ (mask \cap EventsMask[t]) \in Masks
        BY DEF TypeOK, Masks
      <4> QED
        BY <1>8, <2>1, <4>1 DEF ClearEvent, TypeOK
    <3>2. QueueInv'
      BY <1>8, <2>1, QueueInvUnchanged DEF ClearEvent, cpuVars
    <3>3. TaskTypeOK'
      BY <1>8, <2>1, <3>1, TypeOKParts DEF ClearEvent, TaskTypeOK
    <3>4. CodeTypeOK' /\ ContextInv'
      BY <1>8, <2>1, CodeUnchanged, TypeOKParts DEF ClearEvent
    <3> QED
      BY <3>2, <3>3, <3>4, TypeOKNext
  <2>2. CASE t \notin Extended
    BY <1>8, <2>2, ErrorHookStep DEF Statuses, ClearEvent
  <2> QED
    BY <2>1, <2>2
<1> QED
  BY <1>1, <1>2, <1>3, <1>4, <1>5, <1>6, <1>7, <1>8 DEF Service

LEMMA ServiceEndStep ==
  ASSUME KernelInv, NEW t \in Tasks, ServiceEnd(t)
  PROVE  KernelInv'
<1> USE DEF KernelInv
<1>0. {"app", "activated", "sysctx", "scheduled", "released", "setevent", "eventset",
       "chain", "shutdown"} = PCs
  BY DEF PCs
<1>1. CASE SetSysContext(t)
  <2>1. pc' \in [Tasks -> PCs]
    BY <1>0, <1>1, GotoType DEF SetSysContext
  <2>2. CodeTypeOK' /\ ContextInv'
    BY <1>1, <2>1 DEF SetSysContext, At, TypeOK, CodeTypeOK, ContextInv, errorVars
  <2> QED
    BY <1>1, <2>2, QuietStep DEF SetSysContext
<1>2. CASE ActivateTaskSchedule(t)
  <2>1. pc' \in [Tasks -> PCs]
    BY <1>0, <1>2, GotoType DEF ActivateTaskSchedule
  <2> QED
    BY <1>2, <2>1, ScheduleFromStep DEF ActivateTaskSchedule, At
<1>3. CASE RestoreTaskContext(t)
  <2>1. pc' \in [Tasks -> PCs]
    BY <1>0, <1>3, GotoType DEF RestoreTaskContext
  <2>2. CodeTypeOK' /\ ContextInv'
    BY <1>3, <2>1 DEF RestoreTaskContext, At, TypeOK, CodeTypeOK, ContextInv, errorVars
  <2> QED
    BY <1>3, <2>2, QuietStep DEF RestoreTaskContext
<1>4. CASE Reschedule(t)
  <2>1. CASE ScheduleFrom(t) /\ Goto(t, "app")
    <3>1. pc' \in [Tasks -> PCs]
      BY <1>0, <2>1, GotoType
    <3> QED
      BY <1>4, <2>1, <3>1, ScheduleFromStep DEF Reschedule, At
  <2>2. CASE ErrorHook(t, "E_OS_RESOURCE")
    BY <2>2, ErrorHookStep DEF Statuses
  <2> QED
    BY <1>4, <2>1, <2>2 DEF Reschedule
<1>5. CASE SetEventSet(t)
  <2> DEFINE id == setArg[t][1]
             mask == setArg[t][2]
  <2>1. id \in Tasks /\ mask \in Masks
    BY DEF TypeOK
  <2>2. SetEventBits(id, mask) /\ running' = running
    BY <1>5 DEF SetEventSet, cpuVars
  <2>3. TaskTypeOK' /\ QueueInv'
    <3> HIDE DEF id, mask
    <3> QED
      BY <2>1, <2>2, SetEventQueueInv
  <2>4. pc' \in [Tasks -> PCs]
    BY <1>0, <1>5, GotoType DEF SetEventSet, ThenIfPreemtive
  <2>5. CodeTypeOK' /\ ContextInv'
    BY <1>5, <2>4, NoArgType DEF SetEventSet, TypeOK, CodeTypeOK, ContextInv, errorVars, cpuVars
  <2> QED
    BY <2>3, <2>5, TypeOKNext
<1> QED
  BY <1>1, <1>2, <1>3, <1>4, <1>5 DEF ServiceEnd

\* The ISRs: PostIsr2 follows only if the ISR found a task in the TASK context.
LEMMA IsrEndType ==
  ASSUME KernelInv, IsrEnd, UNCHANGED <<running, context, pc, setArg, boot, errorVars>>
  PROVE  CodeTypeOK' /\ ContextInv'
BY DEF KernelInv, TypeOK, CodeTypeOK, ContextInv, IsrEnd, errorVars

LEMMA IsrErrorStep ==
  ASSUME KernelInv, NEW status \in Statuses, IsrError(status)
  PROVE  KernelInv'
<1>1. CASE ErrorHookOutsideTasks(status)
  BY <1>1, ErrorHookOutsideTasksStep
<1>2. CASE ~ErrorHookOutsideTasks(status)
  BY <1>2, IsrEndType, QuietStep DEF IsrError
<1> QED
  BY <1>1, <1>2

LEMMA IsrStep ==
  ASSUME KernelInv, Isr
  PROVE  KernelInv'
<1> USE DEF KernelInv
<1>1. CASE IsrNoCall
  BY <1>1, IsrEndType, QuietStep DEF IsrNoCall
<1>2. ASSUME NEW id \in IsrActivates, IsrActivateTask(id)
      PROVE  KernelInv'
  <2>1. CASE Activable(id)
    <3>1. id \in Tasks
      BY DEF KernelAssumption
    <3>2. TaskTypeOK' /\ QueueInv'
      BY <1>2, <2>1, <3>1, ActivateQueueInv DEF IsrActivateTask
    <3> QED
      BY <1>2, <2>1, <3>2, IsrEndType, TypeOKNext DEF IsrActivateTask
  <2>2. CASE ~Activable(id)
    BY <1>2, <2>2, IsrErrorStep DEF IsrActivateTask, Statuses
  <2> QED
    BY <2>1, <2>2
<1>3. ASSUME NEW id \in IsrSetsEvents, NEW mask \in Masks \ {{}}, IsrSetEvent(id, mask)
      PROVE  KernelInv'
  <2>1. CASE SetEventStatus(id) = "E_OK"
    <3>1. id \in Tasks
      BY DEF KernelAssumption
    <3>2. TaskTypeOK' /\ QueueInv'
      BY <1>3, <2>1, <3>1, SetEventQueueInv DEF IsrSetEvent
    <3> QED
      BY <1>3, <2>1, <3>2, IsrEndType, TypeOKNext DEF IsrSetEvent
  <2>2. CASE SetEventStatus(id) # "E_OK"
    <3>1. SetEventStatus(id) \in Statuses
      BY <2>2 DEF SetEventStatus, Statuses
    <3> QED
      BY <1>3, <2>2, <3>1, IsrErrorStep DEF IsrSetEvent
  <2> QED
    BY <2>1, <2>2
<1> QED
  BY <1>1, <1>2, <1>3 DEF Isr

LEMMA StartOSStep ==
  ASSUME KernelInv, StartOS
  PROVE  KernelInv'
<1> USE DEF KernelInv
<1> DEFINE t == AutoStart[boot + 1]
<1>1. /\ boot + 1 \in 1 .. Len(AutoStart) /\ boot \in Nat
      /\ AutoStart \in Seq(Tasks) /\ Len(AutoStart) \in Nat
  BY LenProperties DEF StartOS, TypeOK, KernelAssumption
<1>2. t \in Tasks
  BY <1>1, ElementOfSeq
<1>3. CASE Activable(t)
  <2>1. /\ Activate(t) /\ boot' = boot + 1
        /\ UNCHANGED <<running, context, idle, pc, setArg, postIsr, err, halted>>
    BY <1>3 DEF StartOS, cpuVars, codeVars, errorVars
  <2>2. TaskTypeOK' /\ QueueInv'
    <3> HIDE DEF t
    <3> QED
      BY <1>2, <1>3, <2>1, ActivateQueueInv
  <2>3. CodeTypeOK'
    <3>1. boot' \in 0 .. Len(AutoStart)
      BY <1>1, <2>1
    <3> HIDE DEF t
    <3> QED
      BY <2>1, <3>1 DEF TypeOK, CodeTypeOK
  <2>4. ContextInv'
    <3> HIDE DEF t
    <3> QED
      BY <2>1 DEF ContextInv
  <2> QED
    BY <2>2, <2>3, <2>4, TypeOKNext
<1>4. CASE ~Activable(t)
  BY <1>4, ErrorHookOutsideTasksStep DEF StartOS, Statuses
<1> QED
  BY <1>3, <1>4

LEMMA KernelStep ==
  ASSUME KernelInv, [Next]_vars
  PROVE  KernelInv'
<1>1. CASE UNCHANGED vars
  <2>1. CodeTypeOK' /\ ContextInv'
    BY <1>1 DEF KernelInv, TypeOK, CodeTypeOK, ContextInv, errorVars, vars, cpuVars, codeVars
  <2> QED
    BY <1>1, <2>1, QuietStep DEF vars, cpuVars
<1>2. CASE PostIsr2
  BY <1>2, GiveWayStep DEF PostIsr2, KernelInv, TypeOK
<1>3. CASE Dispatch
  <2>1. /\ state' \in [Tasks -> States] /\ running' \in Tasks
        /\ QueueInv'
    BY <1>3, DispatchQueueInv DEF KernelInv
  <2>2. TaskTypeOK' /\ CodeTypeOK' /\ ContextInv'
    BY <1>3, <2>1 DEF Dispatch, KernelInv, TypeOK, TaskTypeOK, CodeTypeOK, ContextInv, errorVars, codeVars
  <2> QED
    BY <2>1, <2>2, TypeOKNext DEF KernelInv
<1>4. CASE IdleEnableInterrupts \/ OsekPause
  <2>1. CodeTypeOK' /\ ContextInv'
    BY <1>4 DEF IdleEnableInterrupts, OsekPause, KernelInv, TypeOK, CodeTypeOK, ContextInv, errorVars,
                codeVars
  <2> QED
    BY <1>4, <2>1, QuietStep DEF IdleEnableInterrupts, OsekPause
<1>5. CASE ShutdownOS
  BY <1>1, <1>5 DEF ShutdownOS
<1>6. CASE \E t \in Tasks : Service(t) \/ ServiceEnd(t)
  BY <1>6, ServiceStep, ServiceEndStep
<1> QED
  BY <1>1, <1>2, <1>3, <1>4, <1>5, <1>6, IsrStep, StartOSStep DEF Next

(***************************************************************************)
(* The theorems                                                            *)
(***************************************************************************)

\* Whatever the configuration, tasks, lists and the CPU keep the relations of
\* KernelInv.
THEOREM KernelInvariant == Spec => []KernelInv
<1>1. Init => KernelInv
  BY KernelInit
<1>2. KernelInv /\ [Next]_vars => KernelInv'
  BY KernelStep
<1> QED
  BY <1>1, <1>2, PTL DEF Spec

\* Every variable keeps its type: no counter goes below zero, no list is
\* shortened past its end.
THEOREM TypeCorrect == Spec => []TypeOK
<1>1. KernelInv => TypeOK
  BY DEF KernelInv
<1> QED
  BY <1>1, KernelInvariant, PTL

\* Ready lists and activation counters never disagree (AddReady, RemoveTask).
THEOREM ListsMatchActivations == Spec => []EntriesMatchActivations
<1>1. KernelInv => EntriesMatchActivations
  BY DEF KernelInv, QueueInv
<1> QED
  BY <1>1, KernelInvariant, PTL

\* A ready list is never longer than the array the generator made for it, the
\* sum of the ACTIVATIONs of its tasks (AddReady, which writes without a check).
THEOREM ReadyListsFit == Spec => []ReadyListFits
<1>1. ASSUME KernelInv, NEW p \in Priorities
      PROVE  Len(ready[p]) <= Cardinality(Slots(p))
  <2> DEFINE S == {u \in Tasks : StaticPriority[u] = p}
             list == ready[p]
  <2>1. list \in Seq(Tasks) /\ \A i \in DOMAIN list : StaticPriority[list[i]] = p
    BY <1>1 DEF KernelInv, TypeOK, QueueInv, SortedByPriority
  <2>2. list \in Seq(S)
    <3>1. Len(list) \in Nat /\ DOMAIN list = 1 .. Len(list)
      BY <2>1, LenProperties
    <3>2. \A i \in 1 .. Len(list) : list[i] \in S
      BY <2>1, <3>1
    <3> HIDE DEF S, list
    <3> QED
      BY <2>1, <3>1, <3>2
  <2>3. \A t \in S : MaxActivations[t] \in Nat
    BY TasksFacts
  <2>4. ASSUME NEW t \in S
        PROVE  Cardinality(Occurrences(list, t)) <= MaxActivations[t]
    <3>1. t \in Tasks /\ Entries(t) = Cardinality(Occurrences(list, t))
      BY DEF Entries
    <3>2. Entries(t) = 0 \/ Entries(t) = activations[t]
      BY <1>1, <3>1 DEF KernelInv, QueueInv, EntriesMatchActivations
    <3>3. activations[t] \in Nat /\ activations[t] <= MaxActivations[t] /\ MaxActivations[t] \in Nat
      BY <1>1, <3>1, TasksFacts DEF KernelInv, TypeOK, QueueInv, WithinLimits
    <3> HIDE DEF S, list
    <3> QED
      BY <3>1, <3>2, <3>3
  <2>5. IsFiniteSet(S)
    <3>1. TASKS_COUNT - 1 \in Int
      BY DEF KernelAssumption
    <3>2. IsFiniteSet(Tasks) /\ S \in SUBSET Tasks
      BY <3>1, FS_Interval DEF Tasks
    <3> HIDE DEF S
    <3> QED
      BY <3>2, FS_Subset
  <2>6. KeepsLimits(list, S, MaxActivations)
    BY <2>3, <2>4 DEF KeepsLimits
  <2>7. Slots(p) = Places(S, MaxActivations)
    BY DEF Slots, Places
  <2> HIDE DEF S, list
  <2>8. Len(list) <= Cardinality(Places(S, MaxActivations))
    BY <2>2, <2>5, <2>6, QueueFitsPlaces
  <2> QED
    BY <2>7, <2>8 DEF list
<1>2. KernelInv => ReadyListFits
  BY <1>1 DEF ReadyListFits
<1> QED
  BY <1>2, KernelInvariant, PTL

\* RemoveTask, which drops the head, always drops the task that ends or waits.
THEOREM RunningHeadsItsList == Spec => []RunningIsHead
<1>1. KernelInv => RunningIsHead
  BY DEF KernelInv, QueueInv
<1> QED
  BY <1>1, KernelInvariant, PTL

\* One task at most is RUNNING and RunningTask names it.
THEOREM AtMostOneRuns == Spec => []OneRunning
<1>1. KernelInv => OneRunning
  BY DEF KernelInv, QueueInv
<1> QED
  BY <1>1, KernelInvariant, PTL

\* TasksVar, ReadyConst and the lists are only indexed by existing tasks.
THEOREM IndicesAreValid == Spec => []IndicesValid
<1>1. KernelInv => IndicesValid
  <2> SUFFICES ASSUME KernelInv PROVE IndicesValid
    OBVIOUS
  <2>1. running \in Tasks \cup {INVALID_TASK}
    BY DEF KernelInv, TypeOK
  <2>2. ReadyListsEmpty => running = INVALID_TASK /\ \A t \in Tasks : resources[t] = {}
    BY <2>1, TasksFacts DEF KernelInv, QueueInv, RunningIsHead, HoldersAreHeads, HoldsHead,
                            ReadyListsEmpty
  <2> QED
    BY <2>2 DEF IndicesValid, KernelInv, ContextInv
<1> QED
  BY <1>1, KernelInvariant, PTL

(***************************************************************************)
(* What a step can do to the tasks, whoever takes it: the case split the   *)
(* other invariants are proved along.                                      *)
(***************************************************************************)
ActivateEffect ==
  \E id \in Tasks : Activable(id) /\ Activate(id) /\ running' = running
SetEventEffect ==
  \E id \in Tasks, mask \in Masks : SetEventBits(id, mask) /\ running' = running
GiveWayEffect ==
  /\ \E t \in Tasks : running = t /\ GiveWay(t)
  /\ UNCHANGED <<activations, actualPriority, events, eventsWait, resources, ready>>
TerminateEffect ==
  \E t \in Tasks : TerminateTask(t) /\ resources[t] = {}
WaitEffect ==
  \E t \in Tasks : \E mask \in Masks : /\ WaitEvent(t, mask)
                                       /\ t \in Extended /\ resources[t] = {}
GetResourceEffect ==
  \E t \in Tasks : \E r \in ResourcesMask[t] \ resources[t] : GetResource(t, r)
ReleaseResourceEffect ==
  \E t \in Tasks : \E r \in resources[t] : ReleaseResource(t, r)
ClearEventEffect ==
  \E t \in Extended : \E mask \in Masks : ClearEvent(t, mask)
NoEffect ==
  UNCHANGED <<state, activations, actualPriority, events, eventsWait, resources, ready, running>>

Effect ==
  \/ ActivateEffect \/ SetEventEffect \/ GiveWayEffect \/ Dispatch
  \/ TerminateEffect \/ WaitEffect \/ GetResourceEffect \/ ReleaseResourceEffect
  \/ ClearEventEffect \/ NoEffect

LEMMA StepEffects ==
  ASSUME KernelInv, [Next]_vars
  PROVE  Effect
<1> SUFFICES ASSUME ~NoEffect PROVE Effect
  BY DEF Effect
<1>1. /\ \A t \in Tasks : \A status : ~ErrorHook(t, status)
      /\ \A status : ~ErrorHookOutsideTasks(status) /\ ~IsrError(status)
  BY DEF ErrorHook, ErrorHookOutsideTasks, IsrError, NoEffect, taskVars, cpuVars
<1>2. Next
  BY DEF NoEffect, vars, taskVars, cpuVars
<1>3. ASSUME NEW t \in Tasks, Service(t) PROVE Effect
  <2>1. ASSUME NEW id \in 0 .. TASKS_COUNT, ActivateTask(t, id) PROVE ActivateEffect
    BY <1>1, <2>1 DEF ActivateTask, ActivateEffect, cpuVars
  <2>2. ASSUME TerminateTask(t) PROVE TerminateEffect
    BY <1>1, <2>2 DEF TerminateTask, TerminateEffect
  <2>3. ASSUME Schedule(t) PROVE GiveWayEffect
    BY <1>1, <2>3 DEF Schedule, ScheduleFrom, At, GiveWayEffect
  <2>4. ASSUME NEW r \in 0 .. RESOURCES_COUNT, GetResource(t, r) PROVE GetResourceEffect
    BY <1>1, <2>4 DEF GetResource, GetResourceEffect
  <2>5. ASSUME NEW r \in 0 .. RESOURCES_COUNT, ReleaseResource(t, r) PROVE ReleaseResourceEffect
    BY <1>1, <2>5 DEF ReleaseResource, ReleaseResourceEffect
  <2>6. ASSUME NEW id \in 0 .. TASKS_COUNT, NEW mask \in Masks \ {{}}, SetEvent(t, id, mask)
        PROVE  FALSE
    BY <1>1, <2>6 DEF SetEvent, NoEffect, taskVars, cpuVars
  <2>7. ASSUME NEW mask \in Masks \ {{}}, WaitEvent(t, mask) PROVE WaitEffect
    BY <1>1, <2>7 DEF WaitEvent, WaitEffect
  <2>8. ASSUME NEW mask \in Masks \ {{}}, ClearEvent(t, mask) PROVE ClearEventEffect
    BY <1>1, <2>8 DEF ClearEvent, ClearEventEffect
  <2> QED
    BY <1>3, <2>1, <2>2, <2>3, <2>4, <2>5, <2>6, <2>7, <2>8 DEF Service, Effect
<1>4. ASSUME NEW t \in Tasks, ServiceEnd(t) PROVE Effect
  <2>1. ~SetSysContext(t) /\ ~RestoreTaskContext(t)
    BY DEF SetSysContext, RestoreTaskContext, NoEffect, taskVars
  <2>2. ASSUME ActivateTaskSchedule(t) PROVE GiveWayEffect
    BY <2>2 DEF ActivateTaskSchedule, ScheduleFrom, At, GiveWayEffect
  <2>3. ASSUME Reschedule(t) PROVE GiveWayEffect
    BY <1>1, <2>3 DEF Reschedule, ScheduleFrom, At, GiveWayEffect
  <2>4. ASSUME SetEventSet(t) PROVE SetEventEffect
    <3>1. setArg[t][1] \in Tasks /\ setArg[t][2] \in Masks
      BY DEF KernelInv, TypeOK
    <3> QED
      BY <2>4, <3>1 DEF SetEventSet, SetEventEffect, cpuVars
  <2> QED
    BY <1>4, <2>1, <2>2, <2>3, <2>4 DEF ServiceEnd, Effect
<1>5. ASSUME Isr PROVE Effect
  <2>1. ~IsrNoCall
    BY DEF IsrNoCall, NoEffect, taskVars
  <2>2. ASSUME NEW id \in IsrActivates, IsrActivateTask(id) PROVE ActivateEffect
    BY <1>1, <2>2 DEF IsrActivateTask, ActivateEffect, KernelAssumption
  <2>3. ASSUME NEW id \in IsrSetsEvents, NEW mask \in Masks \ {{}}, IsrSetEvent(id, mask)
        PROVE  SetEventEffect
    BY <1>1, <2>3 DEF IsrSetEvent, SetEventEffect, KernelAssumption
  <2> QED
    BY <1>5, <2>1, <2>2, <2>3 DEF Isr, Effect
<1>6. ASSUME PostIsr2 PROVE GiveWayEffect
  BY <1>6 DEF PostIsr2, GiveWayEffect
<1>7. ASSUME StartOS PROVE ActivateEffect
  <2> DEFINE t == AutoStart[boot + 1]
  <2>1. /\ boot + 1 \in 1 .. Len(AutoStart) /\ AutoStart \in Seq(Tasks)
    BY <1>7, LenProperties DEF StartOS, KernelInv, TypeOK, KernelAssumption
  <2>2. t \in Tasks
    BY <2>1, ElementOfSeq
  <2>3. Activable(t) /\ Activate(t) /\ running' = running
    BY <1>1, <1>7 DEF StartOS, cpuVars
  <2> HIDE DEF t
  <2> QED
    BY <2>2, <2>3 DEF ActivateEffect
<1>8. ~IdleEnableInterrupts /\ ~OsekPause /\ ~ShutdownOS
  BY DEF IdleEnableInterrupts, OsekPause, ShutdownOS, NoEffect, vars, taskVars, cpuVars
<1> QED
  BY <1>2, <1>3, <1>4, <1>5, <1>6, <1>7, <1>8 DEF Next, Effect

\* Between an ISR's SetEvent and the application's ClearEvent and WaitEvent no
\* wakeup is lost: WaitEvent checks and waits, and SetEvent sets and wakes, in
\* one critical section each.
THEOREM NoWakeupIsLost == Spec => []NoLostWakeup
<1>1. Init => NoLostWakeup
  BY DEF Init, NoLostWakeup
<1>2. KernelInv /\ NoLostWakeup /\ [Next]_vars => NoLostWakeup'
  <2> SUFFICES ASSUME KernelInv, NoLostWakeup, [Next]_vars, NEW u \in Tasks,
                      state'[u] = "WAITING"
               PROVE  events'[u] \cap eventsWait'[u] = {}
    BY DEF NoLostWakeup
  <2>0. /\ state \in [Tasks -> States] /\ events \in [Tasks -> Masks]
        /\ eventsWait \in [Tasks -> Masks]
        /\ state[u] = "WAITING" => events[u] \cap eventsWait[u] = {}
    BY DEF KernelInv, TypeOK, NoLostWakeup
  <2>1. CASE ActivateEffect
    BY <2>0, <2>1 DEF ActivateEffect, Activate
  <2>2. CASE SetEventEffect
    <3>1. PICK id \in Tasks, mask \in Masks : SetEventBits(id, mask)
      BY <2>2 DEF SetEventEffect
    <3>2. CASE WakesUp(id, mask)
      <4>1. state' = [state EXCEPT ![id] = "READY"] /\ eventsWait' = eventsWait
        BY <3>1, <3>2 DEF SetEventBits
      <4>2. u # id /\ state[u] = "WAITING"
        BY <4>1, <2>0
      <4>3. events'[u] = events[u]
        BY <3>1, <4>2, <2>0 DEF SetEventBits
      <4> QED
        BY <4>1, <4>2, <4>3, <2>0
    <3>3. CASE ~WakesUp(id, mask)
      <4>1. state' = state /\ eventsWait' = eventsWait
        BY <3>1, <3>3 DEF SetEventBits
      <4>2. CASE u = id
        <5>1. events'[u] = EventsAfter(id, mask)
          BY <3>1, <4>1, <4>2, <2>0 DEF SetEventBits
        <5> QED
          BY <5>1, <3>3, <4>1, <4>2 DEF WakesUp
      <4>3. CASE u # id
        BY <3>1, <4>1, <4>3, <2>0 DEF SetEventBits
      <4> QED
        BY <4>2, <4>3
    <3> QED
      BY <3>2, <3>3
  <2>3. CASE GiveWayEffect
    BY <2>0, <2>3 DEF GiveWayEffect, GiveWay
  <2>4. CASE Dispatch
    BY <2>0, <2>4 DEF Dispatch
  <2>5. CASE TerminateEffect
    BY <2>0, <2>5 DEF TerminateEffect, TerminateTask
  <2>6. CASE WaitEffect
    <3>1. PICK t \in Tasks, mask \in Masks :
            /\ mask \cap events[t] = {}
            /\ state' = [state EXCEPT ![t] = "WAITING"]
            /\ eventsWait' = [eventsWait EXCEPT ![t] = mask]
            /\ UNCHANGED events
      BY <2>6 DEF WaitEffect, WaitEvent
    <3>2. CASE u = t
      BY <3>1, <3>2, <2>0
    <3>3. CASE u # t
      BY <3>1, <3>3, <2>0
    <3> QED
      BY <3>2, <3>3
  <2>7. CASE GetResourceEffect
    BY <2>0, <2>7 DEF GetResourceEffect, GetResource
  <2>8. CASE ReleaseResourceEffect
    BY <2>0, <2>8 DEF ReleaseResourceEffect, ReleaseResource
  <2>9. CASE ClearEventEffect
    <3>1. PICK t \in Extended, mask \in Masks :
            /\ events' = [events EXCEPT ![t] = @ \ (mask \cap EventsMask[t])]
            /\ UNCHANGED <<state, eventsWait>>
      BY <2>9 DEF ClearEventEffect, ClearEvent
    <3>2. events'[u] \subseteq events[u]
      BY <3>1, <2>0
    <3> QED
      BY <3>1, <3>2, <2>0
  <2>10. CASE NoEffect
    BY <2>0, <2>10 DEF NoEffect
  <2> QED
    BY <2>1, <2>2, <2>3, <2>4, <2>5, <2>6, <2>7, <2>8, <2>9, <2>10, StepEffects DEF Effect
<1> QED
  BY <1>1, <1>2, KernelInvariant, PTL DEF Spec

(***************************************************************************)
(* A task that is not preemptable stops inside a service only where no     *)
(* reschedule follows, and no ISR posts one while it runs.                 *)
(***************************************************************************)
NoRescheduleFollows == {"app", "setevent", "shutdown"}

NonPreemtiveInv ==
  \A t \in Tasks \ Preemtive :
     /\ pc[t] \in NoRescheduleFollows
     /\ postIsr => running # t

\* A step of task t, after which it stands at place.
LEMMA NonPreemtiveGoto ==
  ASSUME TypeOK, NonPreemtiveInv, NEW t \in Tasks, NEW place, Goto(t, place), postIsr' = postIsr,
         t \in Preemtive \/ place \in NoRescheduleFollows,
         ~postIsr \/ running' = running
  PROVE  NonPreemtiveInv'
BY DEF TypeOK, NonPreemtiveInv, Goto

\* A step that stays where it is in the code.
LEMMA NonPreemtiveQuiet ==
  ASSUME NonPreemtiveInv, pc' = pc,
         postIsr' => \/ postIsr /\ running' = running
                     \/ running' \in Preemtive
  PROVE  NonPreemtiveInv'
BY DEF NonPreemtiveInv

LEMMA NonPreemtiveError ==
  ASSUME TypeOK, NonPreemtiveInv, NEW t \in Tasks, NEW status, ErrorHook(t, status)
  PROVE  NonPreemtiveInv'
<1> DEFINE place == IF ErrorHookRunning THEN "app" ELSE "shutdown"
<1>1. Goto(t, place) /\ postIsr' = postIsr /\ running' = running
  BY DEF ErrorHook, Goto, cpuVars
<1>2. place \in NoRescheduleFollows
  BY DEF NoRescheduleFollows
<1> HIDE DEF place
<1> QED
  BY <1>1, <1>2, NonPreemtiveGoto

LEMMA NonPreemtiveService ==
  ASSUME KernelInv, NonPreemtiveInv, NEW t \in Tasks, Service(t)
  PROVE  NonPreemtiveInv'
<1>0. TypeOK /\ {"app", "setevent", "shutdown"} = NoRescheduleFollows
  BY DEF KernelInv, NoRescheduleFollows
<1>1. SUFFICES ASSUME \A status : ~ErrorHook(t, status) PROVE NonPreemtiveInv'
  BY <1>0, NonPreemtiveError
<1>2. ASSUME NEW id \in 0 .. TASKS_COUNT, ActivateTask(t, id) PROVE NonPreemtiveInv'
  <2>1. ThenIfPreemtive(t, "activated") /\ postIsr' = postIsr /\ running' = running
    BY <1>1, <1>2 DEF ActivateTask, cpuVars
  <2> QED
    BY <2>1, <1>0, NonPreemtiveGoto DEF ThenIfPreemtive
<1>3. ASSUME TerminateTask(t) PROVE NonPreemtiveInv'
  BY <1>1, <1>3, NonPreemtiveQuiet DEF TerminateTask, At, codeVars
<1>4. ASSUME Schedule(t) PROVE NonPreemtiveInv'
  BY <1>1, <1>4, NonPreemtiveQuiet DEF Schedule, ScheduleFrom, At
<1>5. ASSUME NEW r \in 0 .. RESOURCES_COUNT, GetResource(t, r) PROVE NonPreemtiveInv'
  BY <1>1, <1>5, NonPreemtiveQuiet DEF GetResource, At, codeVars
<1>6. ASSUME NEW r \in 0 .. RESOURCES_COUNT, ReleaseResource(t, r) PROVE NonPreemtiveInv'
  <2>1. ThenIfPreemtive(t, "released") /\ postIsr' = postIsr /\ running' = running
    BY <1>1, <1>6 DEF ReleaseResource, cpuVars
  <2> QED
    BY <2>1, <1>0, NonPreemtiveGoto DEF ThenIfPreemtive
<1>7. ASSUME NEW id \in 0 .. TASKS_COUNT, NEW mask \in Masks \ {{}}, SetEvent(t, id, mask)
      PROVE  NonPreemtiveInv'
  <2>1. Goto(t, "setevent") /\ postIsr' = postIsr /\ running' = running
    BY <1>1, <1>7 DEF SetEvent, cpuVars
  <2> QED
    BY <2>1, <1>0, NonPreemtiveGoto
<1>8. ASSUME NEW mask \in Masks \ {{}}, WaitEvent(t, mask) PROVE NonPreemtiveInv'
  BY <1>1, <1>8, NonPreemtiveQuiet DEF WaitEvent, At, codeVars
<1>9. ASSUME NEW mask \in Masks \ {{}}, ClearEvent(t, mask) PROVE NonPreemtiveInv'
  BY <1>1, <1>9, NonPreemtiveQuiet DEF ClearEvent, At, codeVars
<1> QED
  BY <1>2, <1>3, <1>4, <1>5, <1>6, <1>7, <1>8, <1>9 DEF Service

LEMMA NonPreemtiveServiceEnd ==
  ASSUME KernelInv, NonPreemtiveInv, NEW t \in Tasks, ServiceEnd(t)
  PROVE  NonPreemtiveInv'
<1>0. TypeOK /\ {"app", "setevent", "shutdown"} = NoRescheduleFollows
  BY DEF KernelInv, NoRescheduleFollows
<1>1. t \in Preemtive \/ pc[t] \in NoRescheduleFollows
  BY DEF NonPreemtiveInv
<1>2. CASE SetSysContext(t)
  BY <1>0, <1>1, <1>2, NonPreemtiveGoto DEF SetSysContext, At, NoRescheduleFollows
<1>3. CASE ActivateTaskSchedule(t)
  BY <1>0, <1>1, <1>3, NonPreemtiveGoto DEF ActivateTaskSchedule, ScheduleFrom, At, NoRescheduleFollows
<1>4. CASE RestoreTaskContext(t)
  BY <1>0, <1>4, NonPreemtiveGoto DEF RestoreTaskContext
<1>5. CASE Reschedule(t)
  <2>1. CASE ScheduleFrom(t) /\ Goto(t, "app")
    BY <1>0, <1>5, <2>1, NonPreemtiveGoto DEF Reschedule, ScheduleFrom, At
  <2> QED
    BY <1>0, <1>5, <2>1, NonPreemtiveError DEF Reschedule
<1>6. CASE SetEventSet(t)
  <2> DEFINE place == IF WakesUp(setArg[t][1], setArg[t][2])
                        THEN IF t \in Preemtive THEN "eventset" ELSE "app" ELSE "app"
  <2>1. Goto(t, place) /\ postIsr' = postIsr /\ running' = running
    BY <1>6 DEF SetEventSet, ThenIfPreemtive, cpuVars
  <2>2. t \in Preemtive \/ place \in NoRescheduleFollows
    BY <1>0
  <2> HIDE DEF place
  <2> QED
    BY <1>0, <2>1, <2>2, NonPreemtiveGoto
<1> QED
  BY <1>2, <1>3, <1>4, <1>5, <1>6 DEF ServiceEnd

LEMMA NonPreemtiveIsr ==
  ASSUME NonPreemtiveInv, Isr
  PROVE  NonPreemtiveInv'
<1>1. CASE IsrEnd /\ pc' = pc /\ running' = running
  BY <1>1, NonPreemtiveQuiet DEF IsrEnd
<1>2. CASE \E status : ErrorHookOutsideTasks(status)
  BY <1>2, NonPreemtiveQuiet DEF ErrorHookOutsideTasks, codeVars, cpuVars
<1> QED
  BY <1>1, <1>2 DEF Isr, IsrNoCall, IsrActivateTask, IsrSetEvent, IsrError

LEMMA NonPreemtiveStep ==
  ASSUME KernelInv, NonPreemtiveInv, [Next]_vars
  PROVE  NonPreemtiveInv'
<1>1. CASE UNCHANGED vars \/ ShutdownOS
  BY <1>1, NonPreemtiveQuiet DEF ShutdownOS, vars, codeVars, cpuVars
<1>2. CASE PostIsr2
  BY <1>2, NonPreemtiveQuiet DEF PostIsr2
<1>3. CASE StartOS
  BY <1>3, NonPreemtiveQuiet DEF StartOS, ErrorHookOutsideTasks, codeVars, cpuVars
<1>4. CASE Dispatch
  <2>1. ~postIsr
    BY <1>4, TasksFacts DEF Dispatch, NoTask, KernelInv, ContextInv
  <2> QED
    BY <1>4, <2>1, NonPreemtiveQuiet DEF Dispatch, codeVars
<1>5. CASE IdleEnableInterrupts \/ OsekPause
  BY <1>5, NonPreemtiveQuiet DEF IdleEnableInterrupts, OsekPause, codeVars
<1> QED
  BY <1>1, <1>2, <1>3, <1>4, <1>5, NonPreemtiveService, NonPreemtiveServiceEnd, NonPreemtiveIsr
     DEF Next

\* Neither the end of an ISR nor a service that readies another task takes the
\* CPU from a task that is not preemptable: it loses it only to a call of its
\* own to Schedule, TerminateTask or WaitEvent.
THEOREM NonPreemtivesKeepCpu == Spec => NonPreemtiveKeepsCpu
<1> DEFINE Keeps == (running \in Tasks \ Preemtive /\ running' # running) =>
                       (pc[running] = "app" /\ ~postIsr)
<1>1. Init => NonPreemtiveInv
  BY DEF Init, NonPreemtiveInv, NoRescheduleFollows
<1>2. KernelInv /\ NonPreemtiveInv /\ [Next]_vars => NonPreemtiveInv'
  BY NonPreemtiveStep
<1>3. KernelInv /\ NonPreemtiveInv /\ [Next]_vars => Keeps
  <2> SUFFICES ASSUME KernelInv, NonPreemtiveInv, [Next]_vars,
                      running \in Tasks \ Preemtive, running' # running
               PROVE  pc[running] = "app" /\ ~postIsr
    OBVIOUS
  <2>1. pc[running] \in NoRescheduleFollows /\ ~postIsr
    BY DEF NonPreemtiveInv
  <2>2. ~PostIsr2 /\ ~Dispatch
    BY <2>1, TasksFacts DEF PostIsr2, Dispatch, NoTask
  <2>3. /\ ~Isr /\ ~StartOS /\ ~ShutdownOS /\ ~IdleEnableInterrupts /\ ~OsekPause
        /\ ~UNCHANGED vars
    <3>1. ~Isr
      BY DEF Isr, IsrNoCall, IsrActivateTask, IsrSetEvent, IsrError, ErrorHookOutsideTasks, cpuVars
    <3>2. ~StartOS
      BY DEF StartOS, ErrorHookOutsideTasks, cpuVars
    <3> QED
      BY <3>1, <3>2 DEF ShutdownOS, IdleEnableInterrupts, OsekPause, vars, cpuVars
  <2>4. PICK t \in Tasks : Service(t) \/ ServiceEnd(t)
    BY <2>2, <2>3 DEF Next
  <2>5. CASE Service(t)
    BY <2>1, <2>5 DEF Service, ActivateTask, TerminateTask, Schedule, GetResource, ReleaseResource,
                      SetEvent, WaitEvent, ClearEvent, At
  <2>6. CASE ServiceEnd(t)
    <3>1. running = t /\ running' # t
      BY <2>6 DEF ServiceEnd, SetSysContext, ActivateTaskSchedule, RestoreTaskContext, Reschedule,
                  SetEventSet, At
    <3>2. ~SetSysContext(t) /\ ~RestoreTaskContext(t) /\ ~SetEventSet(t)
      BY <3>1 DEF SetSysContext, RestoreTaskContext, SetEventSet, cpuVars
    <3>3. ~ActivateTaskSchedule(t) /\ ~Reschedule(t)
      BY <2>1, <3>1 DEF ActivateTaskSchedule, Reschedule, At, NoRescheduleFollows
    <3> QED
      BY <2>6, <3>2, <3>3 DEF ServiceEnd
  <2> QED
    BY <2>4, <2>5, <2>6
<1> QED
  BY <1>1, <1>2, <1>3, KernelInvariant, PTL DEF Spec, NonPreemtiveKeepsCpu
=============================================================================
