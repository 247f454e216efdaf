------------------------ MODULE KernelCeilingProofs ------------------------
(***************************************************************************)
(* The immediate priority ceiling protocol as the scheduler implements it, *)
(* for every configuration in which a task that takes resources has one    *)
(* activation.  (With two, AddReady lowers the priority of a task that     *)
(* holds a resource, and a second task may take it as well.)               *)
(***************************************************************************)
EXTENDS KernelProofs, WellFoundedInduction

USE KernelAssumption

(***************************************************************************)
(* A task that has been activated runs at its static priority or above it. *)
(***************************************************************************)
AtLeastStatic ==
  \A t \in Tasks : activations[t] # 0 => actualPriority[t] >= StaticPriority[t]

(***************************************************************************)
(* With one activation per user of resources: a task runs at its static    *)
(* priority until it takes a resource, and at the ceilings of those it     *)
(* holds; the running task outranks every other holder; and of two holders *)
(* one was able to preempt the other.                                      *)
(***************************************************************************)
UsersActivateOnce == \A t \in Tasks : ResourcesMask[t] # {} => MaxActivations[t] = 1

OnlyOwnResources == \A t \in Tasks : resources[t] \subseteq ResourcesMask[t]

StaticWithoutResources ==
  \A t \in Tasks : activations[t] # 0 /\ resources[t] = {} =>
     actualPriority[t] = StaticPriority[t]

AtCeiling == \A t \in Tasks : \A r \in resources[t] : actualPriority[t] >= ResourcesPriority[r]

Outranks(t, u) == StaticPriority[t] > actualPriority[u]

RunningOutranksHolders ==
  \A t \in Tasks : (running \in Tasks \ {t} /\ resources[t] # {}) => Outranks(running, t)

HoldersRanked ==
  \A t, u \in Tasks : (t # u /\ resources[t] # {} /\ resources[u] # {}) =>
     Outranks(t, u) \/ Outranks(u, t)

CeilingInv ==
  /\ OnlyOwnResources
  /\ StaticWithoutResources
  /\ AtCeiling
  /\ RunningOutranksHolders
  /\ HoldersRanked

(***************************************************************************)
(* Consequences of the invariants                                          *)
(***************************************************************************)
LEMMA CeilingsFacts ==
  /\ ResourcesPriority \in [Resources -> Nat]
  /\ \A t \in Tasks : /\ ResourcesMask[t] \subseteq Resources
                       /\ \A r \in ResourcesMask[t] : StaticPriority[t] <= ResourcesPriority[r]
<1>1. ResourcesPriority \in [Resources -> Priorities] /\ Priorities \subseteq Nat
  BY TasksFacts DEF KernelAssumption
<1> QED
  BY <1>1 DEF KernelAssumption

LEMMA PriorityType ==
  ASSUME TypeOK, NEW t \in Tasks
  PROVE  actualPriority[t] \in Nat /\ StaticPriority[t] \in Nat
BY TasksFacts DEF TypeOK

\* A holder is the head of its list and so has an activation.
LEMMA HeadIsActivated ==
  ASSUME KernelInv, NEW t \in Tasks, HoldsHead(t)
  PROVE  activations[t] # 0
<1>1. Entries(t) >= 1
  BY HeadHasEntry DEF KernelInv
<1>2. Entries(t) = IF state[t] = "WAITING" THEN 0 ELSE activations[t]
  BY DEF KernelInv, QueueInv, EntriesMatchActivations
<1> QED
  BY <1>1, <1>2

\* GetNextTask chooses a task that outranks every other holder.
LEMMA NextOutranksHolders ==
  ASSUME KernelInv, AtLeastStatic, CeilingInv, NEW next \in Tasks, GetNextTask(next),
         NEW h \in Tasks \ {next}, resources[h] # {}
  PROVE  Outranks(next, h)
<1>1. HoldsHead(next) /\ HoldsHead(h)
  BY NextTaskIsHead DEF KernelInv, QueueInv, HoldersAreHeads
<1>2. /\ actualPriority[next] \in Nat /\ StaticPriority[next] \in Nat
      /\ actualPriority[h] \in Nat /\ StaticPriority[h] \in Nat
  BY PriorityType DEF KernelInv
<1>3. activations[next] # 0 /\ activations[h] # 0
  BY <1>1, HeadIsActivated
<1>4. /\ actualPriority[next] >= StaticPriority[next]
      /\ actualPriority[h] >= StaticPriority[h]
  BY <1>3 DEF AtLeastStatic
<1>5. CASE resources[next] = {}
  <2>1. actualPriority[next] = StaticPriority[next]
    BY <1>3, <1>5 DEF CeilingInv, StaticWithoutResources
  <2>2. ~IsResTask(next)
    BY <1>5 DEF IsResTask, HoldsResource
  <2>3. IsReadyHead(next) /\ (HoldsResource(h) => actualPriority[h] < actualPriority[next])
    BY <2>2, TasksFacts DEF GetNextTask
  <2>4. CASE actualPriority[h] > 0
    BY <2>1, <2>3, <2>4 DEF HoldsResource, Outranks
  <2>5. CASE actualPriority[h] = 0
    <3>1. StaticPriority[h] = 0
      BY <2>5, <1>2, <1>4
    <3>2. StaticPriority[next] # 0
      BY <3>1, <1>1 DEF HoldsHead
    <3> QED
      BY <3>2, <2>5, <1>2 DEF Outranks
  <2> QED
    BY <2>4, <2>5, <1>2
<1>6. CASE resources[next] # {}
  <2>1. Outranks(next, h) \/ Outranks(h, next)
    BY <1>6 DEF CeilingInv, HoldersRanked
  <2> SUFFICES ASSUME Outranks(h, next) PROVE FALSE
    BY <2>1
  <2>2. actualPriority[h] > actualPriority[next] /\ actualPriority[h] > 0
        /\ StaticPriority[h] > StaticPriority[next]
    BY <1>2, <1>4 DEF Outranks
  <2>3. HoldsResource(h)
    BY <2>2 DEF HoldsResource
  <2>4. CASE IsResTask(next)
    BY SMTT(20), <2>2, <2>3, <2>4, <1>2 DEF IsResTask
  <2>5. CASE IsReadyHead(next) /\ \A t \in Tasks : HoldsResource(t) => actualPriority[t] < actualPriority[next]
    BY <2>2, <2>3, <2>5, <1>2
  <2> QED
    BY <2>4, <2>5, TasksFacts DEF GetNextTask
<1> QED
  BY <1>5, <1>6

(***************************************************************************)
(* AtLeastStatic is kept                                                   *)
(***************************************************************************)
LEMMA AtLeastStaticStep ==
  ASSUME KernelInv, AtLeastStatic, [Next]_vars
  PROVE  AtLeastStatic'
<1> SUFFICES ASSUME NEW u \in Tasks, activations'[u] # 0
             PROVE  actualPriority'[u] >= StaticPriority[u]
  BY DEF AtLeastStatic
<1>0. /\ activations \in [Tasks -> Nat] /\ actualPriority \in [Tasks -> Priorities]
      /\ actualPriority[u] \in Nat /\ StaticPriority[u] \in Nat
      /\ activations[u] # 0 => actualPriority[u] >= StaticPriority[u]
  BY PriorityType DEF KernelInv, TypeOK, AtLeastStatic
<1>1. CASE ActivateEffect
  BY <1>0, <1>1 DEF ActivateEffect, Activate, AddReady
<1>2. CASE SetEventEffect
  <2>1. /\ activations' = activations
        /\ actualPriority'[u] \in {actualPriority[u], StaticPriority[u]}
    BY <1>0, <1>2 DEF SetEventEffect, SetEventBits, AddReady
  <2> QED
    BY <2>1, <1>0
<1>3. CASE GiveWayEffect
  BY <1>0, <1>3 DEF GiveWayEffect
<1>4. CASE Dispatch
  BY <1>0, <1>4 DEF Dispatch
<1>5. CASE TerminateEffect
  <2>1. PICK t \in Tasks : TerminateTask(t) /\ resources[t] = {}
    BY <1>5 DEF TerminateEffect
  <2>2. activations' = [activations EXCEPT ![t] = @ - 1] /\ actualPriority' = actualPriority
        /\ HoldsHead(t)
    BY <2>1 DEF TerminateTask, At, KernelInv, QueueInv, RunningIsHead
  <2>3. activations[t] # 0
    BY <2>2, HeadIsActivated
  <2>4. activations[u] # 0
    BY <2>2, <2>3, <1>0
  <2> QED
    BY <2>2, <2>4, <1>0
<1>6. CASE WaitEffect
  BY <1>0, <1>6 DEF WaitEffect, WaitEvent
<1>7. CASE GetResourceEffect
  <2>0. PICK t \in Tasks : \E r \in ResourcesMask[t] : GetResource(t, r) /\ r \notin resources[t]
    BY <1>7 DEF GetResourceEffect
  <2>1. PICK r \in ResourcesMask[t] :
          /\ actualPriority' = [actualPriority EXCEPT ![t] =
                IF @ < ResourcesPriority[r] THEN ResourcesPriority[r] ELSE @]
          /\ activations' = activations
    BY <2>0 DEF GetResource
  <2>2. ResourcesPriority[r] \in Nat
    BY <2>1, CeilingsFacts
  <2>3. actualPriority'[u] >= actualPriority[u]
    BY <2>1, <2>2, <1>0
  <2>4. actualPriority'[u] \in Nat
    BY <2>1, <2>2, <1>0
  <2> QED
    BY <2>1, <2>3, <2>4, <1>0
<1>8. CASE ReleaseResourceEffect
  <2>1. PICK t \in Tasks, p \in Priorities :
          /\ p >= StaticPriority[t]
          /\ actualPriority' = [actualPriority EXCEPT ![t] = p]
          /\ activations' = activations
    BY <1>8 DEF ReleaseResourceEffect, ReleaseResource, IsCeiling
  <2> QED
    BY <2>1, <1>0
<1>9. CASE ClearEventEffect
  BY <1>0, <1>9, TasksFacts DEF ClearEventEffect, ClearEvent, KernelAssumption
<1>10. CASE NoEffect
  BY <1>0, <1>10 DEF NoEffect
<1> QED
  BY <1>1, <1>2, <1>3, <1>4, <1>5, <1>6, <1>7, <1>8, <1>9, <1>10, StepEffects DEF Effect

\* A task never runs below its static priority.
THEOREM NeverBelowStatic == Spec => []AtLeastStatic
<1>1. Init => AtLeastStatic
  BY TasksFacts DEF Init, AtLeastStatic
<1>2. KernelInv /\ AtLeastStatic /\ [Next]_vars => AtLeastStatic'
  BY AtLeastStaticStep
<1> QED
  BY <1>1, <1>2, KernelInvariant, PTL DEF Spec

(***************************************************************************)
(* CeilingInv is kept                                                      *)
(***************************************************************************)
CeilingVars == <<activations, actualPriority, resources, running>>

LEMMA CeilingUnchanged ==
  ASSUME CeilingInv, UNCHANGED CeilingVars
  PROVE  CeilingInv'
BY DEF CeilingVars, CeilingInv, OnlyOwnResources, StaticWithoutResources, AtCeiling,
       RunningOutranksHolders, HoldersRanked, Outranks

\* The CPU goes to a task that outranks every other holder.
LEMMA CeilingSwitch ==
  ASSUME KernelInv, AtLeastStatic, CeilingInv, NEW next \in Tasks, GetNextTask(next),
         running' = next, UNCHANGED <<activations, actualPriority, resources>>
  PROVE  CeilingInv'
<1>1. RunningOutranksHolders'
  BY NextOutranksHolders DEF RunningOutranksHolders, Outranks
<1> QED
  BY <1>1 DEF CeilingInv, OnlyOwnResources, StaticWithoutResources, AtCeiling,
              HoldersRanked, Outranks

\* AddReady concerns a task without resources only.
LEMMA CeilingAddReady ==
  ASSUME KernelInv, CeilingInv, NEW id \in Tasks, resources[id] = {},
         actualPriority' = [actualPriority EXCEPT ![id] = StaticPriority[id]],
         \A t \in Tasks \ {id} : activations'[t] = activations[t],
         UNCHANGED <<resources, running>>
  PROVE  CeilingInv'
<1>1. /\ actualPriority'[id] = StaticPriority[id]
      /\ \A t \in Tasks \ {id} : actualPriority'[t] = actualPriority[t]
  BY DEF KernelInv, TypeOK
<1> QED
  BY <1>1 DEF CeilingInv, OnlyOwnResources, StaticWithoutResources, AtCeiling,
              RunningOutranksHolders, HoldersRanked, Outranks

\* A task that leaves the CPU holds nothing.
LEMMA CeilingLeave ==
  ASSUME KernelInv, CeilingInv, running' = INVALID_TASK,
         \A t \in Tasks : activations'[t] # 0 => activations[t] # 0,
         UNCHANGED <<actualPriority, resources>>
  PROVE  CeilingInv'
BY TasksFacts DEF CeilingInv, OnlyOwnResources, StaticWithoutResources, AtCeiling,
       RunningOutranksHolders, HoldersRanked, Outranks

\* The running task, which outranks the other holders, takes or releases.
LEMMA CeilingOwnResources ==
  ASSUME KernelInv, CeilingInv, NEW t \in Tasks, running = t,
         \A u \in Tasks \ {t} : /\ resources'[u] = resources[u]
                                /\ actualPriority'[u] = actualPriority[u],
         resources'[t] \subseteq ResourcesMask[t],
         resources'[t] = {} => actualPriority'[t] = StaticPriority[t],
         \A r \in resources'[t] : actualPriority'[t] >= ResourcesPriority[r],
         UNCHANGED <<activations, running>>
  PROVE  CeilingInv'
<1>1. \A u \in Tasks \ {t} : resources'[u] # {} => Outranks(t, u)'
  BY DEF CeilingInv, RunningOutranksHolders, Outranks
<1>2. RunningOutranksHolders'
  BY <1>1 DEF RunningOutranksHolders
<1>3. HoldersRanked'
  <2> SUFFICES ASSUME NEW u \in Tasks, NEW v \in Tasks, u # v,
                      resources'[u] # {}, resources'[v] # {}
               PROVE  Outranks(u, v)' \/ Outranks(v, u)'
    BY DEF HoldersRanked
  <2>1. CASE u = t
    BY <2>1, <1>1 DEF Outranks
  <2>2. CASE v = t
    BY <2>2, <1>1 DEF Outranks
  <2>3. CASE u # t /\ v # t
    BY <2>3 DEF CeilingInv, HoldersRanked, Outranks
  <2> QED
    BY <2>1, <2>2, <2>3
<1>4. OnlyOwnResources' /\ StaticWithoutResources' /\ AtCeiling'
  BY DEF CeilingInv, OnlyOwnResources, StaticWithoutResources, AtCeiling
<1> QED
  BY <1>2, <1>3, <1>4 DEF CeilingInv

\* With one activation, a holder is neither activated nor waiting.
LEMMA HolderNotAdded ==
  ASSUME KernelInv, CeilingInv, UsersActivateOnce, NEW t \in Tasks, resources[t] # {}
  PROVE  ~Activable(t) /\ state[t] # "WAITING"
<1>1. HoldsHead(t)
  BY DEF KernelInv, QueueInv, HoldersAreHeads
<1>2. Entries(t) >= 1 /\ activations[t] # 0 /\ activations[t] \in Nat
  BY <1>1, HeadHasEntry, HeadIsActivated DEF KernelInv, TypeOK
<1>3. MaxActivations[t] = 1
  BY DEF CeilingInv, OnlyOwnResources, UsersActivateOnce
<1>4. /\ Entries(t) = IF state[t] = "WAITING" THEN 0 ELSE activations[t]
      /\ (state[t] = "SUSPENDED") <=> (activations[t] = 0)
  BY DEF KernelInv, QueueInv, EntriesMatchActivations
<1> QED
  BY <1>2, <1>3, <1>4 DEF Activable

LEMMA CeilingStep ==
  ASSUME KernelInv, AtLeastStatic, CeilingInv, UsersActivateOnce, [Next]_vars
  PROVE  CeilingInv'
<1>0. /\ activations \in [Tasks -> Nat] /\ actualPriority \in [Tasks -> Priorities]
      /\ resources \in [Tasks -> SUBSET Resources]
  BY DEF KernelInv, TypeOK
<1>1. CASE ActivateEffect
  <2>1. PICK id \in Tasks : Activable(id) /\ Activate(id) /\ running' = running
    BY <1>1 DEF ActivateEffect
  <2>2. resources[id] = {}
    BY <2>1, HolderNotAdded
  <2>3. \A t \in Tasks \ {id} : activations'[t] = activations[t]
    BY <2>1, <1>0 DEF Activate
  <2> QED
    BY <2>1, <2>2, <2>3, CeilingAddReady DEF Activate, AddReady
<1>2. CASE SetEventEffect
  <2>1. PICK id \in Tasks, mask \in Masks : SetEventBits(id, mask) /\ running' = running
    BY <1>2 DEF SetEventEffect
  <2>2. CASE WakesUp(id, mask)
    <3>1. resources[id] = {}
      BY <2>2, HolderNotAdded DEF WakesUp
    <3> QED
      BY <2>1, <2>2, <3>1, CeilingAddReady DEF SetEventBits, AddReady
  <2>3. CASE ~WakesUp(id, mask)
    BY <2>1, <2>3, CeilingUnchanged DEF SetEventBits, CeilingVars
  <2> QED
    BY <2>2, <2>3
<1>3. CASE GiveWayEffect
  <2>1. PICK next \in Tasks : GetNextTask(next) /\ running' \in {next, running}
    BY <1>3 DEF GiveWayEffect, GiveWay
  <2>2. UNCHANGED <<activations, actualPriority, resources>>
    BY <1>3 DEF GiveWayEffect
  <2> QED
    BY <2>1, <2>2, CeilingSwitch, CeilingUnchanged DEF CeilingVars
<1>4. CASE Dispatch
  BY <1>4, CeilingSwitch DEF Dispatch
<1>5. CASE TerminateEffect
  <2>1. PICK t \in Tasks : TerminateTask(t) /\ resources[t] = {}
    BY <1>5 DEF TerminateEffect
  <2>2. /\ activations' = [activations EXCEPT ![t] = @ - 1] /\ running' = INVALID_TASK
        /\ UNCHANGED <<actualPriority, resources>> /\ HoldsHead(t)
    BY <2>1 DEF TerminateTask, At, LeaveCpu, KernelInv, QueueInv, RunningIsHead
  <2>3. activations[t] # 0
    BY <2>2, HeadIsActivated
  <2>4. \A u \in Tasks : activations'[u] # 0 => activations[u] # 0
    BY <2>2, <2>3, <1>0
  <2> QED
    BY <2>2, <2>4, CeilingLeave
<1>6. CASE WaitEffect
  <2>1. UNCHANGED <<activations, actualPriority, resources>> /\ running' = INVALID_TASK
    BY <1>6 DEF WaitEffect, WaitEvent, LeaveCpu
  <2> QED
    BY <2>1, CeilingLeave
<1>7. CASE GetResourceEffect
  <2>0. PICK t \in Tasks : \E r \in ResourcesMask[t] : GetResource(t, r) /\ r \notin resources[t]
    BY <1>7 DEF GetResourceEffect
  <2>1. PICK r \in ResourcesMask[t] :
          /\ running = t
          /\ actualPriority' = [actualPriority EXCEPT ![t] =
                IF @ < ResourcesPriority[r] THEN ResourcesPriority[r] ELSE @]
          /\ resources' = [resources EXCEPT ![t] = @ \cup {r}]
          /\ UNCHANGED <<activations, running>>
    BY <2>0 DEF GetResource, At, cpuVars
  <2>2. ResourcesPriority \in [Resources -> Nat] /\ ResourcesMask[t] \subseteq Resources
    BY CeilingsFacts
  <2>3. /\ resources'[t] = resources[t] \cup {r} /\ resources[t] \subseteq ResourcesMask[t]
        /\ \A q \in resources[t] : actualPriority[t] >= ResourcesPriority[q]
    BY <2>1, <1>0 DEF CeilingInv, OnlyOwnResources, AtCeiling
  <2>4. /\ actualPriority'[t] >= actualPriority[t] /\ actualPriority'[t] >= ResourcesPriority[r]
        /\ actualPriority[t] \in Nat /\ actualPriority'[t] \in Nat
    <3>1. actualPriority[t] \in Nat /\ ResourcesPriority[r] \in Nat
      BY <2>2, PriorityType DEF KernelInv
    <3> QED
      BY <2>1, <3>1, <1>0
  <2>5. \A q \in resources'[t] : actualPriority'[t] >= ResourcesPriority[q]
    BY <2>2, <2>3, <2>4
  <2>6. \A u \in Tasks \ {t} : /\ resources'[u] = resources[u]
                               /\ actualPriority'[u] = actualPriority[u]
    BY <2>1, <1>0
  <2> QED
    BY <2>1, <2>3, <2>5, <2>6, CeilingOwnResources
<1>8. CASE ReleaseResourceEffect
  <2>0. PICK t \in Tasks : \E r \in resources[t] : ReleaseResource(t, r)
    BY <1>8 DEF ReleaseResourceEffect
  <2>1. PICK r \in resources[t] : ReleaseResource(t, r)
    BY <2>0
  <2>2. PICK p \in Priorities : /\ IsCeiling(t, resources[t] \ {r}, p)
                                /\ actualPriority' = [actualPriority EXCEPT ![t] = p]
    BY <2>1 DEF ReleaseResource
  <2>3. /\ resources' = [resources EXCEPT ![t] = @ \ {r}] /\ running = t
        /\ UNCHANGED <<activations, running>>
    BY <2>1 DEF ReleaseResource, At, cpuVars
  <2>4. resources'[t] = resources[t] \ {r} /\ actualPriority'[t] = p
    BY <2>2, <2>3, <1>0
  <2>5. resources'[t] \subseteq ResourcesMask[t]
    BY <2>4 DEF CeilingInv, OnlyOwnResources
  <2>6. /\ resources'[t] = {} => actualPriority'[t] = StaticPriority[t]
        /\ \A q \in resources'[t] : actualPriority'[t] >= ResourcesPriority[q]
    BY <2>2, <2>4 DEF IsCeiling
  <2>7. \A u \in Tasks \ {t} : /\ resources'[u] = resources[u]
                               /\ actualPriority'[u] = actualPriority[u]
    BY <2>2, <2>3, <1>0
  <2> QED
    BY <2>3, <2>5, <2>6, <2>7, CeilingOwnResources
<1>9. CASE ClearEventEffect
  BY <1>9, CeilingUnchanged DEF ClearEventEffect, ClearEvent, CeilingVars, cpuVars
<1>10. CASE NoEffect
  BY <1>10, CeilingUnchanged DEF NoEffect, CeilingVars
<1> QED
  BY <1>1, <1>2, <1>3, <1>4, <1>5, <1>6, <1>7, <1>8, <1>9, <1>10, StepEffects DEF Effect

LEMMA CeilingInvariant ==
  ASSUME UsersActivateOnce
  PROVE  Spec => []CeilingInv
<1>1. Init => CeilingInv
  BY TasksFacts DEF Init, CeilingInv, OnlyOwnResources, StaticWithoutResources, AtCeiling,
                    RunningOutranksHolders, HoldersRanked
<1>2. KernelInv /\ AtLeastStatic /\ CeilingInv /\ [Next]_vars => CeilingInv'
  BY CeilingStep
<1> QED
  BY <1>1, <1>2, KernelInvariant, NeverBelowStatic, PTL DEF Spec

(***************************************************************************)
(* The theorems                                                            *)
(***************************************************************************)

\* GetResource never has to wait: while a task holds a resource no other task
\* that may take it runs.
THEOREM CeilingHolds ==
  ASSUME UsersActivateOnce
  PROVE  Spec => []CeilingProtects
<1>1. KernelInv /\ CeilingInv => CeilingProtects
  <2> SUFFICES ASSUME KernelInv, CeilingInv, NEW t \in Tasks, NEW r \in resources[t],
                      running \in Tasks \ {t}, r \in ResourcesMask[running]
               PROVE  FALSE
    BY DEF CeilingProtects
  <2>1. StaticPriority[running] > actualPriority[t]
    BY DEF CeilingInv, RunningOutranksHolders, Outranks
  <2>2. actualPriority[t] >= ResourcesPriority[r]
    BY DEF CeilingInv, AtCeiling
  <2>3. StaticPriority[running] <= ResourcesPriority[r]
    BY CeilingsFacts
  <2>4. /\ actualPriority[t] \in Nat /\ StaticPriority[running] \in Nat
        /\ ResourcesPriority[r] \in Nat
    BY PriorityType, CeilingsFacts DEF KernelInv, TypeOK
  <2> QED
    BY <2>1, <2>2, <2>3, <2>4
<1> QED
  BY <1>1, KernelInvariant, CeilingInvariant, PTL

\* No resource ever has two holders.
THEOREM ResourcesExclude ==
  ASSUME UsersActivateOnce
  PROVE  Spec => []ResourceExclusion
<1>1. KernelInv /\ CeilingInv => ResourceExclusion
  <2> SUFFICES ASSUME KernelInv, CeilingInv, NEW t \in Tasks, NEW u \in Tasks, t # u,
                      NEW r \in resources[t], r \in resources[u]
               PROVE  FALSE
    BY DEF ResourceExclusion
  <2>1. Outranks(t, u) \/ Outranks(u, t)
    BY DEF CeilingInv, HoldersRanked
  <2>2. /\ actualPriority[t] >= ResourcesPriority[r] /\ actualPriority[u] >= ResourcesPriority[r]
    BY DEF CeilingInv, AtCeiling
  <2>3. StaticPriority[t] <= ResourcesPriority[r] /\ StaticPriority[u] <= ResourcesPriority[r]
    BY CeilingsFacts DEF CeilingInv, OnlyOwnResources
  <2>4. /\ actualPriority[t] \in Nat /\ StaticPriority[t] \in Nat
        /\ actualPriority[u] \in Nat /\ StaticPriority[u] \in Nat
        /\ ResourcesPriority[r] \in Nat
    BY PriorityType, CeilingsFacts DEF KernelInv, TypeOK
  <2> QED
    BY <2>1, <2>2, <2>3, <2>4 DEF Outranks
<1> QED
  BY <1>1, KernelInvariant, CeilingInvariant, PTL

(***************************************************************************)
(* Who gets the CPU                                                        *)
(***************************************************************************)
LEMMA LargestNatural ==
  ASSUME NEW S, S \subseteq Nat, S # {}, NEW bound \in Nat, \A n \in S : n <= bound
  PROVE  \E m \in S : \A n \in S : n <= m
<1> DEFINE Distances == {bound - n : n \in S}
<1>1. Distances \subseteq Nat /\ Distances # {}
  <2>1. ASSUME NEW e \in Distances PROVE e \in Nat
    <3>1. PICK n \in S : e = bound - n
      OBVIOUS
    <3>2. n \in Nat /\ n <= bound
      OBVIOUS
    <3> QED
      BY <3>1, <3>2
  <2>2. PICK n \in S : TRUE
    OBVIOUS
  <2>3. bound - n \in Distances
    OBVIOUS
  <2> QED
    BY <2>1, <2>3
<1> HIDE DEF Distances
<1>2. PICK d \in Distances : \A e \in Distances : <<e, d>> \notin OpToRel(<, Nat)
  BY <1>1, WFMin, NatLessThanWellFounded, Zenon
<1>3. \A e \in Distances : ~(e < d)
  BY <1>1, <1>2, Zenon DEF OpToRel
<1>4. PICK m \in S : d = bound - m
  BY DEF Distances
<1>5. \A n \in S : bound - n \in Distances
  BY DEF Distances
<1>6. \A n \in S : ~(bound - n < bound - m)
  BY <1>3, <1>4, <1>5
<1>7. \A n \in S : n <= m
  BY <1>6
<1> QED
  BY <1>7

\* A task stands in the list of its own priority.
LEMMA HeadOfList ==
  ASSUME KernelInv, NEW q \in Priorities, ready[q] # <<>>
  PROVE  Head(ready[q]) \in Tasks /\ StaticPriority[Head(ready[q])] = q
<1> DEFINE list == ready[q]
<1>1. list \in Seq(Tasks)
  BY DEF KernelInv, TypeOK
<1>2. \A i \in DOMAIN list : StaticPriority[list[i]] = q
  BY DEF KernelInv, QueueInv, SortedByPriority
<1> HIDE DEF list
<1>3. 1 \in DOMAIN list /\ Head(list) = list[1] /\ Head(list) \in Tasks
  BY <1>1, LenProperties, EmptySeq, HeadTailProperties DEF list
<1>4. StaticPriority[Head(list)] = q
  BY <1>2, <1>3
<1> QED
  BY <1>3, <1>4 DEF list

\* The highest list that is not empty has a head.
LEMMA ReadyHeadExists ==
  ASSUME KernelInv, NEW p \in Priorities, ready[p] # <<>>
  PROVE  \E head \in Tasks : IsReadyHead(head) /\ StaticPriority[head] >= p
<1> DEFINE Full == {q \in Priorities : ready[q] # <<>>}
<1>1. /\ Full \subseteq Nat /\ Full # {} /\ READYLISTS_COUNT \in Nat
      /\ \A q \in Full : q <= READYLISTS_COUNT
  <2>1. READYLISTS_COUNT \in Nat
    BY DEF KernelAssumption
  <2>2. \A q \in Priorities : q \in Nat /\ q <= READYLISTS_COUNT
    BY <2>1 DEF Priorities
  <2> QED
    BY <2>1, <2>2
<1>2. PICK top \in Full : \A q \in Full : q <= top
  <2> HIDE DEF Full
  <2> QED
    BY <1>1, LargestNatural
<1>3. /\ top \in Priorities /\ ready[top] # <<>>
      /\ Head(ready[top]) \in Tasks /\ StaticPriority[Head(ready[top])] = top
  BY HeadOfList
<1>4. \A q \in Priorities : q > top => ready[q] = <<>>
  BY <1>2, <1>3, TasksFacts
<1>5. IsReadyHead(Head(ready[top])) /\ top >= p
  BY <1>2, <1>3, <1>4, TasksFacts DEF IsReadyHead
<1> QED
  BY <1>3, <1>5

\* The task GetNextTask chooses runs at least at the priority of every list
\* that is not empty.
LEMMA NextIsHighest ==
  ASSUME KernelInv, AtLeastStatic, NEW next \in Tasks, GetNextTask(next),
         NEW p \in Priorities, ready[p] # <<>>
  PROVE  p <= actualPriority[next]
<1>1. PICK head \in Tasks : IsReadyHead(head) /\ StaticPriority[head] >= p
  BY ReadyHeadExists
<1>2. HoldsHead(next)
  BY NextTaskIsHead DEF KernelInv
<1>3. /\ actualPriority[next] \in Nat /\ StaticPriority[next] \in Nat
      /\ actualPriority[head] \in Nat /\ StaticPriority[head] \in Nat /\ p \in Nat
  BY PriorityType, TasksFacts DEF KernelInv
<1>4. \A t \in Tasks : HoldsHead(t) => actualPriority[t] >= StaticPriority[t]
  BY HeadIsActivated DEF AtLeastStatic
<1>5. CASE IsReadyHead(next)
  <2>1. PICK q \in Priorities : /\ ready[q] # <<>> /\ next = Head(ready[q])
                                /\ \A l \in Priorities : l > q => ready[l] = <<>>
    BY <1>5 DEF IsReadyHead
  <2>2. StaticPriority[next] = q /\ p <= q
    BY <2>1, HeadOfList, TasksFacts
  <2> QED
    BY <2>2, <1>2, <1>3, <1>4
<1>6. CASE actualPriority[next] >= actualPriority[head]
  <2>1. HoldsHead(head)
    BY <1>1, HeadOfList DEF IsReadyHead, HoldsHead
  <2>2. actualPriority[head] >= StaticPriority[head]
    BY <2>1, <1>4
  <2> QED
    BY <2>2, <1>1, <1>3, <1>6
<1> QED
  BY <1>1, <1>5, <1>6, TasksFacts DEF GetNextTask

\* Whenever the CPU is given to a task, no ready task has a static priority
\* above the one that task runs at.
THEOREM SwitchesPickHighest == Spec => SwitchPicksHighest
<1> DEFINE Highest == running' \notin {running, INVALID_TASK} =>
                         \A t \in Tasks : state'[t] = "READY" =>
                            StaticPriority[t] <= actualPriority'[running']
<1>1. KernelInv /\ AtLeastStatic /\ [Next]_vars => Highest
  <2> SUFFICES ASSUME KernelInv, AtLeastStatic, [Next]_vars,
                      running' \notin {running, INVALID_TASK},
                      NEW t \in Tasks, state'[t] = "READY"
               PROVE  StaticPriority[t] <= actualPriority'[running']
    OBVIOUS
  <2>1. KernelInv'
    BY KernelStep
  <2>2. ready'[StaticPriority[t]] # <<>>
    <3>1. activations'[t] # 0 /\ Entries(t)' = activations'[t]
      BY <2>1 DEF KernelInv, QueueInv, EntriesMatchActivations
    <3>2. Occurrences(<<>>, t) = {} /\ Cardinality({}) = 0
      BY FS_EmptySet DEF Occurrences
    <3> QED
      BY <3>1, <3>2 DEF Entries
  <2>3. GiveWayEffect \/ Dispatch
    <3>1. ~ActivateEffect /\ ~SetEventEffect /\ ~NoEffect
      BY DEF ActivateEffect, SetEventEffect, NoEffect
    <3>2. ~TerminateEffect /\ ~WaitEffect
      BY DEF TerminateEffect, TerminateTask, WaitEffect, WaitEvent, LeaveCpu
    <3>3. ~GetResourceEffect /\ ~ReleaseResourceEffect /\ ~ClearEventEffect
      BY DEF GetResourceEffect, GetResource, ReleaseResourceEffect, ReleaseResource,
             ClearEventEffect, ClearEvent, cpuVars
    <3> QED
      BY <3>1, <3>2, <3>3, StepEffects DEF Effect
  <2>4. PICK next \in Tasks : GetNextTask(next) /\ running' = next
    BY <2>3 DEF GiveWayEffect, GiveWay, Dispatch
  <2>5. UNCHANGED <<ready, actualPriority>>
    BY <2>3 DEF GiveWayEffect, Dispatch
  <2>6. StaticPriority[t] \in Priorities
    BY TasksFacts
  <2> QED
    BY <2>2, <2>4, <2>5, <2>6, NextIsHighest
<1> QED
  BY <1>1, KernelInvariant, NeverBelowStatic, PTL DEF Spec, SwitchPicksHighest
=============================================================================
