------------------------------ MODULE MCKernel ------------------------------
(***************************************************************************)
(* Instances of Kernel for TLC.  A tuple lists the tasks in the order of   *)
(* their numbers, task 0 first.                                            *)
(***************************************************************************)
EXTENDS KernelProperties

ByNumber(tuple) == [n \in 0 .. Len(tuple) - 1 |-> tuple[n + 1]]

\* myproject.oil: InitTask, SwitchesTask and PeriodicTask, all of them
\* extended, POSIXR and POSIXE shared by the three, priorities 1, 2 and 5.
PanelStaticPriority == ByNumber(<<0, 1, 2>>)
PanelMaxActivations == ByNumber(<<1, 1, 1>>)
PanelResourcesMask == ByNumber(<<{0}, {0}, {0}>>)
PanelEventsMask == ByNumber(<<{"POSIXE"}, {"POSIXE"}, {"POSIXE"}>>)
PanelResourcesPriority == ByNumber(<<2>>)
PanelAutoStart == <<0>>

\* Two tasks in one ready list, one of them with two activations, nested
\* resources with different ceilings, every task preemptable.
MixedStaticPriority == ByNumber(<<0, 0, 1, 2>>)
MixedMaxActivations == ByNumber(<<1, 2, 1, 1>>)
MixedResourcesMask == ByNumber(<<{0, 1}, {}, {0}, {1}>>)
MixedEventsMask == ByNumber(<<{}, {}, {"e"}, {}>>)
MixedResourcesPriority == ByNumber(<<1, 2>>)
MixedAutoStart == <<0, 1>>
=============================================================================
