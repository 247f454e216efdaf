------------------------------ MODULE MCAlarms ------------------------------
(***************************************************************************)
(* Instances of AlarmsHistory for TLC: alarm 0, of the system counter,     *)
(* increments counter 1, which has alarm 1; or one alarm of one counter.   *)
(* Tasks of two priorities use them.                                       *)
(***************************************************************************)
EXTENDS AlarmsHistory

CascadeAlarmRef == [c \in {0, 1} |-> IF c = 0 THEN <<0>> ELSE <<1>>]
CascadeIncrementAction == [a \in {0} |-> 1]
CascadeMaxAllowedValue == [c \in {0, 1} |-> IF c = 0 THEN 3 ELSE 2]
CascadeMinCycle == [c \in {0, 1} |-> IF c = 0 THEN 1 ELSE 2]
CascadeAutoStartAlarm == [a \in {0} |-> <<1, 1>>]
\* At once and once only later, and beyond the maximum; cycles of one tick
\* that begin at once or later, and one that is too short for counter 1.
CascadeTickValues == {<<0, 1>>, <<1, 2>>, <<2, 0>>, <<2, 1>>, <<4, 0>>}

SingleAlarmRef == [c \in {0} |-> <<0>>]
SingleIncrementAction == [a \in {} |-> 0]
SingleMaxAllowedValue == [c \in {0} |-> 3]
SingleMinCycle == [c \in {0} |-> 2]
SingleAutoStartAlarm == [a \in {} |-> <<0, 0>>]
SingleTickValues == {<<1, 0>>, <<2, 3>>}
=============================================================================
