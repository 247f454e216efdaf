------------------------------ MODULE MCModbus ------------------------------
(***************************************************************************)
(* An instance of Modbus for TLC: one slave, with id 1, and one line.      *)
(***************************************************************************)
EXTENDS Modbus

GatewayServerId == [s \in {0, 1} |-> IF s = 0 THEN 1 ELSE 0]
=============================================================================
