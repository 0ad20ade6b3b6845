---------------------------- MODULE MCSupervisor ----------------------------
(* Supervisor on two configurations that need different entries.            *)
EXTENDS Supervisor

MCNeedOne == [v \in {0, 1} |-> IF v = 0 THEN {} ELSE {v}]
MCNeed == [v \in {0, 1, 2} |-> IF v = 0 THEN {} ELSE {v}]
=============================================================================
