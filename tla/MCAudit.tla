------------------------------ MODULE MCAudit -------------------------------
(* Instances of FileAudit for TLC. *)
EXTENDS FileAudit

CONSTANTS p1, p2, e1, e2, e3, e4

(* Two events of one process, or one of each when both record. *)
ProcMap == [e \in {e1, e2, e3, e4} |-> IF e \in {e1, e2} \/ p2 \notin Procs THEN p1 ELSE p2]
ProcOfMC == [e \in Events |-> ProcMap[e]]

Setup(r, n, b, f) == [required |-> r, maxLines |-> n, backups |-> b, faults |-> f]
(* The queue and its task with rotation, and without backups on a bad      *)
(* disk; required mode without and with rotations that race.               *)
SetupsMC == {Setup(FALSE, 1, 1, {"age"}), Setup(FALSE, 1, 0, {"disk", "deadline"}),
             Setup(TRUE, 3, 1, {"disk", "cancel", "age"}), Setup(TRUE, 1, 2, {"disk", "cancel", "age"})}
(* Two processes that share the log. *)
SharedSetup == {Setup(TRUE, 4, 1, {"overlap", "age"})}
=============================================================================
