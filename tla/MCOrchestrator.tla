--------------------------- MODULE MCOrchestrator ---------------------------
(***************************************************************************)
(* Plans and bounds for TLC.                                               *)
(***************************************************************************)
EXTENDS OrchestratorProperties

\* A task that runs on its own, and one behind it that a human must approve.
ChainTask == {1, 2}
ChainDeps == [t \in ChainTask |-> IF t = 2 THEN {1} ELSE {}]
ChainGate == [t \in ChainTask |-> IF t = 1 THEN "safe" ELSE "gpu_training"]
ChainRetries == [t \in ChainTask |-> 1]

\* A task the controller approves on its own, and one that a human approves before
\* it runs and, for want of evidence, is asked about again after it ran.
GatesTask == {1, 2}
GatesDeps == [t \in GatesTask |-> {}]
GatesGate == <<"compute_metrics", "gpu_training">>
GatesRetries == <<0, 0>>

\* An undisturbed plan under AUTO_PROCEED: a task with a delayed retry, two that can
\* run side by side behind it, one of them once a human approves, and one refused.
PlanTask == {1, 2, 3, 4}
PlanDeps == [t \in PlanTask |-> IF t \in {2, 3} THEN {1} ELSE {}]
PlanGate == <<"read_only", "generate_report", "gpu_training", "modify_project_files">>
PlanRetries == <<1, 0, 0, 0>>
=============================================================================
