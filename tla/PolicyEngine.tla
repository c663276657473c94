---------------------------- MODULE PolicyEngine ----------------------------
(***************************************************************************)
(* The decision the controller takes for a task before it runs it, with    *)
(* the default policy and automation level safe-auto.                      *)
(* The path arithmetic of the safe-auto boundary is abstracted to one bit  *)
(* per task: does some declared write, or the command, leave the allowed   *)
(* roots.                                                                  *)
(***************************************************************************)

CONSTANTS
  AutoProceed     \* TRUE when AUTO_PROCEED is set in the environment or the policy

ASSUME AutoProceedAssumption == AutoProceed \in BOOLEAN

PolicyDecision == {"AUTO_EXECUTE", "REQUIRE_APPROVAL", "REJECT"}

\* Gates of DEFAULT_POLICY; a gate it does not name gets the default,
\* REQUIRE_APPROVAL.
AutoGates   == {"read_only", "safe"}
RejectGates == {"destructive"}

GateDecision(gate) ==
  CASE gate \in AutoGates   -> "AUTO_EXECUTE"
    [] gate \in RejectGates -> "REJECT"
    [] OTHER                -> "REQUIRE_APPROVAL"

\* Gates whose risk level is R0, R1 or R2; every gate the map omits is R3.
AutoProceedGates ==
  {"read_only", "safe", "compute_metrics", "generate_report", "mini_benchmark",
   "small_download"}

\* The safe-auto boundary only looks at modify_project_files: without declared
\* writes the decision is REQUIRE_APPROVAL, and a write or a command outside the
\* allowed roots is refused whatever the gate says.
BoundaryDecision(gate, outside) ==
  IF gate = "modify_project_files" /\ outside THEN "REJECT" ELSE GateDecision(gate)

Evaluate(gate, outside) ==
  IF AutoProceed /\ GateDecision(gate) = "REQUIRE_APPROVAL" /\ gate \in AutoProceedGates
  THEN "AUTO_EXECUTE"
  ELSE BoundaryDecision(gate, outside)

\* The gates ApprovalGate.auto_approve_low_risk approves on its own.
LowRiskGates ==
  {"read_only", "safe", "compute_metrics", "generate_report", "mini_benchmark",
   "small_download", "init", "env_check", "audit", "detect_existing_env",
   "code_heal_patch"}
=============================================================================
