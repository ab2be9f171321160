--------------------------- MODULE MCPlanRecovery ---------------------------
(* Small instances of PlanRecovery for TLC. *)
EXTENDS PlanRecovery, TLC

New(k, risk) == [id |-> k, risk |-> risk, dangerous |-> FALSE, status |-> "pending"]

(* Two steps, each to be confirmed or not. *)
TwoSteps ==
  [steps : {<<New(1, "confirm"), New(2, "allow")>>},
   supervised : {FALSE}, always : {FALSE}]

(* Two plain steps. *)
PlainSteps ==
  [steps : {<<New(1, "allow"), New(2, "allow")>>}, supervised : {FALSE}, always : {FALSE}]

RunSymmetry == Permutations(Runs)
=============================================================================
