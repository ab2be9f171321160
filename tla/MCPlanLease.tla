---------------------------- MODULE MCPlanLease ----------------------------
(* Small instances of PlanLease for TLC. *)
EXTENDS PlanLease, TLC

Ids == 1..MaxSteps

Plan(risks, supervised) ==
  [steps |-> [k \in DOMAIN risks |-> [id |-> k, risk |-> risks[k],
                                      dangerous |-> TRUE, status |-> "pending"]],
   supervised |-> supervised, always |-> FALSE]

(* A denied step, a guarded one, and a plain one under and without supervision. *)
OnePlain == {Plan(<<"allow">>, FALSE), Plan(<<"allow">>, TRUE),
             Plan(<<"confirm">>, FALSE), Plan(<<"deny">>, FALSE)}

RunSymmetry == Permutations(Runs)
=============================================================================
