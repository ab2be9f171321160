------------------------------ MODULE MCPlanRun ------------------------------
(* Small instances of PlanRun for TLC. *)
EXTENDS PlanRun, TLC

New(k, risk, dangerous) ==
  [id |-> k, risk |-> risk, dangerous |-> dangerous, status |-> "pending"]

(* The kinds of step the code tells apart: plain, plain but dangerous, to be *)
(* confirmed, denied.                                                        *)
Kinds == {<<"allow", FALSE>>, <<"allow", TRUE>>, <<"confirm", FALSE>>, <<"deny", FALSE>>}

(* Two-step plans: every kind of step, then one that may have to be confirmed. *)
TwoSteps ==
  [steps : {<<New(1, a[1], a[2]), New(2, b[1], b[2])>> :
              a \in Kinds, b \in {<<"allow", TRUE>>, <<"confirm", FALSE>>}},
   supervised : BOOLEAN, always : BOOLEAN]

(* A plain step and one to be confirmed, in either order. *)
TwoMixed ==
  [steps : {<<New(1, "allow", FALSE), New(2, "confirm", FALSE)>>,
            <<New(1, "confirm", FALSE), New(2, "allow", FALSE)>>},
   supervised : {FALSE}, always : {FALSE}]

OneConfirm ==
  [steps : {<<New(1, "confirm", FALSE)>>}, supervised : {FALSE}, always : {FALSE}]

RunSymmetry == Permutations(Runs)
=============================================================================
