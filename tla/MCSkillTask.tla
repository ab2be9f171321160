----------------------------- MODULE MCSkillTask -----------------------------
(* Small instances of SkillTask for TLC. *)
EXTENDS SkillLease, TLC

(* A script of two steps, each of which may be tried twice, and a guided      *)
(* skill of at most four actions.                                            *)
SomeSkills == {[mode |-> "scripted", steps |-> 2, tries |-> 2],
               [mode |-> "guided", steps |-> 4, tries |-> 1]}

TaskSymmetry == Permutations(Tasks)
=============================================================================
