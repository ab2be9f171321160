------------------------------ MODULE SkillLease ------------------------------
(***************************************************************************)
(* SkillTask implements HostLease too, as long as callers start a task when  *)
(* there is no current one: the lease is taken by run_skill and               *)
(* run_skill_async, used by the calls of the loops, and given back when the   *)
(* executor is emptied after "task_end".  A skill gets no permits, because    *)
(* what would need one fails it; the actions of its own recovery list are     *)
(* taken unasked; the stop a job heeds is the cancellation, which only a      *)
(* background task gets.                                                     *)
(***************************************************************************)
EXTENDS SkillTask

Phase(t) == CASE job[t].pc = "none" -> "idle"
              [] job[t].pc = "done" -> "ended"
              [] OTHER              -> "active"

Phases == [t \in Tasks |-> Phase(t)]

(* The action of a recovery attempt goes by its place in the list; which step *)
(* any other call is makes no difference here.                                *)
Recovery   == {<<"recovery", n>> : n \in 1..RecoveryActions}
CallOf(t)  == IF job[t].pc = "recovering" THEN <<"recovery", job[t].left>> ELSE <<"step", 0>>
InFlight   == {<<t, CallOf(t), job[t].verdict>> : t \in {u \in Tasks : job[u].pc \in CallLabels}}

Lease == INSTANCE HostLease WITH
           Jobs     <- Tasks,
           Steps    <- Recovery \cup {<<"step", 0>>},
           Trusted  <- Recovery,
           None     <- NoTask,
           phase    <- Phases,
           holder   <- current,
           calls    <- InFlight,
           permits  <- {},
           told     <- cut

(* Every behaviour with patient callers is one of the lease. *)
IsLease == Lease!LeaseSpec
=============================================================================
