------------------------------ MODULE PlanLease ------------------------------
(***************************************************************************)
(* PlanRun implements HostLease as long as no WebSocket client is connected: *)
(* the plan executor is a lease on the managed host, taken by start_plan,     *)
(* used by tools.execute and given back when a run's outcome is recorded.     *)
(***************************************************************************)
EXTENDS PlanRun

CONSTANT StepIds \* the identifiers a step can have

Phase(r) == CASE run[r].state = "absent"         -> "idle"
              [] run[r].state \in RunTerminal    -> "ended"
              [] OTHER                           -> "active"

Phases == [r \in Runs |-> Phase(r)]

(* What has to be said of the call a coroutine has in flight. *)
Verdict(t) == CASE MyStep(t).risk = "deny"   -> "denied"
                [] Needs(My(t), MyStep(t))   -> "guarded"
                [] OTHER                     -> "free"

Holder == IF HasActiveRun THEN current ELSE NoRun

InFlight == {<<task[t].run, MyStep(t).id, Verdict(t)>> :
               t \in {u \in Runs : task[u].pc = "tool"}}

Lease == INSTANCE HostLease WITH
           Jobs     <- Runs,
           Steps    <- StepIds,
           Trusted  <- {},
           None     <- NoRun,
           phase    <- Phases,
           holder   <- Holder,
           calls    <- InFlight,
           permits  <- approved,
           told     <- aborting

(* Every behaviour of the plan executor is one of the lease. *)
IsLease == Lease!LeaseSpec
=============================================================================
