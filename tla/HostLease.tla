------------------------------ MODULE HostLease ------------------------------
(***************************************************************************)
(* What the execution side of the backend promises about the managed host,  *)
(* without saying how.  One job at a time holds the host; only its holder    *)
(* acts on it, one call at a time.  A guarded call is made only with a       *)
(* permit an operator issued for that very step to the job holding the host, *)
(* a denied call never is, and a call about which nobody asked the policy is  *)
(* one of the trusted steps.  A job that has been told to stop makes no more *)
(* calls, except one it holds a permit for, and a job that has ended makes    *)
(* none.                                                                     *)
(***************************************************************************)
CONSTANTS
  Jobs,     \* the runs
  Steps,    \* the identifiers a step can have
  Trusted,  \* the steps that may be taken without asking the policy
  None      \* no job

VARIABLES
  phase,   \* of each job: idle, active or ended
  holder,  \* the job that holds the host, or None
  calls,   \* the calls in flight on the host: <<job, step, verdict>>
  permits, \* what operators have permitted: <<job, step>>
  told     \* the jobs that have been told to stop

lease == <<phase, holder, calls, permits, told>>

LeaseInit ==
  /\ phase = [j \in Jobs |-> "idle"]
  /\ holder = None
  /\ calls = {} /\ permits = {} /\ told = {}

Acquire(j) ==
  /\ holder = None /\ phase[j] = "idle"
  /\ holder' = j
  /\ phase' = [phase EXCEPT ![j] = "active"]
  /\ UNCHANGED <<calls, permits, told>>

Permit(j, s) ==
  /\ holder = j
  /\ permits' = permits \cup {<<j, s>>}
  /\ UNCHANGED <<phase, holder, calls, told>>

Tell(j) ==
  /\ holder = j
  /\ told' = told \cup {j}
  /\ UNCHANGED <<phase, holder, calls, permits>>

(* The call before it, if there was one, was the job's own and has returned. *)
CallHost(j, s, verdict) ==
  /\ holder = j /\ \A c \in calls : c[1] = j
  /\ verdict = "unasked" => s \in Trusted
  /\ verdict = "guarded" \/ j \in told => <<j, s>> \in permits
  /\ calls' = {<<j, s, verdict>>}
  /\ UNCHANGED <<phase, holder, permits, told>>

Return ==
  /\ calls' = {}
  /\ UNCHANGED <<phase, holder, permits, told>>

(* The job ends, and with it the call in flight, if that call raised. *)
Release(j) ==
  /\ holder = j
  /\ holder' = None
  /\ phase' = [phase EXCEPT ![j] = "ended"]
  /\ calls' = {}
  /\ UNCHANGED <<permits, told>>

LeaseNext ==
  \/ \E j \in Jobs : Acquire(j) \/ Tell(j) \/ Release(j)
  \/ \E j \in Jobs, s \in Steps :
       Permit(j, s) \/ \E verdict \in {"free", "guarded", "unasked"} : CallHost(j, s, verdict)
  \/ Return

LeaseSpec == LeaseInit /\ [][LeaseNext]_lease
=============================================================================
