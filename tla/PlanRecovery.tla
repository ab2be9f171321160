----------------------------- MODULE PlanRecovery -----------------------------
(***************************************************************************)
(* The plan runtime across restarts of the server: what a crash loses, what *)
(* AgentInstance.startup repairs in the run store (RunMemory of             *)
(* exoanchor/memory/run_memory.py), and how resume_saved_run continues an    *)
(* interrupted run under a new identifier.                                  *)
(*                                                                          *)
(* A process can die between any two statements, so Crash has no guard on    *)
(* what the coroutines are doing.  The history variables survive it: they    *)
(* are what happened to the target, not what the server remembers.           *)
(***************************************************************************)
EXTENDS PlanRun

VARIABLES
  up,          \* the server is serving requests
  resumed_from \* metadata["resumed_from"] of each run, or NoRun

all == <<vars, up, resumed_from>>

(* Nobody watches: the module is about losing the process, not about emits. *)
ASSUME NoClient == EmitYields = FALSE

Unfinished(status) == status.state \notin RunTerminal \cup {"absent"}

-----------------------------------------------------------------------------
(* A new process: the executor is empty and a run is what its snapshot says. *)
Restart ==
  /\ up' = FALSE
  /\ current' = NoRun /\ starting' = NoRun
  /\ paused' = FALSE /\ abort' = FALSE
  /\ confirmation' = NoRun
  /\ future' = [r \in Runs |-> "none"]
  /\ task' = [r \in Runs |-> [task[r] EXCEPT !.pc = IF @ = "none" THEN @ ELSE "done"]]
  /\ UNCHANGED <<history, resumed_from>>

Crash == /\ up
         /\ Restart
         /\ run' = store /\ UNCHANGED store

(* An orderly shutdown cancels the tasks: CancelledError reaches the         *)
(* coroutine at its await and the run is recorded as aborted by the user.    *)
Cancelled(r) == \E t \in Runs : Live(t) /\ task[t].run = r

Shutdown ==
  /\ up /\ LoopIdle
  /\ Restart
  /\ store' = [r \in Runs |-> IF Cancelled(r) THEN [run[r] EXCEPT !.state = "aborted"]
                                              ELSE store[r]]
  /\ run' = store'

(* _recover_stale_runs, for one snapshot; it is saved before the next one is *)
(* looked at.  metadata["resume_from_step"] is current_step_index, which is  *)
(* `at`.                                                                     *)
Interrupted(saved) ==
  [saved EXCEPT !.state = "aborted", !.recoverable = TRUE,
     !.steps = [k \in DOMAIN @ |->
                  IF k = saved.at /\ @[k].status \in {"running", "waiting_confirmation"}
                  THEN [@[k] EXCEPT !.status = "pending"] ELSE @[k]]]

(* Mutant: finished runs are not passed over. *)
RecoverAll(r) ==
  /\ ~up /\ store[r].state # "absent"
  /\ Emit(r, Interrupted(store[r]))
  /\ UNCHANGED <<executor, task, history, up, resumed_from>>

Recover(r) ==
  /\ ~up /\ Unfinished(store[r])
  /\ Emit(r, Interrupted(store[r]))
  /\ UNCHANGED <<executor, task, history, up, resumed_from>>

(* Mutant: requests are served before the repair is done. *)
ServerUpEarly == ~up /\ up' = TRUE /\ UNCHANGED <<vars, resumed_from>>

ServerUp == /\ ~up /\ \A r \in Runs : ~Unfinished(store[r])
            /\ up' = TRUE
            /\ UNCHANGED <<vars, resumed_from>>

(* The copy of a saved run that resume_saved_run makes current. *)
Reopened(saved, steps) ==
  [saved EXCEPT !.state = "running", !.waiting = 0, !.recoverable = FALSE, !.steps = steps]

(* Mutants: what was skipped is to be done again; every step before the one  *)
(* the saved run stood at is taken to be done.                               *)
ResumedUnskipped(saved) ==
  Reopened(saved, [k \in DOMAIN saved.steps |->
    IF saved.steps[k].status = "done" /\ k < saved.at THEN saved.steps[k]
    ELSE [saved.steps[k] EXCEPT !.status = "pending"]])

ResumedAsDone(saved) ==
  Reopened(saved, [k \in DOMAIN saved.steps |->
    [saved.steps[k] EXCEPT !.status = IF k < saved.at THEN "done" ELSE "pending"]])

(* resume_saved_run: a new run that keeps what was skipped, and what was done *)
(* before the step the saved run stood at; everything else is to be done.    *)
Resumed(saved) ==
  Reopened(saved, [k \in DOMAIN saved.steps |->
    IF \/ saved.steps[k].status = "skipped"
       \/ saved.steps[k].status = "done" /\ k < saved.at
    THEN saved.steps[k] ELSE [saved.steps[k] EXCEPT !.status = "pending"]])

ResumeSaved(r, s) ==
  /\ up /\ store[s].recoverable
  /\ Launch(r, Resumed(store[s]))
  /\ resumed_from' = [resumed_from EXCEPT ![r] = s]
  /\ UNCHANGED up

-----------------------------------------------------------------------------
RecoveryInit == /\ Init
                /\ up = TRUE
                /\ resumed_from = [r \in Runs |-> NoRun]

Serving == up /\ Next /\ UNCHANGED <<up, resumed_from>>

RecoveryNext ==
  \/ Serving
  \/ Crash
  \/ Shutdown
  \/ ServerUp
  \/ \E r \in Runs : Recover(r) \/ \E s \in Runs : ResumeSaved(r, s)

RecoverySpec == RecoveryInit /\ [][RecoveryNext]_all

-----------------------------------------------------------------------------
(* Properties. *)

Recorded(r, id, status) == \E k \in DOMAIN store[r].steps :
                             store[r].steps[k].id = id /\ store[r].steps[k].status = status

(* A server that answers requests shows no run as active except the one it   *)
(* is executing, or about to: startup leaves no run of a dead process behind. *)
NoZombieRun ==
  up => \A r \in Runs : Unfinished(store[r]) => current = r

(* A recorded outcome outlives every restart: recovery never reopens a run   *)
(* or rewrites its record, and a resumed run is another run.                 *)
RecordIsFinal ==
  [][\A r \in Runs : store[r].state \in RunTerminal => store'[r] = store[r]]_all

(* A step the operator rejected, or the evaluator skipped, is not executed by *)
(* a run resumed from that record.                                           *)
SkipSurvives ==
  [][\A t \in Runs : StartsTool(t) /\ resumed_from[task[t].run] # NoRun =>
       ~Recorded(resumed_from[task[t].run], MyStep(t).id, "skipped")]_all

(* No record claims more than happened: a step recorded as done had its tool  *)
(* call, in that run or in the one whose record it was resumed from.         *)
DoneWasRun ==
  \A r \in Runs : \A k \in DOMAIN store[r].steps : store[r].steps[k].status = "done" =>
    \/ <<r, store[r].steps[k].id>> \in ran
    \/ /\ resumed_from[r] # NoRun
       /\ Recorded(resumed_from[r], store[r].steps[k].id, "done")

(* A run resumed from a record does not execute again a step the record says *)
(* is done.                                                                  *)
DoneNotRepeated ==
  [][\A t \in Runs : StartsTool(t) /\ resumed_from[task[t].run] # NoRun =>
       ~Recorded(resumed_from[task[t].run], MyStep(t).id, "done")]_all
=============================================================================
