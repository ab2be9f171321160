------------------------------ MODULE SkillTask ------------------------------
(***************************************************************************)
(* Skill tasks: class SemiActiveExecutor of exoanchor/core/executor.py with  *)
(* the ExecutionContext of exoanchor/core/context.py.  A scripted skill is a *)
(* list of steps, each tried a few times; a guided one looks at the screen   *)
(* and acts until the goal is reached, with a loop detector and recovery     *)
(* actions.  A task runs inside the request that started it (run_skill, also *)
(* used by the triggers of the passive monitor) or in the background         *)
(* (run_skill_async); abort_current cancels only the latter.                 *)
(*                                                                          *)
(* As in PlanRun, an action is the code between two awaits, and NotifyYields *)
(* says whether a WebSocket client can make the awaits of _notify_ws suspend.*)
(***************************************************************************)
EXTENDS Integers

CONSTANTS
  Tasks,         \* identifiers a task can be given
  NoTask,        \* None
  Skills,        \* what callers run: mode; script length or max_steps; tries of a step
  LoopWindow,    \* records the loop detector looks at
  RecoveryLimit, \* recovery["max_attempts"] of a guided skill
  RecoveryActions, \* actions of one recovery attempt
  NotifyYields   \* is a WebSocket client connected?

ASSUME SkillConstantsOK ==
  /\ NoTask \notin Tasks
  /\ Skills \subseteq [mode : {"scripted", "guided"}, steps : Nat, tries : Nat \ {0}]
  /\ LoopWindow \in Nat /\ RecoveryLimit \in Nat /\ RecoveryActions \in Nat \ {0}
  /\ NotifyYields \in BOOLEAN

States   == {"pending", "running", "paused", "completed", "failed", "aborted"}

NotifyLabels == {"starting", "noting", "ended"}
SleepLabels  == {"paused", "retrying", "resting"}
CallLabels   == {"tool", "recovering"}
Labels       == NotifyLabels \cup SleepLabels \cup CallLabels \cup
                {"none", "created", "step", "seeing", "done", "lost"}

(* What the policy said of a call, if it was asked. *)
Verdicts == {"free", "guarded", "denied"}

Job == [state : States, pc : Labels, mode : {"scripted", "guided"}, steps : Nat,
        tries : Nat \ {0}, i : Nat, left : Nat \ {0}, paused : BOOLEAN, complete : BOOLEAN,
        cancelled : BOOLEAN, recorded : Nat, recovered : Nat, looping : BOOLEAN,
        verdict : Verdicts \cup {"unasked"}]

(* i is the step of a script, left the tries of that step or the actions of a *)
(* recovery attempt that are left, recorded the steps taken (of a guided      *)
(* task), recovered its recovery attempts; looping: the detector fired and    *)
(* the attempts are used up; verdict: what the policy said of the last call.   *)
VARIABLES
  current, \* _current_task
  context, \* the task of _current_context
  handle,  \* the task _execution_task runs: the last one started in the background
  abort,   \* _abort_event
  job,     \* of each task: Task, its context, and where its coroutine is suspended
  told,    \* history: the tasks that were current when abort_current was called
  cut,     \* history: the background tasks it cancelled
  early    \* history: a task was started before the one before it was finished

vars == <<current, context, handle, abort, job, told, cut, early>>

-----------------------------------------------------------------------------
Holding  == {"step"} \cup (IF NotifyYields THEN {} ELSE NotifyLabels)
LoopFree(t) == \A u \in Tasks \ {t} : job[u].pc \notin Holding
LoopIdle    == \A u \in Tasks : job[u].pc \notin Holding

(* The coroutine of t is resumed at an await, and no cancellation is pending. *)
At(t, label) == job[t].pc = label /\ LoopFree(t) /\ ~job[t].cancelled

Fresh(skill, label) ==
  [state |-> "running", pc |-> label, mode |-> skill.mode, steps |-> skill.steps,
   tries |-> skill.tries, i |-> 0, left |-> skill.tries, paused |-> FALSE,
   complete |-> FALSE, cancelled |-> FALSE, recorded |-> 0, recovered |-> 0,
   looping |-> FALSE, verdict |-> "unasked"]

Executor == <<current, context, handle, abort, told, cut, early>>

(* The coroutine of t goes on as j; nothing of the executor changes. *)
Goes(t, j) == job' = [job EXCEPT ![t] = j] /\ UNCHANGED Executor

Ended(j, outcome) == [j EXCEPT !.state = outcome, !.complete = TRUE,
                               !.pc = "ended", !.cancelled = FALSE]
Ends(t, outcome)  == Goes(t, Ended(job[t], outcome))

(* The loop is left after the outcome was set. *)
Leaves(t) == Goes(t, [job[t] EXCEPT !.pc = "ended"])

-----------------------------------------------------------------------------
(* The callers. *)

(* _prepare_skill_run: only a task whose state is RUNNING is in the way. *)
Startable == current # NoTask => job[current].state # "running"

Starts == early' = (early \/ current # NoTask)

(* run_skill up to the "task_start" notification. *)
RunSkill(t) ==
  /\ LoopIdle /\ Startable /\ job[t].pc = "none"
  /\ \E skill \in Skills : job' = [job EXCEPT ![t] = Fresh(skill, "starting")]
  /\ current' = t /\ context' = t /\ abort' = FALSE
  /\ Starts
  /\ UNCHANGED <<handle, told, cut>>

(* Mutant: the task is registered when its coroutine begins. *)
RunSkillAsyncUnregistered(t) ==
  /\ LoopIdle /\ Startable /\ job[t].pc = "none"
  /\ \E skill \in Skills : job' = [job EXCEPT ![t] = Fresh(skill, "created")]
  /\ handle' = t
  /\ Starts
  /\ UNCHANGED <<current, context, abort, told, cut>>

RunSkillAsync(t) ==
  /\ LoopIdle /\ Startable /\ job[t].pc = "none"
  /\ \E skill \in Skills : job' = [job EXCEPT ![t] = Fresh(skill, "created")]
  /\ current' = t /\ handle' = t
  /\ Starts
  /\ UNCHANGED <<context, abort, told, cut>>

(* Mutant: the background task is not cancelled. *)
AbortCurrentEventOnly ==
  /\ LoopIdle
  /\ abort' = TRUE
  /\ told' = told \cup ({current} \ {NoTask})
  /\ cut' = cut \cup ({handle} \ {NoTask})
  /\ UNCHANGED <<current, context, handle, job, early>>

AbortCurrent ==
  /\ LoopIdle
  /\ abort' = TRUE
  /\ LET hit == {t \in {handle} \ {NoTask} : job[t].pc \notin {"done", "lost"}}
     IN  /\ job' = [t \in Tasks |-> IF t \in hit THEN [job[t] EXCEPT !.cancelled = TRUE]
                                                 ELSE job[t]]
         /\ cut' = cut \cup hit
  /\ told' = told \cup ({current} \ {NoTask})
  /\ UNCHANGED <<current, context, handle, early>>

PauseCurrent ==
  /\ LoopIdle /\ context # NoTask
  /\ job' = [job EXCEPT ![context].paused = TRUE, ![context].state = "paused"]
  /\ UNCHANGED Executor

ResumeCurrent ==
  /\ LoopIdle /\ context # NoTask
  /\ job' = [job EXCEPT ![context].paused = FALSE, ![context].state = "running"]
  /\ UNCHANGED Executor

-----------------------------------------------------------------------------
(* _execute_prepared_skill around the loops. *)

Begin(t) ==
  /\ At(t, "created")
  /\ job' = [job EXCEPT ![t].pc = "starting"]
  /\ current' = t /\ context' = t /\ abort' = FALSE
  /\ UNCHANGED <<handle, told, cut, early>>

Started(t) == At(t, "starting") /\ Goes(t, [job[t] EXCEPT !.pc = "step"])

(* The cancellation is delivered.  Inside the try block it is the outcome;   *)
(* before the first step of the coroutine, and in the two notifications      *)
(* outside the block, it leaves the executor as it is.                       *)
Cancelled(t) ==
  /\ job[t].cancelled /\ LoopFree(t)
  /\ \/ /\ job[t].pc \in {"created", "starting", "ended"}
        /\ Goes(t, [job[t] EXCEPT !.pc = "lost", !.cancelled = FALSE])
     \/ /\ job[t].pc \in SleepLabels \cup CallLabels \cup {"noting", "seeing"}
        /\ Ends(t, "aborted")

(* After "task_end": the executor is emptied, whichever task it now holds. *)
Finished(t) ==
  /\ At(t, "ended")
  /\ job' = [job EXCEPT ![t].pc = "done"]
  /\ current' = NoTask /\ context' = NoTask
  /\ UNCHANGED <<handle, abort, told, cut, early>>

(* An exception in the skill, the tools or the vision backend. *)
Raises(t) ==
  /\ \E label \in CallLabels : At(t, label)
  /\ Ends(t, "failed")

-----------------------------------------------------------------------------
(* _run_executable_plan. *)

(* The policy is asked about a call: what it denies, and what it would have an *)
(* operator confirm, fails the task.                                         *)
Asked(t) ==
  \E verdict \in Verdicts :
    \/ verdict \in {"denied", "guarded"} /\ Ends(t, "failed")
    \/ verdict = "free" /\ Goes(t, [job[t] EXCEPT !.pc = "tool", !.verdict = verdict])

(* The guard or the policy stops the step, or the tool is called. *)
Attempt(t) == Ends(t, "failed") \/ Asked(t)

ScriptHead(t) ==
  /\ At(t, "step") /\ job[t].mode = "scripted"
  /\ \/ job[t].i >= job[t].steps /\ Ends(t, "completed")
     \/ /\ job[t].i < job[t].steps
        /\ \/ abort /\ Ends(t, "aborted")
           \/ ~abort /\ job[t].paused /\ Goes(t, [job[t] EXCEPT !.pc = "paused"])
           \/ ~abort /\ ~job[t].paused /\ Attempt(t)

(* The abort event is not looked at again after the pause. *)
ScriptWakes(t) ==
  At(t, "paused") /\ job[t].mode = "scripted" /\ ~job[t].paused /\ Attempt(t)

(* Mutant: one try too many. *)
ScriptToolReturnsOnceMore(t) ==
  /\ At(t, "tool") /\ job[t].mode = "scripted"
  /\ \/ Goes(t, [job[t] EXCEPT !.pc = "noting"])
     \/ job[t].left > 0 /\ Goes(t, [job[t] EXCEPT !.pc = "retrying", !.left = @ - 1])
     \/ job[t].left <= 0 /\ Ends(t, "failed")

(* The tool's answer (and the step's wait): what was expected, or another try. *)
ScriptToolReturns(t) ==
  /\ At(t, "tool") /\ job[t].mode = "scripted"
  /\ \/ Goes(t, [job[t] EXCEPT !.pc = "noting"])
     \/ job[t].left > 1 /\ Goes(t, [job[t] EXCEPT !.pc = "retrying", !.left = @ - 1])
     \/ job[t].left <= 1 /\ Ends(t, "failed")

Retries(t) == At(t, "retrying") /\ Attempt(t)

Noted(t) ==
  /\ At(t, "noting")
  /\ Goes(t, [job[t] EXCEPT !.pc = "step", !.i = @ + 1, !.left = job[t].tries])

-----------------------------------------------------------------------------
(* _run_guided. *)

(* Mutant: one step past the limit. *)
GuidedGoesOnPastLimit(t) ==
  LET j == job[t]
  IN  \/ Ends(t, "failed")
      \/ /\ j.recorded <= j.steps
         /\ Goes(t, [j EXCEPT !.pc = "seeing", !.looping = FALSE])
      \/ /\ j.recorded <= j.steps /\ j.recorded >= LoopWindow /\ j.recovered < RecoveryLimit
         /\ Goes(t, [j EXCEPT !.pc = "recovering", !.left = RecoveryActions,
                              !.verdict = "unasked"])

(* The part of the loop after the pause: limits, loop detection, recovery.   *)
(* Once the recovery attempts are used up the task is marked as failed, but  *)
(* the loop goes on.  Nobody asks the policy about recovery actions.          *)
GuidedGoesOn(t) ==
  LET j == job[t]
  IN  \/ Ends(t, "failed")
      \/ /\ j.recorded < j.steps
         /\ Goes(t, [j EXCEPT !.pc = "seeing", !.looping = FALSE])
      \/ /\ j.recorded < j.steps /\ j.recorded >= LoopWindow
         /\ \/ /\ j.recovered < RecoveryLimit
               /\ Goes(t, [j EXCEPT !.pc = "recovering", !.left = RecoveryActions,
                                    !.verdict = "unasked"])
            \/ /\ j.recovered >= RecoveryLimit
               /\ Goes(t, [Ended(j, "failed") EXCEPT !.pc = "seeing", !.looping = TRUE])

GuidedHead(t) ==
  /\ At(t, "step") /\ job[t].mode = "guided"
  /\ \/ job[t].complete /\ Leaves(t)
     \/ /\ ~job[t].complete
        /\ \/ abort /\ Ends(t, "aborted")
           \/ ~abort /\ job[t].paused /\ Goes(t, [job[t] EXCEPT !.pc = "paused"])
           \/ ~abort /\ ~job[t].paused /\ GuidedGoesOn(t)

GuidedWakes(t) ==
  At(t, "paused") /\ job[t].mode = "guided" /\ ~job[t].paused /\ GuidedGoesOn(t)

(* A recovery action is recorded like any other; the next one follows without *)
(* a look at the limits or at the abort event.  One that fails ends the task. *)
Recovered(t) ==
  /\ At(t, "recovering")
  /\ LET j == [job[t] EXCEPT !.recorded = @ + 1]
     IN  \/ j.left > 1 /\ Goes(t, [j EXCEPT !.left = @ - 1])
         \/ j.left = 1 /\ Goes(t, [j EXCEPT !.pc = "resting", !.recovered = @ + 1])
         \/ Goes(t, Ended(j, "failed"))

(* The screen was analysed, or could not be.  The goal is reached; the guard *)
(* (which looks for the same loop), policy or the backend stops the task;    *)
(* there is nothing to do yet; or an action the policy allows is taken.       *)
Seen(t) ==
  /\ At(t, "seeing")
  /\ \/ Ends(t, "completed")
     \/ Ends(t, "failed")
     \/ Goes(t, [job[t] EXCEPT !.pc = "resting"])
     \/ ~job[t].looping /\ Asked(t)

GuidedToolReturns(t) ==
  /\ At(t, "tool") /\ job[t].mode = "guided"
  /\ \/ Goes(t, [job[t] EXCEPT !.pc = "resting", !.recorded = @ + 1])
     \/ Goes(t, [Ended(job[t], "failed") EXCEPT !.recorded = @ + 1])

Rested(t) == At(t, "resting") /\ Goes(t, [job[t] EXCEPT !.pc = "step"])

-----------------------------------------------------------------------------
Init ==
  /\ current = NoTask /\ context = NoTask /\ handle = NoTask
  /\ abort = FALSE
  /\ job = [t \in Tasks |->
              [Fresh([mode |-> "scripted", steps |-> 0, tries |-> 1], "none")
                 EXCEPT !.state = "pending"]]
  /\ told = {} /\ cut = {} /\ early = FALSE

Script(t) == ScriptHead(t) \/ ScriptWakes(t) \/ ScriptToolReturns(t) \/ Retries(t) \/ Noted(t)

Guided(t) ==
  \/ GuidedHead(t)
  \/ GuidedWakes(t)
  \/ Recovered(t)
  \/ Seen(t)
  \/ GuidedToolReturns(t)
  \/ Rested(t)

TaskStep(t) ==
  Begin(t) \/ Started(t) \/ Cancelled(t) \/ Finished(t) \/ Raises(t) \/ Script(t) \/ Guided(t)

Next ==
  \/ AbortCurrent
  \/ PauseCurrent
  \/ ResumeCurrent
  \/ \E t \in Tasks : RunSkill(t) \/ RunSkillAsync(t) \/ TaskStep(t)

Spec     == Init /\ [][Next]_vars

(* The loop serves every ready coroutine; tools and vision calls return. *)
FairSpec == Spec /\ \A t \in Tasks : WF_vars(TaskStep(t))

-----------------------------------------------------------------------------
(* Properties. *)

Calls(t) ==
  /\ job'[t].pc \in CallLabels
  /\ job[t].pc \notin CallLabels \/ job'[t].recorded > job[t].recorded

TypeOK ==
  /\ {current, context, handle} \subseteq Tasks \cup {NoTask}
  /\ abort \in BOOLEAN
  /\ job \in [Tasks -> Job]
  /\ told \subseteq Tasks /\ cut \subseteq Tasks /\ early \in BOOLEAN

(* A task that has its outcome acts on the host no more, although the guided *)
(* loop goes on after it has given up; nor does a background task that        *)
(* abort_current cancelled, not even for another try of the step it was in.    *)
CallsAreWanted == [][\A t \in Tasks : Calls(t) => ~job[t].complete /\ t \notin cut]_vars

(* A task is alone until it has left the executor, and _current_context is its *)
(* own from its first step on, so that a pause or an abort meets the task that  *)
(* runs; unless a task was started early, because _prepare_skill_run lets one   *)
(* pass when the other is paused, has given up or announces its end.           *)
TaskIsAlone ==
  early \/ \A t \in Tasks :
    /\ job[t].pc \notin {"none", "done", "lost"} => current = t
    /\ job[t].pc \notin {"none", "created", "done", "lost"} => context = t

(* What callers may do to keep tasks apart: start one when get_current_task()  *)
(* is None, which routes.py asks before it starts a plan, but not a skill.      *)
Patient      == current # NoTask => current' \in {current, NoTask}
PatientTasks == [][Patient]_vars

(* A guided task takes at most max_steps actions, those of its recovery      *)
(* attempts included, but for the rest of an attempt begun before the limit; *)
(* and it makes no more attempts than it was allowed.                        *)
GuidedIsBounded ==
  \A t \in Tasks : job[t].mode = "guided" =>
    /\ job[t].recorded <= job[t].steps + RecoveryActions - 1
    /\ job[t].recovered <= RecoveryLimit

(* The task that is current when abort_current is called ends. *)
AbortedTaskEnds == \A t \in Tasks : t \in told ~> job[t].complete
=============================================================================
