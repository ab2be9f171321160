------------------------------- MODULE PlanRun -------------------------------
(***************************************************************************)
(* The backend plan runtime: class PlanExecutor of                         *)
(* exoanchor/core/plan_executor.py.  One asyncio loop interleaves the       *)
(* coroutine that executes a run with the handlers that start, pause,       *)
(* resume, confirm and abort it.  Control leaves a coroutine only where it  *)
(* awaits, so a task is described by the await it is suspended at (its pc)  *)
(* and an action is the code from one await to the next.                    *)
(*                                                                          *)
(* _emit_run awaits every WebSocket callback.  Without a connected client   *)
(* none of those awaits gives up the loop; with one, each of them may.      *)
(* EmitYields tells the two deployments apart.                              *)
(*                                                                          *)
(* Positions are 1-based: index k of the code is position k + 1 here.       *)
(***************************************************************************)
EXTENDS Integers, Sequences, SequencesExt

CONSTANTS
  Runs,        \* identifiers start_plan can give to a run, and to its task
  NoRun,       \* None
  Plans,       \* what callers submit: steps, supervised, and react_mode = "always"
  MaxSteps,    \* bound: add_step stops growing a plan at this length
  EmitYields,  \* is a WebSocket client connected, so that an emit may suspend?
  HasEvaluator \* is a step evaluator configured?

Risks        == {"allow", "confirm", "deny"}   \* PolicyAction of the step's call
StepStates   == {"pending", "running", "waiting_confirmation",
                 "done", "failed", "skipped"}
StepTerminal == {"done", "failed", "skipped"}
RunStates    == {"absent", "running", "waiting_confirmation", "paused",
                 "completed", "failed", "aborted"}
RunTerminal  == {"completed", "failed", "aborted"}

Step == [id : Nat, risk : Risks, dangerous : BOOLEAN, status : StepStates]
Run  == [state : RunStates, steps : Seq(Step), at : Nat, waiting : Nat,
         supervised : BOOLEAN, always : BOOLEAN, recoverable : BOOLEAN]

ASSUME ConstantsOK ==
  /\ NoRun \notin Runs
  /\ MaxSteps \in Nat
  /\ EmitYields \in BOOLEAN
  /\ HasEvaluator \in BOOLEAN
  /\ Plans \subseteq [steps : Seq(Step), supervised : BOOLEAN, always : BOOLEAN]
  /\ \A plan \in Plans : \A k \in DOMAIN plan.steps :
       plan.steps[k].id = k /\ plan.steps[k].status = "pending"

VARIABLES
  run,          \* the PlanRunStatus object of each run, in memory
  store,        \* the snapshot RunStore holds of each run
  current,      \* _current_run
  starting,     \* the run whose starter holds _lock, suspended in its emit
  paused,       \* _paused
  abort,        \* _abort_event
  confirmation, \* _confirmation_future: the task that created it, or NoRun
  future,       \* the result of the future each task created last
  task,         \* the coroutine _run_current_plan created for each run
  approved,     \* history: steps <<run, id>> an operator has approved
  aborting,     \* history: runs for which abort_run was accepted
  ran,          \* history: steps <<run, id>> whose tool call was started
  late          \* history: those of them started after an abort was accepted

executor == <<current, starting, paused, abort, confirmation, future>>
history  == <<approved, aborting, ran, late>>
vars     == <<run, store, executor, task, history>>

-----------------------------------------------------------------------------
(* The awaits of the coroutine. *)

EmitLabels == {"unpaused", "prepared", "asking", "confirmed", "advance",
               "failing", "finishing"}
Labels     == EmitLabels \cup {"none", "start", "head", "paused", "waiting",
                               "tool", "evaluating", "done"}

(* Where a coroutine cannot be interrupted: in straight-line code, and in an *)
(* emit no client can suspend.                                               *)
Holding == {"head"} \cup (IF EmitYields THEN {} ELSE EmitLabels)

Task  == [pc : Labels, run : Runs \cup {NoRun}, i : Nat, ok : BOOLEAN,
          future : Runs \cup {NoRun}]
Blank == [state |-> "absent", steps |-> <<>>, at |-> 1, waiting |-> 0,
          supervised |-> FALSE, always |-> FALSE, recoverable |-> FALSE]

(* The loop can be given to task t; to a request handler. *)
LoopFree(t) == /\ \A u \in Runs \ {t} : task[u].pc \notin Holding
               /\ starting = NoRun \/ EmitYields
LoopIdle    == /\ \A u \in Runs : task[u].pc \notin Holding
               /\ starting = NoRun \/ EmitYields

(* Mutants: a run that is paused, or waiting too, does not count as active. *)
HasActiveRunUnlessPaused == current # NoRun /\ run[current].state \notin RunTerminal \cup {"paused"}
HasActiveRunIfRunning    == current # NoRun /\ run[current].state = "running"

HasActiveRun == current # NoRun /\ run[current].state \notin RunTerminal

-----------------------------------------------------------------------------
(* State changes the handlers and the coroutine share. *)

(* _emit_run: the snapshot is written before any callback is awaited. *)
Emit(r, status) == /\ run'   = [run EXCEPT ![r] = status]
                   /\ store' = [store EXCEPT ![r] = status]

(* An assignment to the object that no emit follows in the same stretch. *)
Keep(r, status) == /\ run' = [run EXCEPT ![r] = status]
                   /\ UNCHANGED store

Mark(status, k, s) == [status EXCEPT !.steps[k].status = s]
GoTo(t, label)     == task' = [task EXCEPT ![t].pc = label]
MoveTo(t, k)       == task' = [task EXCEPT ![t].pc = "advance", ![t].i = k]

(* A terminal outcome: recorded, emitted; the finally clause runs next. *)
Finish(t, status, outcome) ==
  /\ Emit(task[t].run, [status EXCEPT !.state = outcome])
  /\ GoTo(t, "finishing")
  /\ UNCHANGED <<executor, history>>

My(t)     == run[task[t].run]
MyStep(t) == My(t).steps[task[t].i]

Needs(status, step) == \/ step.risk = "confirm"
                       \/ status.supervised /\ step.dangerous

-----------------------------------------------------------------------------
(* The request handlers. *)

FreshRun(plan) ==
  [Blank EXCEPT !.state = "running", !.steps = plan.steps,
                !.supervised = plan.supervised, !.always = plan.always]

(* start_plan and resume_saved_run up to the emit of "created", in which     *)
(* they still hold _lock.                                                    *)
Launch(r, status) ==
  /\ LoopIdle /\ starting = NoRun /\ ~HasActiveRun
  /\ run[r].state = "absent" /\ store[r].state = "absent"
  /\ Emit(r, status)
  /\ current' = r
  /\ starting' = r
  /\ paused' = FALSE /\ abort' = FALSE
  /\ UNCHANGED <<confirmation, future, task, history>>

StartPlan(r) == \E plan \in Plans : Launch(r, FreshRun(plan))

(* The rest of start_plan: the task is created and the lock released. *)
CreateTask(r) ==
  /\ starting = r
  /\ \A u \in Runs : task[u].pc \notin Holding
  /\ starting' = NoRun
  /\ task' = [task EXCEPT ![r].pc = "start"]
  /\ UNCHANGED <<run, store, current, paused, abort, confirmation, future, history>>

(* Mutant: the pause is not saved. *)
PauseRunUnsaved(r) ==
  /\ LoopIdle /\ current = r /\ run[r].state = "running"
  /\ paused' = TRUE
  /\ Keep(r, [run[r] EXCEPT !.state = "paused"])
  /\ UNCHANGED <<current, starting, abort, confirmation, future, task, history>>

PauseRun(r) ==
  /\ LoopIdle /\ current = r /\ run[r].state = "running"
  /\ paused' = TRUE
  /\ Emit(r, [run[r] EXCEPT !.state = "paused"])
  /\ UNCHANGED <<current, starting, abort, confirmation, future, task, history>>

ResumeRun(r) ==
  /\ LoopIdle /\ current = r /\ run[r].state = "paused"
  /\ paused' = FALSE
  /\ Emit(r, [run[r] EXCEPT !.state = "running"])
  /\ UNCHANGED <<current, starting, abort, confirmation, future, task, history>>

Resolve(result) ==
  future' = IF confirmation # NoRun /\ future[confirmation] = "pending"
            THEN [future EXCEPT ![confirmation] = result] ELSE future

(* Mutant: the abort does not wake a pending confirmation. *)
AbortRunSilent(r) ==
  /\ LoopIdle /\ current = r
  /\ abort' = TRUE /\ paused' = FALSE
  /\ aborting' = aborting \cup {r}
  /\ UNCHANGED <<run, store, current, starting, confirmation, future, task,
                 approved, ran, late>>

AbortRun(r) ==
  /\ LoopIdle /\ current = r
  /\ abort' = TRUE /\ paused' = FALSE
  /\ Resolve("abort")
  /\ aborting' = aborting \cup {r}
  /\ UNCHANGED <<run, store, current, starting, confirmation, task, approved, ran, late>>

(* The first answer counts: a future that is done is left alone. *)
ConfirmStep(r, answer) ==
  /\ LoopIdle /\ current = r
  /\ run[r].state = "waiting_confirmation" /\ confirmation # NoRun
  /\ Resolve(answer)
  /\ approved' = IF answer = "approve" /\ future[confirmation] = "pending"
                 THEN approved \cup {<<r, run[r].waiting>>} ELSE approved
  /\ UNCHANGED <<run, store, current, starting, paused, abort, confirmation,
                 task, aborting, ran, late>>

-----------------------------------------------------------------------------
(* The coroutine _run_current_plan. *)

(* It captures whatever run is current when it is first scheduled. *)
Begin(t) ==
  /\ task[t].pc = "start" /\ LoopFree(t)
  /\ task' = [task EXCEPT ![t].pc  = IF current = NoRun THEN "done" ELSE "head",
                          ![t].run = current, ![t].i = 1]
  /\ UNCHANGED <<run, store, executor, history>>

(* current_step_index is assigned, then a finished step is passed over or    *)
(* _prepare_step announces the step as running.                              *)
Dispatch(t) ==
  LET here == [My(t) EXCEPT !.at = task[t].i]
  IN  /\ \/ /\ MyStep(t).status \in StepTerminal
            /\ Keep(task[t].run, here)
            /\ task' = [task EXCEPT ![t].pc = "head", ![t].i = @ + 1]
         \/ /\ MyStep(t).status \notin StepTerminal
            /\ Emit(task[t].run, [Mark(here, task[t].i, "running")
                                    EXCEPT !.state = "running", !.waiting = 0])
            /\ GoTo(t, "prepared")
      /\ UNCHANGED <<executor, history>>

(* Mutants: the pause, the abort is not looked at between steps. *)
PauseGateOpen(t) == \/ abort /\ Finish(t, My(t), "aborted")
                    \/ ~abort /\ Dispatch(t)

PauseGateDeaf(t) == Dispatch(t)

(* _wait_if_paused, from its while test. *)
PauseGate(t) ==
  \/ abort /\ Finish(t, My(t), "aborted")
  \/ /\ ~abort /\ paused
     /\ Emit(task[t].run, [My(t) EXCEPT !.state = "paused"])
     /\ GoTo(t, "paused")
     /\ UNCHANGED <<executor, history>>
  \/ /\ ~abort /\ ~paused /\ My(t).state = "paused"
     /\ Emit(task[t].run, [My(t) EXCEPT !.state = "running"])
     /\ GoTo(t, "unpaused")
     /\ UNCHANGED <<executor, history>>
  \/ ~abort /\ ~paused /\ My(t).state # "paused" /\ Dispatch(t)

(* The loop test and the loop head. *)
LoopHead(t) ==
  /\ task[t].pc = "head" /\ LoopFree(t)
  /\ \/ /\ task[t].i > Len(My(t).steps)
        /\ Finish(t, [My(t) EXCEPT !.at = Len(My(t).steps) + 1], "completed")
     \/ task[t].i <= Len(My(t).steps) /\ PauseGate(t)

WakePaused(t) == task[t].pc = "paused" /\ LoopFree(t) /\ PauseGate(t)

Unpaused(t)   == task[t].pc = "unpaused" /\ LoopFree(t) /\ Dispatch(t)

(* tools.execute is called. *)
StartTool(t) ==
  LET call == <<task[t].run, MyStep(t).id>>
  IN  /\ GoTo(t, "tool")
      /\ ran'  = ran \cup {call}
      /\ late' = IF task[t].run \in aborting THEN late \cup {call} ELSE late
      /\ UNCHANGED <<run, store, executor, approved, aborting>>

(* After _prepare_step: the policy decision, and what it asks for. *)
Prepared(t) ==
  /\ task[t].pc = "prepared" /\ LoopFree(t)
  /\ \/ /\ MyStep(t).risk = "deny"
        /\ Finish(t, Mark(My(t), task[t].i, "failed"), "failed")
     \/ /\ MyStep(t).risk # "deny" /\ Needs(My(t), MyStep(t))
        /\ Emit(task[t].run, [Mark(My(t), task[t].i, "waiting_confirmation")
                                EXCEPT !.state = "waiting_confirmation",
                                       !.waiting = MyStep(t).id])
        /\ confirmation' = t
        /\ future' = [future EXCEPT ![t] = "pending"]
        /\ GoTo(t, "asking")
        /\ UNCHANGED <<current, starting, paused, abort, history>>
     \/ /\ MyStep(t).risk # "deny" /\ ~Needs(My(t), MyStep(t))
        /\ StartTool(t)

(* The attribute is read again after the emit: it may by then be None, which *)
(* cannot be awaited, or the future of another task.                         *)
Asking(t) ==
  /\ task[t].pc = "asking" /\ LoopFree(t)
  /\ \/ confirmation = NoRun /\ Finish(t, My(t), "failed")
     \/ /\ confirmation # NoRun
        /\ task' = [task EXCEPT ![t].pc = "waiting", ![t].future = confirmation]
        /\ UNCHANGED <<run, store, executor, history>>

(* Mutant: any answer is taken for an approval. *)
AnsweredYes(t) ==
  /\ task[t].pc = "waiting" /\ LoopFree(t)
  /\ future[task[t].future] \in {"approve", "reject", "abort"}
  /\ confirmation' = NoRun
  /\ Emit(task[t].run, [Mark(My(t), task[t].i, "running")
                          EXCEPT !.state = "running", !.waiting = 0])
  /\ task' = [task EXCEPT ![t].pc = "confirmed", ![t].ok = TRUE]
  /\ UNCHANGED <<current, starting, paused, abort, future, history>>

(* The await returns: _request_confirmation up to its second emit. *)
Answered(t) ==
  /\ task[t].pc = "waiting" /\ LoopFree(t)
  /\ future[task[t].future] \in {"approve", "reject", "abort"}
  /\ confirmation' = NoRun
  /\ LET answer == future[task[t].future]
         heard  == [My(t) EXCEPT !.waiting = 0]
     IN  \/ /\ answer = "abort"
            /\ Emit(task[t].run, [heard EXCEPT !.state = "aborted"])
            /\ GoTo(t, "finishing")
         \/ /\ answer # "abort"
            /\ Emit(task[t].run, [Mark(heard, task[t].i, "running")
                                    EXCEPT !.state = "running"])
            /\ task' = [task EXCEPT ![t].pc = "confirmed",
                                    ![t].ok = (answer = "approve")]
  /\ UNCHANGED <<current, starting, paused, abort, future, history>>

(* Mutant: the answer is not looked at. *)
ConfirmedAnyway(t) == task[t].pc = "confirmed" /\ LoopFree(t) /\ StartTool(t)

Confirmed(t) ==
  /\ task[t].pc = "confirmed" /\ LoopFree(t)
  /\ \/ /\ task[t].ok
        /\ StartTool(t)
     \/ /\ ~task[t].ok
        /\ Emit(task[t].run, [Mark(My(t), task[t].i, "skipped")
                                EXCEPT !.state = "running", !.waiting = 0])
        /\ MoveTo(t, task[t].i + 1)
        /\ UNCHANGED <<executor, history>>

(* tools.execute returns an observation, or raises. *)
ToolReturns(t, success) ==
  LET seen == Mark(My(t), task[t].i, IF success THEN "done" ELSE "failed")
  IN  /\ task[t].pc = "tool" /\ LoopFree(t)
      /\ \/ /\ HasEvaluator /\ (My(t).always \/ ~success)
            /\ Keep(task[t].run, seen)
            /\ GoTo(t, "evaluating")
         \/ /\ ~(HasEvaluator /\ (My(t).always \/ ~success))
            /\ Emit(task[t].run, seen)
            /\ IF success THEN MoveTo(t, task[t].i + 1) ELSE GoTo(t, "failing")
      /\ UNCHANGED <<executor, history>>

(* Mutants: the step is tried again; the loop is not left after a failure. *)
ToolRaisesRetries(t) == /\ task[t].pc = "tool" /\ LoopFree(t)
                        /\ GoTo(t, "head")
                        /\ UNCHANGED <<run, store, executor, history>>

FailingGoesOn(t) == /\ task[t].pc = "failing" /\ LoopFree(t)
                    /\ Emit(task[t].run, [My(t) EXCEPT !.state = "failed"])
                    /\ MoveTo(t, task[t].i + 1)
                    /\ UNCHANGED <<executor, history>>

ToolRaises(t) == /\ task[t].pc = "tool" /\ LoopFree(t)
                 /\ Finish(t, My(t), "failed")

Failing(t) == /\ task[t].pc = "failing" /\ LoopFree(t)
              /\ Finish(t, My(t), "failed")

(* _apply_evaluation: one disjunct per action of the evaluator. *)
Judging(t) == task[t].pc = "evaluating" /\ LoopFree(t)

(* The plan after the evaluation, and the position executed next. *)
Revise(t, status, next) ==
  /\ Emit(task[t].run, status)
  /\ MoveTo(t, next)
  /\ UNCHANGED <<executor, history>>

(* Mutants: the loop is not left, or is left without recording an outcome. *)
EvaluateAbortGoesOn(t) ==
  Judging(t) /\ Revise(t, [My(t) EXCEPT !.state = "failed"], task[t].i + 1)

EvaluateAbortUnrecorded(t) == Judging(t) /\ Finish(t, My(t), My(t).state)

EvaluateAbort(t) == Judging(t) /\ Finish(t, My(t), "failed")

EvaluateContinue(t) == Judging(t) /\ Revise(t, My(t), task[t].i + 1)

(* Mutant: a rewritten step is executed, though it may have been before. *)
EvaluateModifyRetries(t) ==
  /\ Judging(t)
  /\ \E k \in DOMAIN My(t).steps, risk \in Risks :
       Revise(t, [My(t) EXCEPT !.steps[k].risk = risk, !.steps[k].status = "pending"], k)

(* A rewritten call is classified afresh; `dangerous` keeps its value. *)
EvaluateModify(t) ==
  /\ Judging(t)
  /\ \E k \in DOMAIN My(t).steps, risk \in Risks :
       Revise(t, [My(t) EXCEPT !.steps[k].risk = risk], task[t].i + 1)

EvaluateAddStep(t) ==
  Judging(t) /\ \E risk \in Risks, dangerous \in BOOLEAN :
    LET new == [id |-> Len(My(t).steps) + 1, risk |-> risk,
                dangerous |-> dangerous, status |-> "pending"]
    IN  /\ Len(My(t).steps) < MaxSteps
        /\ Revise(t, [My(t) EXCEPT !.steps = InsertAt(@, task[t].i + 1, new)],
                  task[t].i + 1)

(* Mutant: the last step skipped over is not marked. *)
SkipShort(status, from, to) ==
  [status EXCEPT !.steps =
     [k \in DOMAIN @ |-> IF k \in from..(to - 1) THEN [@[k] EXCEPT !.status = "skipped"]
                                                 ELSE @[k]]]

Skip(status, from, to) ==
  [status EXCEPT !.steps =
     [k \in DOMAIN @ |-> IF k \in from..to THEN [@[k] EXCEPT !.status = "skipped"]
                                           ELSE @[k]]]

(* Mutant: the next step is skipped even if there is none. *)
EvaluateSkipPastEnd(t) ==
  Judging(t) /\ Revise(t, Skip(My(t), task[t].i + 1, task[t].i + 1), task[t].i + 2)

(* skip to a named later step, else over the next step if there is one. *)
EvaluateSkip(t) ==
  /\ Judging(t)
  /\ \/ \E k \in DOMAIN My(t).steps :
          /\ k > task[t].i + 1
          /\ Revise(t, Skip(My(t), task[t].i + 1, k - 1), k)
     \/ /\ task[t].i < Len(My(t).steps)
        /\ Revise(t, Skip(My(t), task[t].i + 1, task[t].i + 1), task[t].i + 2)

Advance(t) == /\ task[t].pc = "advance" /\ LoopFree(t)
              /\ GoTo(t, "head")
              /\ UNCHANGED <<run, store, executor, history>>

(* The finally clause resets the executor, whichever run it then holds. *)
Finally(t) ==
  /\ task[t].pc = "finishing" /\ LoopFree(t)
  /\ paused' = FALSE /\ abort' = FALSE
  /\ confirmation' = NoRun
  /\ current' = NoRun
  /\ GoTo(t, "done")
  /\ UNCHANGED <<run, store, starting, future, history>>

-----------------------------------------------------------------------------
Init ==
  /\ run   = [r \in Runs |-> Blank]
  /\ store = [r \in Runs |-> Blank]
  /\ current = NoRun /\ starting = NoRun
  /\ paused = FALSE /\ abort = FALSE
  /\ confirmation = NoRun
  /\ future = [r \in Runs |-> "none"]
  /\ task = [r \in Runs |-> [pc |-> "none", run |-> NoRun, i |-> 1,
                             ok |-> FALSE, future |-> NoRun]]
  /\ approved = {} /\ aborting = {} /\ ran = {} /\ late = {}

(* What the operator, or any caller of the API, does. *)
Handler(r) ==
  \/ StartPlan(r)
  \/ PauseRun(r)
  \/ ResumeRun(r)
  \/ AbortRun(r)
  \/ ConfirmStep(r, "approve")
  \/ ConfirmStep(r, "reject")

(* What the program does by itself. *)
Evaluate(t) ==
  \/ EvaluateContinue(t)
  \/ EvaluateAbort(t)
  \/ EvaluateModify(t)
  \/ EvaluateAddStep(t)
  \/ EvaluateSkip(t)

TaskStep(t) ==
  \/ Begin(t)
  \/ LoopHead(t)
  \/ WakePaused(t)
  \/ Unpaused(t)
  \/ Prepared(t)
  \/ Asking(t)
  \/ Answered(t)
  \/ Confirmed(t)
  \/ ToolReturns(t, TRUE)
  \/ ToolReturns(t, FALSE)
  \/ ToolRaises(t)
  \/ Failing(t)
  \/ Evaluate(t)
  \/ Advance(t)
  \/ Finally(t)

Next == \E r \in Runs : Handler(r) \/ CreateTask(r) \/ TaskStep(r)

Spec == Init /\ [][Next]_vars

(* The loop schedules every ready coroutine; tools and the evaluator return  *)
(* (each has a timeout).  Nobody is obliged to answer, pause or resume.      *)
FairSpec == Spec /\ \A r \in Runs : WF_vars(CreateTask(r)) /\ WF_vars(TaskStep(r))

-----------------------------------------------------------------------------
(* Properties. *)

Live(t)       == task[t].pc \notin {"none", "start", "done"}
StartsTool(t) == task[t].pc # "tool" /\ task'[t].pc = "tool"

(* Types; and the position a coroutine holds is inside the plan or just after *)
(* it, so run.steps[index] never fails.                                      *)
TypeOK ==
  /\ run \in [Runs -> Run] /\ store \in [Runs -> Run]
  /\ current \in Runs \cup {NoRun} /\ starting \in Runs \cup {NoRun}
  /\ paused \in BOOLEAN /\ abort \in BOOLEAN
  /\ confirmation \in Runs \cup {NoRun}
  /\ future \in [Runs -> {"none", "pending", "approve", "reject", "abort"}]
  /\ task \in [Runs -> Task]
  /\ approved \subseteq Runs \X Nat /\ aborting \subseteq Runs
  /\ ran \subseteq Runs \X Nat /\ late \subseteq ran
  /\ \A t \in Runs : Live(t) => task[t].i \in 1..Len(My(t).steps) + 1

(* At most one coroutine is executing a run, and the run it executes is the  *)
(* one the API can still reach: what start_plan's check is for.              *)
SingleExecutor ==
  \A t \in Runs : Live(t) => /\ task[t].run = current
                            /\ \A u \in Runs : Live(u) => u = t

(* A tool call that policy or supervision wants confirmed is in flight only  *)
(* after an operator approved that very step of that very run, and a denied  *)
(* call never is.                                                            *)
NoUnapprovedTool ==
  \A t \in Runs : task[t].pc = "tool" =>
    /\ MyStep(t).risk # "deny"
    /\ Needs(My(t), MyStep(t)) => <<task[t].run, MyStep(t).id>> \in approved

(* A run reported as waiting can be answered: it is the current run and the  *)
(* future its coroutine awaits is the one confirm_step resolves.             *)
WaitingIsAnswerable ==
  \A r \in Runs : run[r].state = "waiting_confirmation" =>
    /\ current = r
    /\ confirmation # NoRun
    /\ \E t \in Runs : /\ task[t].run = r
                       /\ \/ task[t].pc = "asking"
                          \/ task[t].pc = "waiting" /\ task[t].future = confirmation

(* A completed run left no step behind, whatever the evaluator inserted,     *)
(* rewrote or skipped on the way.                                            *)
CompletedLeavesNothing ==
  \A r \in Runs : run[r].state = "completed" =>
    \A k \in DOMAIN run[r].steps : run[r].steps[k].status \in StepTerminal

(* The snapshot on disk lags the run only while the evaluator is being asked *)
(* (or no other coroutine can look): a crash elsewhere loses nothing.        *)
StoreIsCurrent ==
  \A r \in Runs : run[r] # store[r] =>
    \E t \in Runs : task[t].run = r /\ task[t].pc \in {"evaluating", "head"}

(* No tool call is started while the operator has the run paused. *)
PauseHoldsTools ==
  [][\A t \in Runs : StartsTool(t) => ~paused]_vars

(* Once an abort is accepted, at most one more tool call of the run is        *)
(* started: the coroutine looks at the event before each step.               *)
AbortIsPrompt == \A a, b \in late : a[1] = b[1] => a = b

(* And that one only for a step the operator had approved: approve, then     *)
(* abort before the coroutine is scheduled, and the approved step still runs. *)
AbortHoldsTools == late \subseteq approved /\ AbortIsPrompt

(* No step of a run is executed twice. *)
StepOnce ==
  [][\A t \in Runs : StartsTool(t) => <<task[t].run, MyStep(t).id>> \notin ran]_vars

(* What callers may do to keep runs apart although a client is connected:     *)
(* start one when get_current_run() is None, which is later than when         *)
(* has_active_run is false and start_plan would accept it.                   *)
Patient        == current # NoRun => current' \in {current, NoRun}
PatientCallers == [][Patient]_vars

(* What a run ended as, and the fate of each of its steps, is never revised. *)
OutcomeIsFinal ==
  [][\A r \in Runs : run[r].state \in RunTerminal => run'[r] = run[r]]_vars

(* An accepted abort ends the run, whatever it was doing. *)
AbortEnds ==
  \A r \in Runs : r \in aborting ~> run[r].state \in RunTerminal

(* A run that is not kept paused or waiting for an answer ends. *)
RunEnds ==
  \A r \in Runs : run[r].state = "running" ~>
    run[r].state \in RunTerminal \cup {"paused", "waiting_confirmation"}
=============================================================================
