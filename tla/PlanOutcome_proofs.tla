---------------------------- MODULE PlanOutcome_proofs ----------------------------
(* What a plan run leaves behind: its snapshot in the run store; and, when no  *)
(* run is started before the last one is out of the executor, the order in    *)
(* which its steps are taken and what it ends as.                             *)
EXTENDS PlanSafety_proofs

-----------------------------------------------------------------------------
(* The snapshot.  StoreIsCurrent needs to know besides that a coroutine about *)
(* to be created is not the one a difference is excused by.                   *)
StoreInv ==
  /\ TypeInv
  /\ StoreIsCurrent
  /\ \A r \in Runs : run[r].state = "absent" \/ starting = r => task[r].pc = "none"
  /\ starting # NoRun => run[starting].state # "absent"

Lags == {"evaluating", "head"}

OthersKept(r) == \A q \in Runs : q # r => run'[q] = run[q] /\ store'[q] = store[q]

(* How a step of a coroutine treats the snapshots: it writes none; it emits;  *)
(* or it leaves its own behind, and says so by where it is.                   *)
Saves(t) ==
  /\ Busy(t)
  /\ \A u \in Runs \ {t} : task'[u] = task[u]
  /\ Busy(t)' \/ task'[t].pc = "done"
  /\ starting' = starting
  /\ \/ UNCHANGED <<run, store>> /\ task[t].pc \notin Lags
     \/ /\ Live(t) /\ Live(t)' /\ task'[t].run = task[t].run
        /\ OthersKept(task[t].run)
        /\ \/ run'[task[t].run] = store'[task[t].run]
           \/ store' = store /\ task'[t].pc \in Lags

LEMMA EmitSaves ==
  ASSUME TypeInv, NEW r \in Runs, NEW s, Emit(r, s)
  PROVE  OthersKept(r) /\ run'[r] = store'[r]
BY DEF TypeInv, TypeOK, Emit, OthersKept

LEMMA KeepSaves ==
  ASSUME TypeInv, NEW r \in Runs, NEW s, Keep(r, s)
  PROVE  OthersKept(r) /\ store' = store
BY DEF TypeInv, TypeOK, Keep, OthersKept

(* An emit that moves to another await; the same with the position.           *)
LEMMA EmitGoTo ==
  ASSUME TypeInv, NEW t \in Runs, Live(t), NEW s, Emit(task[t].run, s),
         NEW label \in Labels \ {"none", "start", "done"}, starting' = starting,
         \/ GoTo(t, label)
         \/ \E k : MoveTo(t, k)
         \/ \E ok : task' = [task EXCEPT ![t].pc = label, ![t].ok = ok]
  PROVE  Saves(t)
<1>1. task[t].run \in Runs /\ task \in [Runs -> Task]
  BY LiveFacts DEF TypeInv, TypeOK
<1>2. OthersKept(task[t].run) /\ run'[task[t].run] = store'[task[t].run]
  BY <1>1, EmitSaves
<1>3. /\ \A u \in Runs \ {t} : task'[u] = task[u]
      /\ task'[t].run = task[t].run /\ task'[t].pc \in {label, "advance"}
  BY <1>1 DEF GoTo, MoveTo, Task
<1>4. Live(t)' /\ Busy(t) /\ Busy(t)'
  BY <1>3 DEF Live, Busy
<1> QED
  BY <1>2, <1>3, <1>4 DEF Saves

LEMMA FinishSaves ==
  ASSUME TypeInv, NEW t \in Runs, Live(t), NEW s, NEW outcome, Finish(t, s, outcome)
  PROVE  Saves(t)
<1>1. /\ Emit(task[t].run, [s EXCEPT !.state = outcome]) /\ GoTo(t, "finishing")
      /\ starting' = starting
  BY DEF Finish, executor
<1>2. "finishing" \in Labels \ {"none", "start", "done"}
  BY DEF Labels, EmitLabels
<1> QED
  BY <1>1, <1>2, EmitGoTo

LEMMA DispatchSaves ==
  ASSUME TypeInv, NEW t \in Runs, Live(t), Dispatch(t)
  PROVE  Saves(t)
<1>1. task[t].run \in Runs /\ task \in [Runs -> Task] /\ starting' = starting
  BY LiveFacts DEF TypeInv, TypeOK, Dispatch, executor
<1> DEFINE here == [My(t) EXCEPT !.at = task[t].i]
<1>2. CASE Keep(task[t].run, here) /\ task' = [task EXCEPT ![t].pc = "head", ![t].i = @ + 1]
  <2>1. OthersKept(task[t].run) /\ store' = store
    BY <1>1, <1>2, KeepSaves
  <2>2. /\ \A u \in Runs \ {t} : task'[u] = task[u]
        /\ task'[t].run = task[t].run /\ task'[t].pc = "head"
    BY <1>1, <1>2 DEF Task
  <2> QED
    BY <1>1, <2>1, <2>2 DEF Saves, Busy, Live, Lags
<1>3. CASE Emit(task[t].run, [Mark(here, task[t].i, "running")
                                EXCEPT !.state = "running", !.waiting = 0])
           /\ GoTo(t, "prepared")
  <2>1. "prepared" \in Labels \ {"none", "start", "done"}
    BY DEF Labels, EmitLabels
  <2> QED
    BY <1>1, <1>3, <2>1, EmitGoTo
<1> QED
  BY <1>2, <1>3 DEF Dispatch

LEMMA PauseGateSaves ==
  ASSUME TypeInv, NEW t \in Runs, Live(t), PauseGate(t)
  PROVE  Saves(t)
<1>1. CASE Finish(t, My(t), "aborted")
  BY <1>1, FinishSaves
<1>2. ASSUME NEW state, NEW label \in {"paused", "unpaused"},
             Emit(task[t].run, [My(t) EXCEPT !.state = state]), GoTo(t, label),
             UNCHANGED <<executor, history>>
      PROVE  Saves(t)
  <2>1. label \in Labels \ {"none", "start", "done"} /\ starting' = starting
    BY <1>2 DEF Labels, EmitLabels, executor
  <2> QED
    BY <1>2, <2>1, EmitGoTo
<1> QED
  BY <1>1, <1>2, DispatchSaves DEF PauseGate

(* A step that writes no run, from an await where the snapshot was current.   *)
LEMMA SilentSaves ==
  ASSUME TypeInv, NEW t \in Runs, Busy(t), task[t].pc \notin Lags,
         UNCHANGED <<run, store, starting>>,
         \A u \in Runs \ {t} : task'[u] = task[u], task'[t].pc # "none"
  PROVE  Saves(t)
BY DEF Saves, Busy

LEMMA StartToolSaves ==
  ASSUME TypeInv, NEW t \in Runs, Busy(t), task[t].pc \notin Lags, StartTool(t)
  PROVE  Saves(t)
<1>1. UNCHANGED <<run, store, starting>> /\ GoTo(t, "tool")
  BY DEF StartTool, executor
<1>2. (\A u \in Runs \ {t} : task'[u] = task[u]) /\ task'[t].pc = "tool"
  BY <1>1, GoToCalm
<1> QED
  BY <1>1, <1>2, SilentSaves

LEMMA EvaluateSaves ==
  ASSUME TypeInv, NEW t \in Runs, Evaluate(t)
  PROVE  Saves(t)
<1>1. Judging(t)
  BY DEF Evaluate, EvaluateContinue, EvaluateAbort, EvaluateModify, EvaluateAddStep,
         EvaluateSkip
<1>2. Live(t)
  BY <1>1 DEF Judging, Live
<1>3. ASSUME NEW s, NEW k, Revise(t, s, k) PROVE Saves(t)
  <2>1. Emit(task[t].run, s) /\ MoveTo(t, k) /\ starting' = starting
    BY <1>3 DEF Revise, executor
  <2>2. "advance" \in Labels \ {"none", "start", "done"}
    BY DEF Labels, EmitLabels
  <2> QED
    BY <1>2, <2>1, <2>2, EmitGoTo
<1>4. CASE EvaluateAbort(t)
  BY <1>2, <1>4, FinishSaves DEF EvaluateAbort
<1>5. CASE EvaluateContinue(t)
  BY <1>3, <1>5 DEF EvaluateContinue
<1>6. CASE EvaluateModify(t)
  BY <1>3, <1>6 DEF EvaluateModify
<1>7. CASE EvaluateAddStep(t)
  BY <1>3, <1>7 DEF EvaluateAddStep
<1>8. CASE EvaluateSkip(t)
  BY <1>3, <1>8 DEF EvaluateSkip
<1> QED
  BY <1>4, <1>5, <1>6, <1>7, <1>8 DEF Evaluate

LEMMA AskAnswerSaves ==
  ASSUME TypeInv, NEW t \in Runs, Asking(t) \/ Answered(t)
  PROVE  Saves(t)
<1>1. /\ Live(t) /\ Busy(t) /\ task[t].pc \notin Lags /\ task \in [Runs -> Task]
  BY DEF Asking, Answered, Live, Busy, Lags, TypeInv, TypeOK
<1>2. CASE Asking(t)
  <2>1. CASE Finish(t, My(t), "failed")
    BY <1>1, <2>1, FinishSaves
  <2>2. CASE /\ task' = [task EXCEPT ![t].pc = "waiting", ![t].future = confirmation]
             /\ UNCHANGED <<run, store, executor, history>>
    <3>1. (\A u \in Runs \ {t} : task'[u] = task[u]) /\ task'[t].pc = "waiting"
      BY <1>1, <2>2 DEF Task
    <3> QED
      BY <1>1, <2>2, <3>1, SilentSaves DEF executor
  <2> QED
    BY <1>2, <2>1, <2>2 DEF Asking
<1>3. CASE Answered(t)
  <2>1. starting' = starting
    BY <1>3 DEF Answered
  <2>2. {"finishing", "confirmed"} \subseteq Labels \ {"none", "start", "done"}
    BY DEF Labels, EmitLabels
  <2>3. \/ /\ Emit(task[t].run, [[My(t) EXCEPT !.waiting = 0] EXCEPT !.state = "aborted"])
           /\ GoTo(t, "finishing")
        \/ /\ Emit(task[t].run, [Mark([My(t) EXCEPT !.waiting = 0], task[t].i, "running")
                                   EXCEPT !.state = "running"])
           /\ \E ok : task' = [task EXCEPT ![t].pc = "confirmed", ![t].ok = ok]
    BY <1>3 DEF Answered
  <2>4. CASE /\ Emit(task[t].run, [[My(t) EXCEPT !.waiting = 0] EXCEPT !.state = "aborted"])
             /\ GoTo(t, "finishing")
    BY <1>1, <2>1, <2>2, <2>4, EmitGoTo
  <2>5. CASE /\ Emit(task[t].run, [Mark([My(t) EXCEPT !.waiting = 0], task[t].i, "running")
                                     EXCEPT !.state = "running"])
             /\ \E ok : task' = [task EXCEPT ![t].pc = "confirmed", ![t].ok = ok]
    BY <1>1, <2>1, <2>2, <2>5, EmitGoTo
  <2> QED
    BY <2>3, <2>4, <2>5
<1> QED
  BY <1>2, <1>3

LEMMA PreparedSaves ==
  ASSUME TypeInv, NEW t \in Runs, Prepared(t)
  PROVE  Saves(t)
<1>1. Live(t) /\ Busy(t) /\ task[t].pc \notin Lags
  BY DEF Prepared, Live, Busy, Lags
<1>2. CASE Finish(t, Mark(My(t), task[t].i, "failed"), "failed")
  BY <1>1, <1>2, FinishSaves
<1>3. CASE StartTool(t)
  BY <1>1, <1>3, StartToolSaves
<1>4. CASE /\ Emit(task[t].run, [Mark(My(t), task[t].i, "waiting_confirmation")
                                   EXCEPT !.state = "waiting_confirmation",
                                          !.waiting = MyStep(t).id])
           /\ GoTo(t, "asking")
           /\ UNCHANGED <<current, starting, paused, abort, history>>
  <2>1. "asking" \in Labels \ {"none", "start", "done"} /\ starting' = starting
    BY <1>4 DEF Labels, EmitLabels
  <2> QED
    BY <1>1, <1>4, <2>1, EmitGoTo
<1> QED
  BY <1>2, <1>3, <1>4 DEF Prepared

LEMMA ToolReturnsSaves ==
  ASSUME TypeInv, NEW t \in Runs, NEW success \in BOOLEAN, ToolReturns(t, success)
  PROVE  Saves(t)
<1> DEFINE seen == Mark(My(t), task[t].i, IF success THEN "done" ELSE "failed")
<1>1. /\ Live(t) /\ Busy(t) /\ task[t].run \in Runs /\ starting' = starting
      /\ {"advance", "failing"} \subseteq Labels \ {"none", "start", "done"}
  BY LiveFacts DEF ToolReturns, Live, Busy, Lags, executor, Labels, EmitLabels
<1>2. CASE Keep(task[t].run, seen) /\ GoTo(t, "evaluating")
  <2>1. OthersKept(task[t].run) /\ store' = store
    BY <1>1, <1>2, KeepSaves
  <2>2. /\ \A u \in Runs \ {t} : task'[u] = task[u]
        /\ task'[t].run = task[t].run /\ task'[t].pc = "evaluating"
    BY <1>2, GoToCalm
  <2> QED
    BY <1>1, <2>1, <2>2 DEF Saves, Busy, Live, Lags
<1>3. CASE Emit(task[t].run, seen) /\ (MoveTo(t, task[t].i + 1) \/ GoTo(t, "failing"))
  BY <1>1, <1>3, EmitGoTo
<1> QED
  BY <1>2, <1>3 DEF ToolReturns

LEMMA ConfirmedSaves ==
  ASSUME TypeInv, NEW t \in Runs, Confirmed(t)
  PROVE  Saves(t)
<1>1. Live(t) /\ Busy(t) /\ task[t].pc \notin Lags
  BY DEF Confirmed, Live, Busy, Lags
<1>2. CASE StartTool(t)
  BY <1>1, <1>2, StartToolSaves
<1>3. CASE /\ Emit(task[t].run, [Mark(My(t), task[t].i, "skipped")
                                   EXCEPT !.state = "running", !.waiting = 0])
           /\ MoveTo(t, task[t].i + 1)
           /\ UNCHANGED <<executor, history>>
  <2>1. "advance" \in Labels \ {"none", "start", "done"} /\ starting' = starting
    BY <1>3 DEF Labels, EmitLabels, executor
  <2> QED
    BY <1>1, <1>3, <2>1, EmitGoTo
<1> QED
  BY <1>2, <1>3 DEF Confirmed

LEMMA TaskStepSaves ==
  ASSUME TypeInv, NEW t \in Runs, TaskStep(t)
  PROVE  Saves(t)
<1>0. task \in [Runs -> Task]
  BY DEF TypeInv, TypeOK
<1>1. CASE Begin(t)
  <2>1. /\ task[t].pc = "start" /\ UNCHANGED <<run, store, starting>>
        /\ \A u \in Runs \ {t} : task'[u] = task[u]
        /\ task'[t].pc \in {"done", "head"}
    BY <1>0, <1>1 DEF Begin, executor, Task
  <2> QED
    BY <2>1, SilentSaves DEF Busy, Lags
<1>2. CASE LoopHead(t) \/ WakePaused(t) \/ Unpaused(t)
  <2>1. Live(t)
    BY <1>2 DEF LoopHead, WakePaused, Unpaused, Live
  <2> QED
    BY <1>2, <2>1, FinishSaves, PauseGateSaves, DispatchSaves
       DEF LoopHead, WakePaused, Unpaused
<1>3. CASE ToolRaises(t) \/ Failing(t)
  <2>1. Live(t) /\ Finish(t, My(t), "failed")
    BY <1>3 DEF ToolRaises, Failing, Live
  <2> QED
    BY <2>1, FinishSaves
<1>4. CASE Advance(t) \/ Finally(t)
  <2>1. /\ task[t].pc \in {"advance", "finishing"} /\ UNCHANGED <<run, store, starting>>
        /\ GoTo(t, "head") \/ GoTo(t, "done")
    BY <1>4 DEF Advance, Finally, executor
  <2>2. (\A u \in Runs \ {t} : task'[u] = task[u]) /\ task'[t].pc \in {"head", "done"}
    BY <2>1, GoToCalm
  <2> QED
    BY <2>1, <2>2, SilentSaves DEF Busy, Lags
<1>5. CASE ToolReturns(t, TRUE) \/ ToolReturns(t, FALSE)
  BY <1>5, ToolReturnsSaves
<1> QED
  BY <1>1, <1>2, <1>3, <1>4, <1>5, PreparedSaves, AskAnswerSaves, ConfirmedSaves,
     EvaluateSaves DEF TaskStep

LEMMA StoreTaskStep ==
  ASSUME StoreInv, TypeInv', NEW t \in Runs, TaskStep(t)
  PROVE  StoreInv'
<1>1. Saves(t)
  BY TaskStepSaves DEF StoreInv
<1>2. \A r \in Runs : run'[r].state = "absent" => run[r].state = "absent"
  BY <1>1 DEF Saves, OthersKept, TypeInv, Placed, My
<1>3. StoreIsCurrent'
  <2> SUFFICES ASSUME NEW r \in Runs, run'[r] # store'[r]
               PROVE  \E u \in Runs : task'[u].run = r /\ task'[u].pc \in Lags
    BY DEF StoreIsCurrent, Lags
  <2>1. CASE Live(t)' /\ task'[t].run = r /\ task'[t].pc \in Lags
    BY <2>1
  <2>2. CASE ~(Live(t)' /\ task'[t].run = r /\ task'[t].pc \in Lags)
    <3>1. run[r] # store[r] /\ (task[t].run = r => task[t].pc \notin Lags)
      BY <1>1, <2>2 DEF Saves, OthersKept
    <3>2. PICK u \in Runs : task[u].run = r /\ task[u].pc \in Lags
      BY <3>1 DEF StoreInv, StoreIsCurrent, Lags
    <3>3. task'[u] = task[u]
      BY <1>1, <3>1, <3>2 DEF Saves
    <3> QED
      BY <3>2, <3>3
  <2> QED
    BY <2>1, <2>2
<1>4. \A r \in Runs : run'[r].state = "absent" \/ starting' = r => task'[r].pc = "none"
  <2> SUFFICES ASSUME NEW r \in Runs, run'[r].state = "absent" \/ starting' = r
               PROVE  task'[r].pc = "none"
    OBVIOUS
  <2>1. task[r].pc = "none"
    BY <1>1, <1>2 DEF Saves, StoreInv
  <2> QED
    BY <1>1, <2>1 DEF Saves, Busy
<1>5. starting' # NoRun => run'[starting'].state # "absent"
  BY <1>1, <1>2 DEF Saves, StoreInv, TypeInv, TypeOK
<1> QED
  BY <1>3, <1>4, <1>5 DEF StoreInv

(* A handler that saves what it writes, to a run it may be about to start.    *)
LEMMA EmitStore ==
  ASSUME StoreInv, TypeInv', NEW r \in Runs, NEW s \in Run, s.state # "absent",
         Emit(r, s), task' = task,
         \/ starting' = starting
         \/ starting' = r /\ run[r].state = "absent"
  PROVE  StoreInv'
<1>1. /\ TypeInv /\ run \in [Runs -> Run] /\ r # NoRun /\ starting \in Runs \cup {NoRun}
  BY ConstantsOK DEF StoreInv, TypeInv, TypeOK
<1>2. OthersKept(r) /\ run'[r] = store'[r] /\ run'[r] = s
  BY <1>1, EmitSaves DEF Emit
<1>3. StoreIsCurrent'
  <2> SUFFICES ASSUME NEW q \in Runs, run'[q] # store'[q]
               PROVE  \E u \in Runs : task[u].run = q /\ task[u].pc \in Lags
    BY DEF StoreIsCurrent, Lags
  <2>1. run[q] # store[q]
    BY <1>2 DEF OthersKept
  <2> QED
    BY <2>1 DEF StoreInv, StoreIsCurrent, Lags
<1>4. \A q \in Runs : run'[q].state = "absent" => run[q].state = "absent"
  BY <1>2 DEF OthersKept
<1> QED
  BY <1>1, <1>2, <1>3, <1>4 DEF StoreInv

LEMMA LaunchStore ==
  ASSUME StoreInv, TypeInv', NEW r \in Runs, NEW s \in Run, s.state # "absent", Launch(r, s)
  PROVE  StoreInv'
BY EmitStore DEF Launch

LEMMA StoreHandler ==
  ASSUME StoreInv, TypeInv', NEW r \in Runs, Handler(r) \/ CreateTask(r)
  PROVE  StoreInv'
<1>0. /\ TypeInv /\ run \in [Runs -> Run] /\ task \in [Runs -> Task] /\ r # NoRun
      /\ starting \in Runs \cup {NoRun}
  BY ConstantsOK DEF StoreInv, TypeInv, TypeOK
<1>1. CASE StartPlan(r)
  BY <1>1, LaunchStore, FreshType DEF StartPlan
<1>2. CASE PauseRun(r) \/ ResumeRun(r)
  <2>1. PICK state \in {"running", "paused"} : Emit(r, [run[r] EXCEPT !.state = state])
    BY <1>2 DEF PauseRun, ResumeRun
  <2> DEFINE s == [run[r] EXCEPT !.state = state]
  <2>2. s \in Run /\ s.state # "absent" /\ Emit(r, s)
    BY <1>0, <2>1 DEF Run, RunStates
  <2>3. UNCHANGED <<task, starting>>
    BY <1>2 DEF PauseRun, ResumeRun
  <2> HIDE DEF s
  <2> QED
    BY <2>2, <2>3, EmitStore
<1>3. CASE UNCHANGED <<run, store, task, starting>>
  BY <1>3 DEF StoreInv, StoreIsCurrent
<1>4. CASE CreateTask(r)
  <2>1. /\ starting = r /\ starting' = NoRun /\ UNCHANGED <<run, store>>
        /\ task' = [task EXCEPT ![r].pc = "start"]
    BY <1>4 DEF CreateTask
  <2>2. /\ \A u \in Runs \ {r} : task'[u] = task[u]
        /\ task[r].pc = "none" /\ run[r].state # "absent"
    BY <1>0, <2>1 DEF StoreInv
  <2>3. StoreIsCurrent'
    <3> SUFFICES ASSUME NEW q \in Runs, run[q] # store[q]
                 PROVE  \E u \in Runs : task'[u].run = q /\ task'[u].pc \in Lags
      BY <2>1 DEF StoreIsCurrent, Lags
    <3>1. PICK u \in Runs : task[u].run = q /\ task[u].pc \in Lags
      BY DEF StoreInv, StoreIsCurrent, Lags
    <3>2. u # r
      BY <2>2, <3>1 DEF Lags
    <3> QED
      BY <2>2, <3>1, <3>2
  <2> QED
    BY <1>0, <2>1, <2>2, <2>3, ConstantsOK DEF StoreInv
<1>5. \/ StartPlan(r) \/ PauseRun(r) \/ ResumeRun(r) \/ CreateTask(r)
      \/ UNCHANGED <<run, store, task, starting>>
  BY DEF Handler, AbortRun, ConfirmStep
<1> QED
  BY <1>1, <1>2, <1>3, <1>4, <1>5

LEMMA StoreInit == ASSUME Init PROVE StoreInv
BY TypeInit DEF Init, StoreInv, StoreIsCurrent

LEMMA StoreStep ==
  ASSUME StoreInv, [Next]_vars
  PROVE  StoreInv'
<1>1. TypeInv'
  BY TypeStep DEF StoreInv
<1>2. CASE UNCHANGED vars
  BY <1>1, <1>2 DEF StoreInv, StoreIsCurrent, vars, executor
<1> QED
  BY <1>1, <1>2, StoreHandler, StoreTaskStep DEF Next

(* In every deployment, a run in memory differs from its snapshot only while  *)
(* a coroutine of it stands between an assignment and the emit that follows:  *)
(* a server that dies at any other await has lost nothing of it.              *)
THEOREM StoreHolds == Spec => []StoreIsCurrent
<1>1. Init => StoreInv
  BY StoreInit
<1>2. StoreInv /\ [Next]_vars => StoreInv'
  BY StoreStep
<1>3. StoreInv => StoreIsCurrent
  BY DEF StoreInv
<1> QED
  BY <1>1, <1>2, <1>3, PTL DEF Spec

-----------------------------------------------------------------------------
(* The order of the steps: every step before the one a coroutine stands at    *)
(* has its outcome, no step after it had its tool call, and when no client    *)
(* can suspend an emit nothing can pause the run between the look at the      *)
(* pause and the call.                                                        *)

Behind(s, i) == \A k \in DOMAIN s.steps : k < i => s.steps[k].status \in StepTerminal

AllBehind(s) == \A k \in DOMAIN s.steps : s.steps[k].status \in StepTerminal

(* `called` is whether the step at i itself may have had its call. *)
Ahead(r, s, i, called) ==
  \A k \in DOMAIN s.steps : <<r, s.steps[k].id>> \in ran => k < i \/ (called /\ k = i)

(* Steps keep their identifiers, and what ran of run r are steps of it. *)
Numbered(r, s) ==
  /\ \A k \in DOMAIN s.steps : s.steps[k].id \in 1..Len(s.steps)
  /\ \A j, k \in DOMAIN s.steps : s.steps[j].id = s.steps[k].id => j = k
  /\ \A n \in Nat : <<r, n>> \in ran => n \in 1..Len(s.steps)

Unstarted(r) == \A n \in Nat : <<r, n>> \notin ran

Called == {"tool", "evaluating", "failing", "finishing"}
Gated  == {"unpaused", "prepared", "asking", "waiting", "confirmed"}

Course(t) ==
  /\ Behind(My(t), task[t].i)
  /\ task[t].pc = "evaluating" => MyStep(t).status \in StepTerminal
  /\ Ahead(task[t].run, My(t), task[t].i, task[t].pc \in Called)
  /\ Unwatched /\ task[t].pc \in Gated => ~paused

CourseInv ==
  /\ StopInv
  /\ CompletedLeavesNothing
  /\ \A r \in Runs : Numbered(r, run[r])
  /\ \A r \in Runs : run[r].state = "absent" \/ starting = r => Unstarted(r)
  /\ \A t \in Runs : task[t].pc = "start" => Unstarted(current)
  /\ \A t \in Runs : Live(t) => Course(t)

(* What a step of a live coroutine has to show: what it makes of its run, and *)
(* where it then stands.                                                      *)
Follows(t) ==
  /\ current \in Runs /\ run' \in [Runs -> Run]
  /\ task'[t].pc # "start" /\ (task'[t].pc # "done" => task'[t].run = current)
  /\ run'[current].state = "completed" => AllBehind(run'[current])
  /\ \A r \in Runs : r = current => Numbered(r, run[r])'
  /\ ran' \subseteq ran \cup ({current} \X Nat)
  /\ run'[current].state # "absent"
  /\ Live(t)' => Course(t)'

LEMMA FollowsCourse ==
  ASSUME CourseInv, StopInv', NEW t \in Runs, Live(t), Shape(t), Follows(t)
  PROVE  CourseInv'
<1>0. /\ SafeInv /\ task[t].run = current /\ starting = NoRun /\ starting' = NoRun
      /\ \A u \in Runs \ {t} : task'[u] = task[u] /\ ~Busy(u)
      /\ \A r \in Runs : r # current => run'[r] = run[r]
      /\ \A r \in Runs, n \in Nat : r # current => (<<r, n>> \in ran' => <<r, n>> \in ran)
  BY LiveSafe DEF CourseInv, StopInv, SafeInv, Alone, Shape, Follows
<1>1. CompletedLeavesNothing'
  BY <1>0 DEF CourseInv, CompletedLeavesNothing, Follows, AllBehind
<1>2. \A r \in Runs : Numbered(r, run[r])'
  <2> SUFFICES ASSUME NEW r \in Runs, r # current PROVE Numbered(r, run[r])'
    BY DEF Follows, Numbered
  <2>1. Numbered(r, run[r]) /\ run'[r] = run[r]
    BY <1>0 DEF CourseInv
  <2> QED
    BY <1>0, <2>1 DEF Numbered
<1>3. \A r \in Runs : run'[r].state = "absent" \/ starting' = r => Unstarted(r)'
  <2> SUFFICES ASSUME NEW r \in Runs, run'[r].state = "absent" PROVE Unstarted(r)'
    BY <1>0, ConstantsOK
  <2>1. r # current /\ Unstarted(r)
    BY <1>0 DEF Follows, CourseInv
  <2> QED
    BY <1>0, <2>1 DEF Unstarted
<1>4. \A u \in Runs : task'[u].pc # "start"
  BY <1>0 DEF Follows, Busy
<1>5. \A u \in Runs : Live(u)' => Course(u)'
  <2> SUFFICES ASSUME NEW u \in Runs, Live(u)', u # t PROVE FALSE
    BY DEF Follows
  <2> QED
    BY <1>0 DEF Live, Busy
<1> QED
  BY <1>1, <1>2, <1>3, <1>4, <1>5 DEF CourseInv

(* What CourseInv says where a coroutine is. *)
LEMMA CourseFacts ==
  ASSUME CourseInv, NEW t \in Runs, Live(t)
  PROVE  /\ SafeInv /\ TypeInv /\ Busy(t) /\ Doing(t) /\ Course(t)
         /\ task[t].run = current /\ current \in Runs /\ current # NoRun
         /\ My(t) = run[current] /\ My(t) \in Run /\ My(t).state # "absent"
         /\ My(t).steps \in Seq(Step) /\ Len(My(t).steps) \in Nat
         /\ DOMAIN My(t).steps = 1..Len(My(t).steps)
         /\ task[t].i \in 1..Len(My(t).steps) + 1
         /\ Numbered(current, My(t))
         /\ run \in [Runs -> Run] /\ task \in [Runs -> Task]
<1>1. SafeInv /\ TypeInv /\ Course(t) /\ TypeOK
  BY DEF CourseInv, StopInv, SafeInv, TypeInv
<1>2. /\ Busy(t) /\ Doing(t) /\ task[t].run = current /\ current \in Runs
      /\ My(t) = run[current]
  BY <1>1, LiveSafe
<1>3. /\ My(t) \in Run /\ My(t).state # "absent" /\ My(t).steps \in Seq(Step)
      /\ Len(My(t).steps) \in Nat /\ task[t].i \in 1..Len(My(t).steps) + 1
  BY <1>1, LiveFacts
<1>4. DOMAIN My(t).steps = 1..Len(My(t).steps)
  BY <1>3, LenProperties
<1>5. Numbered(current, My(t))
  BY <1>2 DEF CourseInv
<1> QED
  BY <1>1, <1>2, <1>3, <1>4, <1>5, ConstantsOK DEF TypeOK

(* The common case: the steps keep their identifiers and nothing is called.   *)
SameIds(s, old) ==
  /\ Len(s.steps) = Len(old.steps)
  /\ \A k \in 1..Len(s.steps) : s.steps[k].id = old.steps[k].id

LEMMA SameFollows ==
  ASSUME CourseInv, NEW t \in Runs, Live(t), NEW s \in Run, TypeInv',
         s.state # "absent", SameIds(s, My(t)), run'[current] = s, ran' = ran,
         task'[t].run = current, task'[t].pc \notin {"start", "done"},
         task'[t].i \in Int, task'[t].i >= task[t].i, Behind(s, task'[t].i),
         task'[t].pc = "evaluating" =>
           task'[t].i \in 1..Len(s.steps) /\ s.steps[task'[t].i].status \in StepTerminal,
         task[t].pc \in Called => task'[t].i > task[t].i \/ task'[t].pc \in Called,
         Unwatched /\ task'[t].pc \in Gated => ~paused',
         s.state = "completed" => AllBehind(s)
  PROVE  Follows(t)
<1>1. /\ current \in Runs /\ Course(t) /\ task[t].run = current /\ Numbered(current, My(t))
      /\ DOMAIN My(t).steps = 1..Len(My(t).steps) /\ task[t].i \in Int
  BY CourseFacts
<1>2. s.steps \in Seq(Step) /\ DOMAIN s.steps = 1..Len(s.steps) /\ Len(s.steps) \in Nat
  BY LenProperties DEF Run
<1>3. My(t)' = s /\ run' \in [Runs -> Run]
  BY <1>1 DEF My, TypeInv, TypeOK
<1>4. \A r \in Runs : r = current => Numbered(r, run[r])'
  <2>1. \A k \in 1..Len(s.steps) : s.steps[k].id \in 1..Len(s.steps)
    BY <1>1 DEF Numbered, SameIds
  <2>2. \A j, k \in 1..Len(s.steps) : s.steps[j].id = s.steps[k].id => j = k
    BY <1>1 DEF Numbered, SameIds
  <2>3. \A n \in Nat : <<current, n>> \in ran => n \in 1..Len(s.steps)
    BY <1>1 DEF Numbered, SameIds
  <2> QED
    BY <1>2, <2>1, <2>2, <2>3 DEF Numbered
<1>5. Ahead(task[t].run, My(t), task[t].i, task[t].pc \in Called)'
  <2> SUFFICES ASSUME NEW k \in 1..Len(s.steps), <<current, s.steps[k].id>> \in ran
               PROVE  k < task'[t].i \/ (task'[t].pc \in Called /\ k = task'[t].i)
    BY <1>2, <1>3 DEF Ahead
  <2>1. k < task[t].i \/ (task[t].pc \in Called /\ k = task[t].i)
    BY <1>1 DEF Course, Ahead, SameIds
  <2> QED
    BY <1>1, <2>1
<1>6. Course(t)'
  BY <1>3, <1>5 DEF Course, MyStep
<1> QED
  BY <1>1, <1>3, <1>4, <1>6 DEF Follows

(* What the operators on a run do to the order of its steps. *)
LEMMA SameSteps ==
  ASSUME NEW s \in Run, NEW old \in Run, s.steps = old.steps
  PROVE  SameIds(s, old) /\ \A i : Behind(old, i) => Behind(s, i)
BY DEF SameIds, Behind

LEMMA MarkCourse ==
  ASSUME NEW old \in Run, NEW k \in 1..Len(old.steps), NEW status \in StepStates,
         NEW s \in Run, s.steps = Mark(old, k, status).steps
  PROVE  /\ SameIds(s, old)
         /\ Behind(old, k) => Behind(s, k)
         /\ Behind(old, k) /\ status \in StepTerminal => Behind(s, k + 1)
         /\ s.steps[k].status = status
<1> DEFINE step == [old.steps[k] EXCEPT !.status = status]
           new  == [old.steps EXCEPT ![k] = step]
<1>1. /\ old.steps \in Seq(Step) /\ old.steps[k] \in Step /\ Len(old.steps) \in Nat
      /\ DOMAIN old.steps = 1..Len(old.steps)
  BY LenProperties, ElementOfSeq DEF Run
<1>2. step \in Step /\ step.id = old.steps[k].id /\ step.status = status
  BY <1>1 DEF Step
<1>3. s.steps = new
  BY <1>1 DEF Mark, Run
<1> HIDE DEF step
<1>4. /\ Len(s.steps) = Len(old.steps) /\ DOMAIN s.steps = 1..Len(old.steps)
      /\ s.steps[k] = step
      /\ \A j \in 1..Len(old.steps) : j # k => s.steps[j] = old.steps[j]
  BY <1>1, <1>2, <1>3
<1>5. SameIds(s, old)
  BY <1>2, <1>4 DEF SameIds
<1>6. Behind(old, k) => Behind(s, k)
  BY <1>1, <1>4 DEF Behind
<1>7. Behind(old, k) /\ status \in StepTerminal => Behind(s, k + 1)
  <2> SUFFICES ASSUME Behind(old, k), status \in StepTerminal, NEW j \in 1..Len(old.steps),
                      j < k + 1
               PROVE  s.steps[j].status \in StepTerminal
    BY <1>4 DEF Behind
  <2>1. CASE j = k
    BY <1>2, <1>4, <2>1
  <2>2. CASE j # k
    BY <1>1, <1>4, <2>2 DEF Behind
  <2> QED
    BY <2>1, <2>2
<1> QED
  BY <1>2, <1>4, <1>5, <1>6, <1>7

LEMMA SkipCourse ==
  ASSUME NEW old \in Run, NEW from \in Int, NEW to \in Int, Behind(old, from)
  PROVE  SameIds(Skip(old, from, to), old) /\ Behind(Skip(old, from, to), to + 1)
<1> DEFINE s == Skip(old, from, to)
           new == [k \in DOMAIN old.steps |->
                     IF k \in from..to THEN [old.steps[k] EXCEPT !.status = "skipped"]
                                       ELSE old.steps[k]]
<1>1. /\ old.steps \in Seq(Step) /\ Len(old.steps) \in Nat
      /\ DOMAIN old.steps = 1..Len(old.steps)
      /\ \A k \in DOMAIN old.steps : old.steps[k] \in Step
  BY LenProperties, ElementOfSeq DEF Run
<1>2. s.steps = new /\ Len(s.steps) = Len(old.steps)
  <2>1. s = [old EXCEPT !.steps = new]
    BY DEF Skip
  <2> HIDE DEF new, s
  <2>2. Len(s.steps) = Len(old.steps)
    BY SkipType DEF s
  <2> QED
    BY <2>1, <2>2 DEF Run
<1>3. /\ DOMAIN s.steps = 1..Len(old.steps)
      /\ \A k \in 1..Len(old.steps) : s.steps[k].id = old.steps[k].id
      /\ \A k \in 1..Len(old.steps) :
           s.steps[k].status = IF k \in from..to THEN "skipped" ELSE old.steps[k].status
  BY <1>1, <1>2 DEF Step
<1> HIDE DEF s
<1>4. SameIds(s, old)
  BY <1>2, <1>3 DEF SameIds
<1>5. Behind(s, to + 1)
  <2> SUFFICES ASSUME NEW k \in 1..Len(old.steps), k < to + 1
               PROVE  s.steps[k].status \in StepTerminal
    BY <1>3 DEF Behind
  <2>1. CASE k \in from..to
    BY <1>3, <2>1 DEF StepTerminal
  <2>2. CASE k \notin from..to
    <3>1. k < from
      BY <1>1, <2>2
    <3> QED
      BY <1>1, <1>3, <2>2, <3>1 DEF Behind
  <2> QED
    BY <2>1, <2>2
<1> QED
  BY <1>4, <1>5 DEF s

LEMMA MoveToAt ==
  ASSUME TypeInv, NEW t \in Runs, NEW k, MoveTo(t, k)
  PROVE  task'[t].i = k
BY DEF TypeInv, TypeOK, MoveTo, Task

(* An emit or an assignment of s to the run of t, with nothing else changed.  *)
LEMMA WriteFollows ==
  ASSUME CourseInv, NEW t \in Runs, Live(t), NEW s \in Run, TypeInv',
         Emit(task[t].run, s) \/ Keep(task[t].run, s)
  PROVE  run'[current] = s
<1>1. task[t].run = current /\ current \in Runs /\ run \in [Runs -> Run]
  BY CourseFacts
<1> QED
  BY <1>1 DEF Emit, Keep

LEMMA FinishFollows ==
  ASSUME CourseInv, NEW t \in Runs, Live(t), TypeInv', NEW s \in Run,
         NEW outcome \in RunTerminal, SameIds(s, My(t)), Behind(s, task[t].i),
         outcome = "completed" => AllBehind(s),
         Emit(task[t].run, [s EXCEPT !.state = outcome]), GoTo(t, "finishing"), ran' = ran
  PROVE  Follows(t)
<1> DEFINE e == [s EXCEPT !.state = outcome]
<1>1. e \in Run /\ e.state = outcome /\ e.steps = s.steps
  BY DEF Run, RunStates, RunTerminal
<1>2. Emit(task[t].run, e)
  OBVIOUS
<1> HIDE DEF e
<1>3. /\ SameIds(e, My(t)) /\ Behind(e, task[t].i) /\ (outcome = "completed" => AllBehind(e))
      /\ e.state # "absent"
  BY <1>1 DEF SameIds, Behind, AllBehind, RunTerminal
<1>4. run'[current] = e
  BY <1>1, <1>2, WriteFollows
<1>5. /\ task'[t].run = task[t].run /\ task'[t].i = task[t].i /\ task'[t].pc = "finishing"
      /\ task[t].run = current /\ task[t].i \in Int
  BY GoToCalm, CourseFacts
<1>6. "finishing" \in Called /\ "finishing" \notin Gated
  BY DEF Called, Gated
<1> QED
  BY <1>1, <1>3, <1>4, <1>5, <1>6, SameFollows

(* One lemma per stretch of the coroutine. *)

LEMMA DispatchFollows ==
  ASSUME CourseInv, TypeInv', NEW t \in Runs, Live(t),
         task[t].i \in 1..Len(My(t).steps), task[t].pc \in Calm \ Called, Unwatched => ~paused,
         Dispatch(t)
  PROVE  Follows(t)
<1> DEFINE here == [My(t) EXCEPT !.at = task[t].i]
           k    == task[t].i
<1>1. /\ My(t) \in Run /\ task[t].i \in Int /\ Course(t) /\ task[t].run = current
      /\ task \in [Runs -> Task] /\ My(t).state \in {"running", "paused"}
      /\ DOMAIN My(t).steps = 1..Len(My(t).steps)
  BY CourseFacts DEF Doing, Calm
<1>2. here \in Run /\ here.steps = My(t).steps /\ here.state = My(t).state
  BY <1>1 DEF Run
<1>3. ran' = ran /\ paused' = paused
  BY DEF Dispatch, executor, history
<1>4. CASE MyStep(t).status \in StepTerminal
  <2>1. Keep(task[t].run, here)
        /\ task' = [task EXCEPT ![t].pc = "head", ![t].i = @ + 1]
    BY <1>4 DEF Dispatch
  <2>2. task'[t].run = current /\ task'[t].pc = "head" /\ task'[t].i = k + 1
    BY <1>1, <2>1 DEF Task
  <2>3. Behind(here, k + 1)
    BY <1>1, <1>2, <1>4 DEF Course, Behind, MyStep
  <2> HIDE DEF here
  <2>4. SameIds(here, My(t)) /\ run'[current] = here
    BY <1>1, <1>2, <2>1, SameSteps, WriteFollows
  <2> QED
    BY <1>1, <1>2, <1>3, <2>2, <2>3, <2>4, SameFollows DEF Gated
<1>5. CASE MyStep(t).status \notin StepTerminal
  <2> DEFINE m    == Mark(here, k, "running")
             next == [m EXCEPT !.state = "running", !.waiting = 0]
  <2>1. Emit(task[t].run, next) /\ GoTo(t, "prepared")
    BY <1>5 DEF Dispatch
  <2> HIDE DEF here
  <2>2. k \in 1..Len(here.steps) /\ "running" \in StepStates
    BY <1>2 DEF StepStates
  <2>3. m \in Run
    BY <1>2, <2>2, MarkType
  <2>4. next \in Run /\ next.state = "running" /\ next.steps = m.steps
    BY <2>3 DEF Run, RunStates
  <2> HIDE DEF next, m
  <2>5. SameIds(next, here) /\ (Behind(here, k) => Behind(next, k))
    BY <1>2, <2>2, <2>4, MarkCourse DEF m
  <2>6. SameIds(next, My(t)) /\ Behind(next, k)
    BY <1>1, <1>2, <2>5 DEF SameIds, Course, Behind
  <2>7. task'[t].run = current /\ task'[t].pc = "prepared" /\ task'[t].i = k
    BY <1>1, <2>1, GoToCalm, CourseFacts
  <2>8. run'[current] = next
    BY <2>1, <2>4, WriteFollows
  <2> QED
    BY <1>1, <1>3, <2>4, <2>6, <2>7, <2>8, SameFollows DEF Called
<1> QED
  BY <1>4, <1>5

LEMMA PauseGateFollows ==
  ASSUME CourseInv, TypeInv', NEW t \in Runs, Live(t),
         task[t].i \in 1..Len(My(t).steps), task[t].pc \in Calm \ Called, PauseGate(t)
  PROVE  Follows(t)
<1>1. /\ My(t) \in Run /\ task[t].i \in Int /\ Course(t) /\ task[t].run = current
      /\ TypeInv /\ Behind(My(t), task[t].i) /\ SameIds(My(t), My(t))
  BY CourseFacts DEF Course, SameIds
<1>2. CASE abort /\ Finish(t, My(t), "aborted")
  BY <1>1, <1>2, FinishFollows DEF Finish, RunTerminal, history
<1>3. ASSUME NEW state \in {"paused", "running"}, NEW label \in {"paused", "unpaused"},
             Emit(task[t].run, [My(t) EXCEPT !.state = state]), GoTo(t, label),
             label = "unpaused" => ~paused, UNCHANGED <<executor, history>>
      PROVE  Follows(t)
  <2> DEFINE s == [My(t) EXCEPT !.state = state]
  <2>1. s \in Run /\ s.state = state /\ s.steps = My(t).steps
    BY <1>1 DEF Run, RunStates
  <2>2. Emit(task[t].run, s)
    BY <1>3
  <2> HIDE DEF s
  <2>3. SameIds(s, My(t)) /\ Behind(s, task[t].i) /\ run'[current] = s
    BY <1>1, <2>1, <2>2, SameSteps, WriteFollows
  <2>4. task'[t].run = current /\ task'[t].pc = label /\ task'[t].i = task[t].i
    BY <1>1, <1>3, GoToCalm
  <2>5. ran' = ran /\ paused' = paused
    BY <1>3 DEF executor, history
  <2> QED
    BY <1>1, <1>3, <2>1, <2>3, <2>4, <2>5, SameFollows DEF Gated
<1>4. CASE ~paused /\ Dispatch(t)
  BY <1>4, DispatchFollows
<1> QED
  BY <1>2, <1>3, <1>4 DEF PauseGate

LEMMA LoopHeadFollows ==
  ASSUME CourseInv, TypeInv', NEW t \in Runs, LoopHead(t)
  PROVE  Follows(t)
<1>1. Live(t) /\ task[t].pc = "head" /\ task[t].pc \in Calm \ Called
  BY DEF LoopHead, Live, Calm, Called
<1>2. /\ My(t) \in Run /\ Len(My(t).steps) \in Nat /\ Course(t)
      /\ task[t].i \in 1..Len(My(t).steps) + 1 /\ DOMAIN My(t).steps = 1..Len(My(t).steps)
  BY <1>1, CourseFacts
<1>3. CASE task[t].i > Len(My(t).steps)
           /\ Finish(t, [My(t) EXCEPT !.at = Len(My(t).steps) + 1], "completed")
  <2> DEFINE s == [My(t) EXCEPT !.at = Len(My(t).steps) + 1]
  <2>1. s \in Run /\ s.steps = My(t).steps
    BY <1>2 DEF Run
  <2>2. Emit(task[t].run, [s EXCEPT !.state = "completed"]) /\ GoTo(t, "finishing")
        /\ ran' = ran
    BY <1>3 DEF Finish, history
  <2> HIDE DEF s
  <2>3. SameIds(s, My(t)) /\ Behind(s, task[t].i)
    BY <1>2, <2>1, SameSteps DEF Course
  <2>4. AllBehind(s)
    BY <1>2, <1>3, <2>1 DEF Course, Behind, AllBehind
  <2>5. "completed" \in RunTerminal
    BY DEF RunTerminal
  <2> QED
    BY <1>1, <2>1, <2>2, <2>3, <2>4, <2>5, FinishFollows
<1>4. CASE task[t].i <= Len(My(t).steps) /\ PauseGate(t)
  <2>1. task[t].i \in 1..Len(My(t).steps)
    BY <1>2, <1>4
  <2> QED
    BY <1>1, <1>4, <2>1, PauseGateFollows
<1> QED
  BY <1>3, <1>4 DEF LoopHead

(* The call is started: the first time for this step. *)
LEMMA StartToolFollows ==
  ASSUME CourseInv, TypeInv', NEW t \in Runs, Live(t), StartTool(t),
         task[t].i \in 1..Len(My(t).steps), task[t].pc \in Gated
  PROVE  /\ Follows(t)
         /\ <<task[t].run, MyStep(t).id>> \notin ran
         /\ Unwatched => ~paused
<1>1. /\ My(t) \in Run /\ task[t].i \in Int /\ Course(t) /\ task[t].run = current
      /\ current \in Runs /\ Numbered(current, My(t)) /\ My(t) = run[current]
      /\ DOMAIN My(t).steps = 1..Len(My(t).steps) /\ TypeInv /\ Doing(t)
      /\ My(t).state # "absent" /\ Len(My(t).steps) \in Nat
  BY CourseFacts
<1>2. /\ run' = run /\ paused' = paused /\ GoTo(t, "tool")
      /\ ran' = ran \cup {<<current, MyStep(t).id>>}
  BY <1>1 DEF StartTool, executor
<1>3. task'[t].run = current /\ task'[t].pc = "tool" /\ task'[t].i = task[t].i
  BY <1>1, <1>2, GoToCalm
<1>4. (Unwatched => ~paused) /\ <<current, MyStep(t).id>> \notin ran
  <2>1. task[t].pc \notin Called
    BY DEF Gated, Called
  <2> QED
    BY <1>1, <2>1 DEF Course, Ahead, MyStep
<1>5. MyStep(t).id \in 1..Len(My(t).steps)
  BY <1>1 DEF Numbered, MyStep
<1>6. My(t)' = My(t) /\ MyStep(t)' = MyStep(t)
  BY <1>1, <1>2, <1>3 DEF My, MyStep
<1>7. \A r \in Runs : r = current => Numbered(r, run[r])'
  <2>1. \A n \in Nat : <<current, n>> \in ran' => n \in 1..Len(My(t).steps)
    BY <1>1, <1>2, <1>5 DEF Numbered
  <2> QED
    BY <1>1, <1>2, <2>1, SMTT(20) DEF Numbered
<1>8. Ahead(task[t].run, My(t), task[t].i, task[t].pc \in Called)'
  <2> SUFFICES ASSUME NEW k \in 1..Len(My(t).steps),
                      <<current, My(t).steps[k].id>> \in ran'
               PROVE  k < task[t].i \/ k = task[t].i
    BY <1>1, <1>3, <1>6 DEF Ahead, Called
  <2>1. CASE <<current, My(t).steps[k].id>> \in ran
    BY <1>1, <2>1 DEF Course, Ahead
  <2>2. CASE My(t).steps[k].id = MyStep(t).id
    BY <1>1, <2>2 DEF Numbered, MyStep
  <2> QED
    BY <1>2, <2>1, <2>2
<1>9. Course(t)'
  BY <1>1, <1>3, <1>6, <1>8 DEF Course, Gated
<1>10. run' \in [Runs -> Run] /\ run'[current] = My(t)
  BY <1>1, <1>2, CourseFacts
<1>11. run'[current].state # "completed"
  BY <1>1, <1>10 DEF Doing, Gated
<1>12. ran' \subseteq ran \cup ({current} \X Nat)
  BY <1>1, <1>2, <1>5
<1> QED
  BY <1>1, <1>2, <1>3, <1>4, <1>7, <1>9, <1>10, <1>11, <1>12 DEF Follows

LEMMA AskingFollows ==
  ASSUME CourseInv, TypeInv', NEW t \in Runs, Prepared(t)
  PROVE  Follows(t)
<1>1. task[t].pc \in AtStep /\ task[t].pc = "prepared"
  BY DEF Prepared, AtStep
<1>2. Live(t) /\ task[t].i \in 1..Len(My(t).steps)
  BY <1>1, AtStepFacts DEF CourseInv, StopInv, SafeInv
<1>3. /\ My(t) \in Run /\ Course(t) /\ task[t].run = current /\ TypeInv
      /\ MyStep(t) \in Step /\ task[t].i \in Int /\ Behind(My(t), task[t].i)
      /\ (Unwatched => ~paused)
  BY <1>1, <1>2, CourseFacts, LiveFacts DEF Course, Gated
<1>4. CASE Finish(t, Mark(My(t), task[t].i, "failed"), "failed")
  <2> DEFINE s == Mark(My(t), task[t].i, "failed")
  <2>1. "failed" \in StepStates /\ "failed" \in RunTerminal
    BY DEF StepStates, RunTerminal
  <2>2. s \in Run
    BY <1>2, <1>3, <2>1, MarkType
  <2>3. Emit(task[t].run, [s EXCEPT !.state = "failed"]) /\ GoTo(t, "finishing") /\ ran' = ran
    BY <1>4 DEF Finish, history
  <2>4. SameIds(s, My(t)) /\ Behind(s, task[t].i)
    BY <1>2, <1>3, <2>1, <2>2, MarkCourse
  <2> HIDE DEF s
  <2> QED
    BY <1>2, <2>1, <2>2, <2>3, <2>4, FinishFollows
<1>5. CASE /\ Emit(task[t].run, [Mark(My(t), task[t].i, "waiting_confirmation")
                                   EXCEPT !.state = "waiting_confirmation",
                                          !.waiting = MyStep(t).id])
           /\ GoTo(t, "asking")
           /\ UNCHANGED <<current, starting, paused, abort, history>>
  <2> DEFINE m == Mark(My(t), task[t].i, "waiting_confirmation")
             s == [m EXCEPT !.state = "waiting_confirmation", !.waiting = MyStep(t).id]
  <2>1. "waiting_confirmation" \in StepStates
    BY DEF StepStates
  <2>2. m \in Run /\ MyStep(t).id \in Nat
    BY <1>2, <1>3, <2>1, MarkType DEF Step
  <2>3. Emit(task[t].run, s) /\ ran' = ran
    BY <1>5 DEF history
  <2> HIDE DEF m
  <2>4. s \in Run /\ s.state = "waiting_confirmation" /\ s.steps = m.steps
    BY <2>2 DEF Run, RunStates
  <2> HIDE DEF s
  <2>5. SameIds(s, My(t)) /\ Behind(s, task[t].i) /\ run'[current] = s
    BY <1>2, <1>3, <2>1, <2>3, <2>4, MarkCourse, WriteFollows DEF m
  <2>6. task'[t].run = current /\ task'[t].pc = "asking" /\ task'[t].i = task[t].i
    BY <1>3, <1>5, GoToCalm
  <2> QED
    BY <1>1, <1>2, <1>3, <1>5, <2>3, <2>4, <2>5, <2>6, SameFollows DEF Called
<1>6. CASE StartTool(t)
  BY <1>1, <1>2, <1>6, StartToolFollows DEF Gated
<1> QED
  BY <1>4, <1>5, <1>6 DEF Prepared

LEMMA AwaitFollows ==
  ASSUME CourseInv, TypeInv', NEW t \in Runs, Asking(t)
  PROVE  Follows(t)
<1>1. task[t].pc = "asking" /\ Live(t)
  BY DEF Asking, Live
<1>2. /\ My(t) \in Run /\ Course(t) /\ task[t].run = current /\ Behind(My(t), task[t].i)
      /\ task[t].i \in Int /\ task \in [Runs -> Task] /\ My(t) = run[current]
      /\ My(t).state = "waiting_confirmation" /\ SameIds(My(t), My(t))
      /\ (Unwatched => ~paused)
  BY <1>1, CourseFacts DEF Course, Doing, Gated, SameIds
<1>3. CASE Finish(t, My(t), "failed")
  BY <1>1, <1>2, <1>3, FinishFollows DEF Finish, RunTerminal, history
<1>4. CASE /\ task' = [task EXCEPT ![t].pc = "waiting", ![t].future = confirmation]
           /\ UNCHANGED <<run, store, executor, history>>
  <2>1. /\ task'[t].run = current /\ task'[t].pc = "waiting" /\ task'[t].i = task[t].i
        /\ run'[current] = My(t) /\ ran' = ran /\ (Unwatched => ~paused')
    BY <1>2, <1>4 DEF Task, executor, history
  <2> QED
    BY <1>1, <1>2, <2>1, SameFollows DEF Called
<1> QED
  BY <1>3, <1>4 DEF Asking

LEMMA AnsweredFollows ==
  ASSUME CourseInv, TypeInv', NEW t \in Runs, Answered(t)
  PROVE  Follows(t)
<1> DEFINE heard == [My(t) EXCEPT !.waiting = 0]
<1>1. task[t].pc \in AtStep /\ task[t].pc = "waiting"
  BY DEF Answered, AtStep
<1>2. Live(t) /\ task[t].i \in 1..Len(My(t).steps)
  BY <1>1, AtStepFacts DEF CourseInv, StopInv, SafeInv
<1>3. /\ My(t) \in Run /\ task[t].run = current /\ TypeInv /\ Behind(My(t), task[t].i)
      /\ task[t].i \in Int /\ (Unwatched => ~paused) /\ task \in [Runs -> Task]
  BY <1>1, <1>2, CourseFacts DEF Course, Gated
<1>4. heard \in Run /\ heard.steps = My(t).steps
  BY <1>3 DEF Run
<1>5. ran' = ran /\ paused' = paused
  BY DEF Answered, history
<1>6. CASE Emit(task[t].run, [heard EXCEPT !.state = "aborted"]) /\ GoTo(t, "finishing")
  <2>1. SameIds(heard, My(t)) /\ Behind(heard, task[t].i) /\ "aborted" \in RunTerminal
    BY <1>3, <1>4, SameSteps DEF RunTerminal
  <2> HIDE DEF heard
  <2> QED
    BY <1>2, <1>4, <1>5, <1>6, <2>1, FinishFollows
<1>7. CASE /\ Emit(task[t].run, [Mark(heard, task[t].i, "running") EXCEPT !.state = "running"])
           /\ \E ok : task' = [task EXCEPT ![t].pc = "confirmed", ![t].ok = ok]
  <2> DEFINE m == Mark(heard, task[t].i, "running")
             s == [m EXCEPT !.state = "running"]
  <2>1. Emit(task[t].run, s)
    BY <1>7
  <2> HIDE DEF heard
  <2>2. "running" \in StepStates /\ task[t].i \in 1..Len(heard.steps)
    BY <1>2, <1>4 DEF StepStates
  <2>3. m \in Run
    BY <1>4, <2>2, MarkType
  <2>4. s \in Run /\ s.state = "running" /\ s.steps = m.steps
    BY <2>3 DEF Run, RunStates
  <2> HIDE DEF s, m
  <2>5. SameIds(s, heard) /\ (Behind(heard, task[t].i) => Behind(s, task[t].i))
    BY <1>4, <2>2, <2>4, MarkCourse DEF m
  <2>6. SameIds(s, My(t)) /\ Behind(s, task[t].i) /\ run'[current] = s
    BY <1>2, <1>3, <1>4, <2>1, <2>4, <2>5, WriteFollows DEF SameIds, Behind
  <2>7. task'[t].run = current /\ task'[t].pc = "confirmed" /\ task'[t].i = task[t].i
    BY <1>3, <1>7 DEF Task
  <2> QED
    BY <1>1, <1>2, <1>3, <1>5, <2>4, <2>6, <2>7, SameFollows DEF Called
<1> QED
  BY <1>6, <1>7 DEF Answered

LEMMA ConfirmedFollows ==
  ASSUME CourseInv, TypeInv', NEW t \in Runs, Confirmed(t)
  PROVE  Follows(t)
<1>1. task[t].pc \in AtStep /\ task[t].pc = "confirmed"
  BY DEF Confirmed, AtStep
<1>2. Live(t) /\ task[t].i \in 1..Len(My(t).steps)
  BY <1>1, AtStepFacts DEF CourseInv, StopInv, SafeInv
<1>3. /\ My(t) \in Run /\ task[t].run = current /\ TypeInv /\ Behind(My(t), task[t].i)
      /\ task[t].i \in Int
  BY <1>2, CourseFacts DEF Course
<1>4. CASE StartTool(t)
  BY <1>1, <1>2, <1>4, StartToolFollows DEF Gated
<1>5. CASE /\ Emit(task[t].run, [Mark(My(t), task[t].i, "skipped")
                                   EXCEPT !.state = "running", !.waiting = 0])
           /\ MoveTo(t, task[t].i + 1)
           /\ UNCHANGED <<executor, history>>
  <2> DEFINE m == Mark(My(t), task[t].i, "skipped")
             s == [m EXCEPT !.state = "running", !.waiting = 0]
  <2>1. "skipped" \in StepStates /\ "skipped" \in StepTerminal
    BY DEF StepStates, StepTerminal
  <2>2. m \in Run
    BY <1>2, <1>3, <2>1, MarkType
  <2>3. Emit(task[t].run, s) /\ ran' = ran
    BY <1>5 DEF history
  <2>4. s \in Run /\ s.state = "running" /\ s.steps = m.steps
    BY <2>2 DEF Run, RunStates
  <2> HIDE DEF s, m
  <2>5. SameIds(s, My(t)) /\ Behind(s, task[t].i + 1) /\ run'[current] = s
    BY <1>2, <1>3, <2>1, <2>3, <2>4, MarkCourse, WriteFollows DEF m
  <2>6. task'[t].run = current /\ task'[t].pc = "advance" /\ task'[t].i = task[t].i + 1
    BY <1>3, <1>5, MoveToCalm, MoveToAt
  <2> QED
    BY <1>1, <1>2, <1>3, <2>3, <2>4, <2>5, <2>6, SameFollows DEF Called, Gated
<1> QED
  BY <1>4, <1>5 DEF Confirmed

LEMMA ToolReturnsFollows ==
  ASSUME CourseInv, TypeInv', NEW t \in Runs, NEW success \in BOOLEAN,
         ToolReturns(t, success)
  PROVE  Follows(t)
<1> DEFINE status == IF success THEN "done" ELSE "failed"
           s == Mark(My(t), task[t].i, status)
<1>1. task[t].pc \in AtStep /\ task[t].pc = "tool"
  BY DEF ToolReturns, AtStep
<1>2. Live(t) /\ task[t].i \in 1..Len(My(t).steps)
  BY <1>1, AtStepFacts DEF CourseInv, StopInv, SafeInv
<1>3. /\ My(t) \in Run /\ task[t].run = current /\ TypeInv /\ Behind(My(t), task[t].i)
      /\ task[t].i \in Int /\ My(t).state \in {"running", "paused"}
  BY <1>1, <1>2, CourseFacts DEF Course, Doing
<1>4. status \in StepStates /\ status \in StepTerminal
  BY DEF StepStates, StepTerminal
<1> HIDE DEF status
<1>5. s \in Run /\ s.state = My(t).state /\ Len(s.steps) = Len(My(t).steps)
  BY <1>2, <1>3, <1>4, MarkType
<1>6. /\ SameIds(s, My(t)) /\ Behind(s, task[t].i) /\ Behind(s, task[t].i + 1)
      /\ s.steps[task[t].i].status = status
  BY <1>2, <1>3, <1>4, <1>5, MarkCourse
<1>7. /\ Emit(task[t].run, s) \/ Keep(task[t].run, s)
      /\ \/ GoTo(t, "evaluating")
         \/ MoveTo(t, task[t].i + 1)
         \/ GoTo(t, "failing")
      /\ ran' = ran
  BY DEF ToolReturns, history, status
<1> HIDE DEF s
<1>8. run'[current] = s
  BY <1>2, <1>5, <1>7, WriteFollows
<1>9. CASE GoTo(t, "evaluating") \/ GoTo(t, "failing")
  <2>1. /\ task'[t].run = current /\ task'[t].pc \in {"evaluating", "failing"}
        /\ task'[t].i = task[t].i
    BY <1>3, <1>9, GoToCalm
  <2> QED
    BY <1>2, <1>3, <1>4, <1>5, <1>6, <1>7, <1>8, <2>1, SameFollows DEF Called, Gated
<1>10. CASE MoveTo(t, task[t].i + 1)
  <2>1. task'[t].run = current /\ task'[t].pc = "advance" /\ task'[t].i = task[t].i + 1
    BY <1>3, <1>10, MoveToCalm, MoveToAt
  <2> QED
    BY <1>2, <1>3, <1>5, <1>6, <1>7, <1>8, <2>1, SameFollows DEF Gated
<1> QED
  BY <1>7, <1>9, <1>10

(* What is where after an insertion. *)
LEMMA InsertElements ==
  ASSUME NEW s \in Seq(Step), NEW k \in 1..Len(s), NEW e \in Step
  PROVE  /\ \A j \in 1..k : InsertAt(s, k + 1, e)[j] = s[j]
         /\ InsertAt(s, k + 1, e)[k + 1] = e
         /\ \A j \in k + 2..Len(s) + 1 : InsertAt(s, k + 1, e)[j] = s[j - 1]
<1> DEFINE left  == SubSeq(s, 1, k)
           right == SubSeq(s, k + 1, Len(s))
           front == left \o <<e>>
           all   == front \o right
<1>1. Len(s) \in Nat /\ k \in Nat
  BY LenProperties
<1>2. left \in Seq(Step) /\ Len(left) = k /\ \A j \in 1..k : left[j] = s[j]
  BY <1>1, SubSeqProperties
<1>3. right \in Seq(Step) /\ Len(right) = Len(s) - k
      /\ \A j \in 1..Len(s) - k : right[j] = s[k + j]
  BY <1>1, SubSeqProperties
<1>4. <<e>> \in Seq(Step) /\ Len(<<e>>) = 1 /\ <<e>>[1] = e
  OBVIOUS
<1> HIDE DEF left, right
<1>5. front \in Seq(Step) /\ Len(front) = k + 1 /\ front[k + 1] = e
      /\ \A j \in 1..k : front[j] = s[j]
  BY <1>1, <1>2, <1>4, ConcatProperties
<1> HIDE DEF front
<1>6. /\ \A j \in 1..k + 1 : all[j] = front[j]
      /\ \A j \in 1..Len(s) - k : all[(k + 1) + j] = right[j]
  BY <1>1, <1>3, <1>5, ConcatProperties
<1>7. InsertAt(s, k + 1, e) = all
  <2>1. (k + 1) - 1 = k
    BY <1>1
  <2> QED
    BY <2>1 DEF InsertAt, left, right, front
<1> HIDE DEF all
<1>8. \A j \in k + 2..Len(s) + 1 : all[j] = s[j - 1]
  <2> SUFFICES ASSUME NEW j \in k + 2..Len(s) + 1 PROVE all[j] = s[j - 1]
    OBVIOUS
  <2>1. /\ j - (k + 1) \in 1..Len(s) - k /\ (k + 1) + (j - (k + 1)) = j
        /\ k + (j - (k + 1)) = j - 1
    BY <1>1
  <2> QED
    BY <1>3, <1>6, <2>1
<1> QED
  BY <1>1, <1>5, <1>6, <1>7, <1>8

LEMMA InsertCases ==
  ASSUME NEW s \in Seq(Step), NEW k \in 1..Len(s), NEW e \in Step,
         NEW j \in 1..Len(s) + 1
  PROVE  \/ j = k + 1 /\ InsertAt(s, k + 1, e)[j] = e
         \/ j \in 1..k /\ InsertAt(s, k + 1, e)[j] = s[j]
         \/ j - 1 \in k + 1..Len(s) /\ InsertAt(s, k + 1, e)[j] = s[j - 1]
<1>1. Len(s) \in Nat /\ k \in Int /\ j \in Int
  BY LenProperties
<1>2. j = k + 1 \/ j \in 1..k \/ (j \in k + 2..Len(s) + 1 /\ j - 1 \in k + 1..Len(s))
  BY <1>1
<1> QED
  BY <1>2, InsertElements

(* Identifiers 1 to n for n steps, in whatever order. *)
Ids(s) == /\ \A a \in 1..Len(s) : s[a].id \in 1..Len(s)
          /\ \A a, b \in 1..Len(s) : s[a].id = s[b].id => a = b

LEMMA InsertIds ==
  ASSUME NEW s \in Seq(Step), NEW k \in 1..Len(s), NEW e \in Step, e.id = Len(s) + 1,
         Ids(s)
  PROVE  Ids(InsertAt(s, k + 1, e))
<1>0. /\ \A a \in 1..Len(s) : s[a].id \in 1..Len(s)
      /\ \A a, b \in 1..Len(s) : s[a].id = s[b].id => a = b
      /\ Len(InsertAt(s, k + 1, e)) = Len(s) + 1
  BY InsertType DEF Ids
<1> DEFINE new == InsertAt(s, k + 1, e)
<1>1. Len(s) \in Nat /\ k \in 1..Len(s)
  BY LenProperties
<1>2. \A j \in 1..Len(s) + 1 : \/ j = k + 1 /\ new[j] = e
                               \/ j \in 1..k /\ new[j] = s[j]
                               \/ j - 1 \in k + 1..Len(s) /\ new[j] = s[j - 1]
  BY InsertCases
<1> HIDE DEF new
<1>3. ASSUME NEW j \in 1..Len(s) + 1
      PROVE  \/ j = k + 1 /\ new[j].id = Len(s) + 1
             \/ \E a \in 1..Len(s) :
                  new[j].id = s[a].id /\ ((a = j /\ j <= k) \/ (a = j - 1 /\ a > k))
  <2>1. CASE j \in 1..k /\ new[j] = s[j]
    BY <1>1, <2>1
  <2>2. CASE j - 1 \in k + 1..Len(s) /\ new[j] = s[j - 1]
    BY <1>1, <2>2
  <2> QED
    BY <1>2, <2>1, <2>2
<1>4. ASSUME NEW j \in 1..Len(s) + 1 PROVE new[j].id \in 1..Len(s) + 1
  <2>1. CASE new[j].id = Len(s) + 1
    BY <1>1, <2>1
  <2>2. CASE \E a \in 1..Len(s) : new[j].id = s[a].id
    BY <1>0, <1>1, <2>2
  <2> QED
    BY <1>3, <2>1, <2>2
<1>5. ASSUME NEW j \in 1..Len(s) + 1, NEW l \in 1..Len(s) + 1, new[j].id = new[l].id
      PROVE  j = l
  <2>1. CASE j = k + 1 \/ l = k + 1
    <3>1. \A a \in 1..Len(s) : s[a].id # Len(s) + 1
      BY <1>0, <1>1
    <3> QED
      BY <1>1, <1>3, <1>5, <2>1, <3>1
  <2>2. CASE j # k + 1 /\ l # k + 1
    <3>1. PICK a \in 1..Len(s) : new[j].id = s[a].id /\ ((a = j /\ j <= k) \/ (a = j - 1 /\ a > k))
      BY <1>3, <2>2
    <3>2. PICK b \in 1..Len(s) : new[l].id = s[b].id /\ ((b = l /\ l <= k) \/ (b = l - 1 /\ b > k))
      BY <1>3, <2>2
    <3>3. a = b
      BY <1>0, <1>5, <3>1, <3>2
    <3> QED
      BY <1>1, <3>1, <3>2, <3>3
  <2> QED
    BY <2>1, <2>2
<1> QED
  BY <1>0, <1>4, <1>5 DEF new, Ids

LEMMA ReviseFollows ==
  ASSUME CourseInv, TypeInv', NEW t \in Runs, Judging(t), NEW s \in Run,
         s.state = My(t).state, SameIds(s, My(t)),
         NEW k \in Int, k > task[t].i, Behind(s, k), Revise(t, s, k)
  PROVE  Follows(t)
<1>1. Live(t) /\ task[t].pc = "evaluating"
  BY DEF Judging, Live
<1>2. /\ task[t].run = current /\ TypeInv /\ task[t].i \in Int
      /\ s.state \in {"running", "paused"}
  BY <1>1, CourseFacts DEF Doing
<1>3. Emit(task[t].run, s) /\ MoveTo(t, k) /\ ran' = ran
  BY DEF Revise, history
<1>4. run'[current] = s
  BY <1>1, <1>3, WriteFollows
<1>5. task'[t].run = current /\ task'[t].pc = "advance" /\ task'[t].i = k
  BY <1>2, <1>3, MoveToCalm, MoveToAt
<1> QED
  BY <1>1, <1>2, <1>3, <1>4, <1>5, SameFollows DEF Gated

(* An inserted step gets an identifier no step had, and stands after the one  *)
(* that was executed: none before it is disturbed.                            *)
LEMMA AddFollows ==
  ASSUME CourseInv, TypeInv', NEW t \in Runs, EvaluateAddStep(t)
  PROVE  Follows(t)
<1>1. task[t].pc = "evaluating" /\ task[t].pc \in AtStep
  BY DEF EvaluateAddStep, Judging, AtStep
<1>2. Live(t) /\ task[t].i \in 1..Len(My(t).steps)
  BY <1>1, AtStepFacts DEF CourseInv, StopInv, SafeInv
<1>3. /\ My(t) \in Run /\ task[t].run = current /\ TypeInv /\ Course(t)
      /\ task[t].i \in Int /\ My(t).state \in {"running", "paused"} /\ current \in Runs
      /\ My(t).steps \in Seq(Step) /\ Len(My(t).steps) \in Nat /\ Numbered(current, My(t))
      /\ DOMAIN My(t).steps = 1..Len(My(t).steps)
  BY <1>1, <1>2, CourseFacts DEF Doing
<1>4. PICK risk \in Risks, dangerous \in BOOLEAN :
        Revise(t, [My(t) EXCEPT !.steps = InsertAt(@, task[t].i + 1,
                     [id |-> Len(My(t).steps) + 1, risk |-> risk,
                      dangerous |-> dangerous, status |-> "pending"])],
               task[t].i + 1)
  BY DEF EvaluateAddStep
<1> DEFINE e   == [id |-> Len(My(t).steps) + 1, risk |-> risk,
                   dangerous |-> dangerous, status |-> "pending"]
           old == My(t).steps
           new == InsertAt(My(t).steps, task[t].i + 1, e)
           s   == [My(t) EXCEPT !.steps = new]
           i   == task[t].i
           n   == Len(My(t).steps)
<1>5. e \in Step /\ e.id = n + 1
  BY <1>3 DEF Step, StepStates
<1>6. Emit(task[t].run, s) /\ MoveTo(t, i + 1) /\ ran' = ran
  BY <1>4 DEF Revise, history
<1> HIDE DEF e
<1>7. /\ new \in Seq(Step) /\ Len(new) = n + 1
      /\ \A j \in 1..i : new[j] = old[j]
      /\ new[i + 1] = e
      /\ \A j \in i + 2..n + 1 : new[j] = old[j - 1]
  <2>1. old \in Seq(Step) /\ i \in 1..Len(old) /\ e \in Step
    BY <1>2, <1>3, <1>5
  <2>2. new \in Seq(Step) /\ Len(new) = n + 1
    BY <2>1, InsertType
  <2>3. /\ \A j \in 1..i : new[j] = old[j]
        /\ new[i + 1] = e
        /\ \A j \in i + 2..n + 1 : new[j] = old[j - 1]
    BY <2>1, InsertElements
  <2> QED
    BY <2>2, <2>3
<1>8. DOMAIN new = 1..n + 1
  BY <1>7, LenProperties
<1> HIDE DEF new
<1>9. s \in Run /\ s.steps = new /\ s.state = My(t).state
  BY <1>3, <1>7 DEF Run
<1> HIDE DEF s
<1>10. run'[current] = s
  BY <1>2, <1>6, <1>9, WriteFollows
<1>11. task'[t].run = current /\ task'[t].pc = "advance" /\ task'[t].i = i + 1
  BY <1>3, <1>6, MoveToCalm, MoveToAt
<1>12. My(t)' = s /\ run' \in [Runs -> Run]
  BY <1>10, <1>11 DEF My, TypeInv, TypeOK
<1>13. \A j \in 1..n + 1 : \/ j = i + 1 /\ new[j] = e
                           \/ j \in 1..i /\ new[j] = old[j]
                           \/ j - 1 \in i + 1..n /\ new[j] = old[j - 1]
  BY <1>2, <1>3, <1>5, InsertCases DEF new
<1>14. Behind(s, i + 1)
  <2> SUFFICES ASSUME NEW j \in 1..n + 1, j < i + 1
               PROVE  new[j].status \in StepTerminal
    BY <1>8, <1>9 DEF Behind
  <2>1. j \in 1..i /\ j \in 1..n /\ new[j] = old[j]
    BY <1>2, <1>3, <1>7
  <2> QED
    BY <1>1, <1>2, <1>3, <2>1 DEF Course, Behind, MyStep
<1>15. Ids(My(t).steps)
  BY <1>3 DEF Numbered, Ids
<1>16. Ids(new)
  BY <1>2, <1>3, <1>5, <1>15, InsertIds DEF new
<1>17. /\ \A j \in 1..n + 1 : new[j].id \in 1..n + 1
       /\ \A j, k \in 1..n + 1 : new[j].id = new[k].id => j = k
  BY <1>7, <1>16 DEF Ids
<1>18. \A m \in Nat : <<current, m>> \in ran => m \in 1..n
  BY <1>3 DEF Numbered
<1>19. \A r \in Runs : r = current => Numbered(r, run[r])'
  <2>1. \A m \in Nat : <<current, m>> \in ran => m \in 1..n + 1
    BY <1>3, <1>18
  <2> QED
    BY <1>6, <1>7, <1>8, <1>9, <1>10, <1>17, <2>1, SMTT(20) DEF Numbered
<1>20. Ahead(task[t].run, My(t), task[t].i, task[t].pc \in Called)'
  <2> SUFFICES ASSUME NEW j \in 1..n + 1, <<current, new[j].id>> \in ran
               PROVE  j < i + 1
    BY <1>6, <1>8, <1>9, <1>11, <1>12 DEF Ahead
  <2>1. new[j].id # n + 1
    <3>1. new[j].id \in Nat
      BY <1>3, <1>17
    <3> QED
      BY <1>3, <1>18, <3>1
  <2>2. \A a \in 1..n : <<current, old[a].id>> \in ran => a < i \/ a = i
    BY <1>3 DEF Course, Ahead
  <2> HIDE DEF i, n, old
  <2>3. i \in Int /\ n \in Nat /\ i \in 1..n
    BY <1>2, <1>3 DEF i, n
  <2>4. CASE j \in 1..i
    BY <2>3, <2>4
  <2>5. CASE j - 1 \in i + 1..n /\ new[j] = old[j - 1]
    BY <2>2, <2>3, <2>5
  <2> QED
    BY <1>5, <1>13, <2>1, <2>4, <2>5
<1>21. Course(t)'
  BY <1>11, <1>12, <1>14, <1>20 DEF Course, Gated
<1>22. run'[current].state \in {"running", "paused"}
  BY <1>3, <1>9, <1>10
<1> QED
  BY <1>3, <1>6, <1>11, <1>12, <1>19, <1>21, <1>22 DEF Follows

LEMMA EvaluateFollows ==
  ASSUME CourseInv, TypeInv', NEW t \in Runs, Evaluate(t)
  PROVE  Follows(t)
<1>0. Judging(t)
  BY DEF Evaluate, EvaluateContinue, EvaluateAbort, EvaluateModify, EvaluateAddStep,
         EvaluateSkip
<1>1. task[t].pc = "evaluating" /\ task[t].pc \in AtStep
  BY <1>0 DEF Judging, AtStep
<1>2. Live(t) /\ task[t].i \in 1..Len(My(t).steps)
  BY <1>1, AtStepFacts DEF CourseInv, StopInv, SafeInv
<1>3. /\ My(t) \in Run /\ Course(t) /\ task[t].i \in Int /\ SameIds(My(t), My(t))
      /\ My(t).steps \in Seq(Step) /\ Len(My(t).steps) \in Nat
      /\ DOMAIN My(t).steps = 1..Len(My(t).steps)
  BY <1>2, CourseFacts DEF SameIds
<1>4. Behind(My(t), task[t].i) /\ Behind(My(t), task[t].i + 1)
  <2>1. \A k \in DOMAIN My(t).steps : k < task[t].i + 1 => k < task[t].i \/ k = task[t].i
    BY <1>3
  <2> QED
    BY <1>1, <1>3, <2>1 DEF Course, Behind, MyStep
<1>5. CASE EvaluateContinue(t)
  BY <1>0, <1>3, <1>4, <1>5, ReviseFollows DEF EvaluateContinue
<1>6. CASE EvaluateAbort(t)
  BY <1>2, <1>3, <1>4, <1>6, FinishFollows DEF EvaluateAbort, Finish, RunTerminal, history
<1>7. CASE EvaluateModify(t)
  <2>1. PICK k \in DOMAIN My(t).steps, risk \in Risks :
           Revise(t, [My(t) EXCEPT !.steps[k].risk = risk], task[t].i + 1)
    BY <1>7 DEF EvaluateModify
  <2> DEFINE step == [My(t).steps[k] EXCEPT !.risk = risk]
             new  == [My(t).steps EXCEPT ![k] = step]
             s    == [My(t) EXCEPT !.steps = new]
  <2>2. k \in 1..Len(My(t).steps) /\ My(t).steps[k] \in Step
    BY <1>3, ElementOfSeq
  <2>3. /\ step \in Step /\ step.id = My(t).steps[k].id
        /\ step.status = My(t).steps[k].status
    BY <2>2 DEF Step
  <2>4. Revise(t, s, task[t].i + 1)
    BY <1>3, <2>1 DEF Run
  <2> HIDE DEF step
  <2>5. /\ new \in Seq(Step) /\ Len(new) = Len(My(t).steps) /\ new[k] = step
        /\ DOMAIN new = 1..Len(My(t).steps)
        /\ \A j \in 1..Len(My(t).steps) : j # k => new[j] = My(t).steps[j]
    BY <1>3, <2>2, <2>3, ExceptSeq
  <2> HIDE DEF new
  <2>6. s \in Run /\ s.state = My(t).state /\ s.steps = new
    BY <1>3, <2>5 DEF Run
  <2> HIDE DEF s
  <2>7. \A j \in 1..Len(My(t).steps) : /\ new[j].id = My(t).steps[j].id
                                       /\ new[j].status = My(t).steps[j].status
    BY <2>3, <2>5
  <2>8. SameIds(s, My(t)) /\ Behind(s, task[t].i + 1)
    BY <1>3, <1>4, <2>5, <2>6, <2>7 DEF SameIds, Behind
  <2> QED
    BY <1>0, <1>3, <2>4, <2>6, <2>8, ReviseFollows
<1>8. CASE EvaluateSkip(t)
  <2>1. ASSUME NEW to \in Int, to >= task[t].i + 1, NEW k \in Int, k = to + 1,
               Revise(t, Skip(My(t), task[t].i + 1, to), k)
        PROVE  Follows(t)
    <3> DEFINE s == Skip(My(t), task[t].i + 1, to)
    <3>0. task[t].i + 1 \in Int
      BY <1>3
    <3>1. s \in Run /\ s.state = My(t).state
      BY <1>3, <2>1, <3>0, SkipType
    <3>2. SameIds(s, My(t)) /\ Behind(s, k)
      BY <1>3, <1>4, <2>1, <3>0, SkipCourse
    <3>3. Revise(t, s, k) /\ k > task[t].i
      BY <1>3, <2>1
    <3> HIDE DEF s
    <3> QED
      BY <1>0, <2>1, <3>1, <3>2, <3>3, ReviseFollows
  <2>2. CASE \E k \in DOMAIN My(t).steps :
               k > task[t].i + 1 /\ Revise(t, Skip(My(t), task[t].i + 1, k - 1), k)
    <3>1. PICK k \in DOMAIN My(t).steps :
                 k > task[t].i + 1 /\ Revise(t, Skip(My(t), task[t].i + 1, k - 1), k)
      BY <2>2
    <3>2. k \in Int /\ k - 1 \in Int /\ k - 1 >= task[t].i + 1 /\ k = (k - 1) + 1
      BY <1>3, <3>1
    <3> QED
      BY <2>1, <3>1, <3>2
  <2>3. CASE Revise(t, Skip(My(t), task[t].i + 1, task[t].i + 1), task[t].i + 2)
    <3>1. /\ task[t].i + 1 \in Int /\ task[t].i + 2 \in Int
          /\ task[t].i + 2 = (task[t].i + 1) + 1 /\ task[t].i + 1 >= task[t].i + 1
      BY <1>3
    <3> QED
      BY <2>1, <2>3, <3>1
  <2> QED
    BY <1>8, <2>2, <2>3 DEF EvaluateSkip
<1> QED
  BY <1>5, <1>6, <1>7, <1>8, AddFollows DEF Evaluate

LEMMA AdvanceFollows ==
  ASSUME CourseInv, TypeInv', NEW t \in Runs, Advance(t)
  PROVE  Follows(t)
<1>1. Live(t) /\ task[t].pc = "advance"
  BY DEF Advance, Live
<1>2. /\ My(t) \in Run /\ task[t].run = current /\ TypeInv /\ Behind(My(t), task[t].i)
      /\ task[t].i \in Int /\ My(t) = run[current] /\ SameIds(My(t), My(t))
      /\ My(t).state \in {"running", "paused"}
  BY <1>1, CourseFacts DEF Course, SameIds, Doing
<1>3. GoTo(t, "head") /\ run' = run /\ ran' = ran
  BY DEF Advance, history
<1>4. task'[t].run = current /\ task'[t].pc = "head" /\ task'[t].i = task[t].i
  BY <1>2, <1>3, GoToCalm
<1> QED
  BY <1>1, <1>2, <1>3, <1>4, SameFollows DEF Called, Gated

(* The run is left as the coroutine recorded it. *)
LEMMA FinallyFollows ==
  ASSUME CourseInv, TypeInv', NEW t \in Runs, Finally(t)
  PROVE  Follows(t)
<1>1. Live(t) /\ GoTo(t, "done") /\ run' = run /\ ran' = ran
  BY DEF Finally, Live, history
<1>2. /\ current \in Runs /\ TypeInv /\ My(t) = run[current] /\ My(t).state # "absent"
      /\ Numbered(current, My(t)) /\ run \in [Runs -> Run]
  BY <1>1, CourseFacts
<1>3. task'[t].pc = "done" /\ ~Live(t)'
  BY <1>1, <1>2, GoToCalm DEF Live
<1>4. run[current].state = "completed" => AllBehind(run[current])
  BY <1>2 DEF CourseInv, CompletedLeavesNothing, AllBehind
<1>5. \A r \in Runs : r = current => Numbered(r, run[r])'
  BY <1>1, <1>2 DEF Numbered
<1> QED
  BY <1>1, <1>2, <1>3, <1>4, <1>5 DEF Follows

LEMMA LiveStepFollows ==
  ASSUME CourseInv, TypeInv', NEW t \in Runs, TaskStep(t), ~Begin(t)
  PROVE  Live(t) /\ Follows(t)
<1>1. CASE WakePaused(t)
  <2>1. task[t].pc \in AtStep \cap Calm /\ task[t].pc \notin Called /\ PauseGate(t)
    BY <1>1 DEF WakePaused, AtStep, Calm, Called
  <2>2. Live(t) /\ task[t].i \in 1..Len(My(t).steps)
    BY <2>1, AtStepFacts DEF CourseInv, StopInv, SafeInv
  <2> QED
    BY <2>1, <2>2, PauseGateFollows
<1>2. CASE Unpaused(t)
  <2>1. /\ task[t].pc \in AtStep \cap Calm /\ task[t].pc \notin Called
        /\ task[t].pc \in Gated /\ Dispatch(t)
    BY <1>2 DEF Unpaused, AtStep, Calm, Called, Gated
  <2>2. Live(t) /\ task[t].i \in 1..Len(My(t).steps)
    BY <2>1, AtStepFacts DEF CourseInv, StopInv, SafeInv
  <2>3. Unwatched => ~paused
    BY <2>1, <2>2 DEF CourseInv, Course
  <2> QED
    BY <2>1, <2>2, <2>3, DispatchFollows
<1>3. CASE ToolRaises(t) \/ Failing(t)
  <2>1. Live(t) /\ Finish(t, My(t), "failed")
    BY <1>3 DEF ToolRaises, Failing, Live
  <2>2. My(t) \in Run /\ Behind(My(t), task[t].i) /\ SameIds(My(t), My(t))
    BY <2>1, CourseFacts DEF Course, SameIds
  <2> QED
    BY <2>1, <2>2, FinishFollows DEF Finish, RunTerminal, history
<1>4. CASE ToolReturns(t, TRUE) \/ ToolReturns(t, FALSE)
  <2>1. Live(t)
    BY <1>4 DEF ToolReturns, Live
  <2> QED
    BY <1>4, <2>1, ToolReturnsFollows
<1>5. CASE \/ LoopHead(t) \/ Prepared(t) \/ Asking(t) \/ Answered(t) \/ Confirmed(t)
           \/ Evaluate(t) \/ Advance(t) \/ Finally(t)
  <2>1. Live(t)
    BY <1>5 DEF LoopHead, Prepared, Asking, Answered, Confirmed, Evaluate,
                EvaluateContinue, EvaluateAbort, EvaluateModify, EvaluateAddStep,
                EvaluateSkip, Judging, Advance, Finally, Live
  <2> QED
    BY <1>5, <2>1, LoopHeadFollows, AskingFollows, AwaitFollows, AnsweredFollows,
       ConfirmedFollows, EvaluateFollows, AdvanceFollows, FinallyFollows
<1> QED
  BY <1>1, <1>2, <1>3, <1>4, <1>5 DEF TaskStep

LEMMA BeginCourse ==
  ASSUME CourseInv, StopInv', NEW t \in Runs, Begin(t)
  PROVE  CourseInv'
<1>1. /\ SafeInv /\ Busy(t) /\ Doing(t) /\ task[t].pc = "start" /\ current # NoRun
      /\ current \in Runs /\ task \in [Runs -> Task] /\ Unstarted(current)
      /\ run \in [Runs -> Run] /\ UNCHANGED <<run, current, starting, paused, ran>>
  BY DEF CourseInv, StopInv, SafeInv, TypeInv, TypeOK, Begin, Busy, Doing, executor, history
<1>2. /\ \A u \in Runs \ {t} : task'[u] = task[u] /\ ~Busy(u)
      /\ task'[t].pc = "head" /\ task'[t].run = current /\ task'[t].i = 1
  BY <1>1 DEF Begin, Task, SafeInv, Alone
<1>3. Course(t)'
  <2>1. My(t)' = run[current] /\ DOMAIN run[current].steps \subseteq Nat
    BY <1>1, <1>2, LenProperties DEF My, Run
  <2>2. Numbered(current, run[current])
    BY <1>1 DEF CourseInv
  <2>3. Behind(run[current], 1)
    <3>1. run[current].steps \in Seq(Step)
      BY <1>1 DEF Run
    <3>2. DOMAIN run[current].steps = 1..Len(run[current].steps)
      BY <3>1, LenProperties
    <3> QED
      BY <3>2 DEF Behind
  <2>4. Ahead(task[t].run, My(t), task[t].i, task[t].pc \in Called)'
    <3>1. run[current].steps \in Seq(Step)
      BY <1>1 DEF Run
    <3>2. ASSUME NEW k \in DOMAIN run[current].steps
          PROVE  run[current].steps[k].id \in Nat
      <4>1. run[current].steps[k] \in Step
        BY <3>1, LenProperties, ElementOfSeq
      <4> QED
        BY <4>1 DEF Step
    <3> QED
      BY <1>1, <1>2, <2>1, <3>2 DEF Ahead, Unstarted
  <2> QED
    BY <1>2, <2>1, <2>3, <2>4 DEF Course, Gated
<1>4. \A u \in Runs : Live(u)' => Course(u)'
  BY <1>2, <1>3 DEF Live, Busy
<1>5. \A u \in Runs : task'[u].pc # "start"
  BY <1>2 DEF Busy
<1>6. \A r \in Runs : Numbered(r, run[r])'
  BY <1>1 DEF CourseInv, Numbered
<1>7. \A r \in Runs : run'[r].state = "absent" \/ starting' = r => Unstarted(r)'
  BY <1>1 DEF CourseInv, Unstarted
<1> QED
  BY <1>1, <1>4, <1>5, <1>6, <1>7 DEF CourseInv, CompletedLeavesNothing

LEMMA CourseTaskStep ==
  ASSUME CourseInv, StopInv', NEW t \in Runs, TaskStep(t)
  PROVE  CourseInv'
<1>1. CASE Begin(t)
  BY <1>1, BeginCourse
<1>2. CASE ~Begin(t)
  <2>1. TypeInv'
    BY DEF StopInv, SafeInv
  <2>2. Live(t) /\ Follows(t)
    BY <1>2, <2>1, LiveStepFollows
  <2>3. Shape(t)
    BY TaskStepShape DEF CourseInv
  <2> QED
    BY <2>2, <2>3, FollowsCourse
<1> QED
  BY <1>1, <1>2

(* A handler that leaves the steps of the runs, and what ran, alone. *)
LEMMA HandlerCourse ==
  ASSUME CourseInv, StopInv', UNCHANGED <<task, starting, current, ran>>,
         \A q \in Runs : /\ run'[q].steps = run[q].steps
                         /\ run'[q].state = "absent" => run[q].state = "absent"
                         /\ run'[q].state = "completed" => run[q].state = "completed",
         Unwatched => \A t \in Runs : Live(t) /\ task[t].pc \in Gated => ~paused'
  PROVE  CourseInv'
<1>1. \A r \in Runs : Numbered(r, run[r])'
  BY DEF CourseInv, Numbered
<1>2. \A r \in Runs : run'[r].state = "absent" \/ starting' = r => Unstarted(r)'
  BY DEF CourseInv, Unstarted
<1>3. \A t \in Runs : task'[t].pc = "start" => Unstarted(current)'
  BY DEF CourseInv, Unstarted
<1>4. CompletedLeavesNothing'
  BY DEF CourseInv, CompletedLeavesNothing
<1>5. ASSUME NEW t \in Runs, Live(t)' PROVE Course(t)'
  <2>1. Live(t)
    BY <1>5 DEF Live
  <2>2. /\ My(t) = run[task[t].run] /\ task[t].run \in Runs /\ Course(t)
    BY <2>1, CourseFacts DEF My
  <2>3. My(t)'.steps = My(t).steps
    BY <2>2 DEF My
  <2>4. Behind(My(t), task[t].i)'
    BY <2>2, <2>3 DEF Course, Behind
  <2>5. Ahead(task[t].run, My(t), task[t].i, task[t].pc \in Called)'
    BY <2>2, <2>3 DEF Course, Ahead
  <2>6. MyStep(t)' = MyStep(t)
    BY <2>3 DEF MyStep
  <2> QED
    BY <2>1, <2>2, <2>4, <2>5, <2>6 DEF Course
<1> QED
  BY <1>1, <1>2, <1>3, <1>4, <1>5 DEF CourseInv

LEMMA StartCourse ==
  ASSUME CourseInv, StopInv', NEW r \in Runs, StartPlan(r)
  PROVE  CourseInv'
<1>1. PICK plan \in Plans : Launch(r, FreshRun(plan))
  BY DEF StartPlan
<1>2. /\ Emit(r, FreshRun(plan)) /\ current' = r /\ starting' = r /\ task' = task
      /\ ran' = ran /\ run[r].state = "absent"
  BY <1>1 DEF Launch, history
<1>3. /\ run \in [Runs -> Run] /\ SafeInv' /\ r # NoRun
  BY ConstantsOK DEF CourseInv, StopInv, SafeInv, TypeInv, TypeOK
<1>4. run' = [run EXCEPT ![r] = FreshRun(plan)]
  BY <1>2 DEF Emit
<1>5. FreshRun(plan).state = "running" /\ FreshRun(plan).steps = plan.steps
  BY DEF FreshRun, Blank
<1>6. /\ run'[r].state = "running" /\ run'[r].steps = plan.steps
      /\ \A q \in Runs : q # r => run'[q] = run[q]
  BY <1>3, <1>4, <1>5
<1>7. Unstarted(r) /\ Unstarted(r)'
  BY <1>2 DEF CourseInv, Unstarted
<1>8. \A t \in Runs : ~Busy(t)'
  BY <1>2, <1>3 DEF SafeInv, Alone
<1>9. \A q \in Runs : Numbered(q, run[q])'
  <2>1. /\ plan.steps \in Seq(Step)
        /\ \A k \in DOMAIN plan.steps : plan.steps[k].id = k
    BY ConstantsOK
  <2>2. DOMAIN plan.steps = 1..Len(plan.steps)
    BY <2>1, LenProperties
  <2>3. Numbered(r, run[r])'
    BY <1>2, <1>6, <1>7, <2>1, <2>2 DEF Numbered, Unstarted
  <2>4. ASSUME NEW q \in Runs, q # r PROVE Numbered(q, run[q])'
    <3>1. Numbered(q, run[q]) /\ run'[q] = run[q]
      BY <1>6, <2>4 DEF CourseInv
    <3> QED
      BY <1>2, <3>1 DEF Numbered
  <2> QED
    BY <2>3, <2>4
<1>10. \A q \in Runs : run'[q].state = "absent" \/ starting' = q => Unstarted(q)'
  <2> SUFFICES ASSUME NEW q \in Runs, q # r, run'[q].state = "absent"
               PROVE  Unstarted(q)'
    BY <1>2, <1>7
  <2>1. Unstarted(q)
    BY <1>6 DEF CourseInv
  <2> QED
    BY <1>2, <2>1 DEF Unstarted
<1>11. CompletedLeavesNothing'
  BY <1>6 DEF CourseInv, CompletedLeavesNothing
<1>12. \A t \in Runs : ~Live(t)' /\ task'[t].pc # "start"
  BY <1>8 DEF Live, Busy
<1> QED
  BY <1>9, <1>10, <1>11, <1>12 DEF CourseInv

LEMMA CreateCourse ==
  ASSUME CourseInv, StopInv', NEW r \in Runs, CreateTask(r)
  PROVE  CourseInv'
<1>1. /\ starting = r /\ starting' = NoRun /\ UNCHANGED <<run, current, paused, ran>>
      /\ task' = [task EXCEPT ![r].pc = "start"] /\ task \in [Runs -> Task] /\ SafeInv
      /\ r # NoRun /\ NoRun \notin Runs
  BY ConstantsOK DEF CreateTask, CourseInv, StopInv, SafeInv, TypeInv, TypeOK, history
<1>2. current = r /\ Unstarted(r) /\ \A t \in Runs : ~Busy(t)
  BY <1>1 DEF CourseInv, SafeInv, Alone
<1>3. \A t \in Runs : ~Live(t)'
  <2>1. \A t \in Runs : task'[t].pc \in {task[t].pc, "start"}
    BY <1>1 DEF Task
  <2> QED
    BY <1>2, <2>1 DEF Live, Busy
<1>4. \A q \in Runs : Numbered(q, run[q])'
  BY <1>1 DEF CourseInv, Numbered
<1>5. \A q \in Runs : run'[q].state = "absent" \/ starting' = q => Unstarted(q)'
  BY <1>1 DEF CourseInv, Unstarted
<1>6. Unstarted(current)'
  BY <1>1, <1>2 DEF Unstarted
<1>7. CompletedLeavesNothing'
  BY <1>1 DEF CourseInv, CompletedLeavesNothing
<1> QED
  BY <1>3, <1>4, <1>5, <1>6, <1>7 DEF CourseInv

(* Without a client a pause finds no coroutine between the look at the pause and the call:     *)
(* those awaits are emits, which do not suspend, or the run is waiting for an *)
(* answer and cannot be paused.                                               *)
LEMMA PauseCourse ==
  ASSUME CourseInv, StopInv', NEW r \in Runs, PauseRun(r) \/ ResumeRun(r)
  PROVE  CourseInv'
<1>1. /\ LoopIdle /\ current = r /\ UNCHANGED <<current, starting, task, ran>>
      /\ \E state \in {"running", "paused"} : Emit(r, [run[r] EXCEPT !.state = state])
      /\ run[r].state \in {"running", "paused"}
  BY DEF PauseRun, ResumeRun, history
<1>2. PICK state \in {"running", "paused"} : Emit(r, [run[r] EXCEPT !.state = state])
  BY <1>1
<1>3. run \in [Runs -> Run]
  BY DEF CourseInv, StopInv, SafeInv, TypeInv, TypeOK
<1>4. /\ \A q \in Runs : q # r => run'[q] = run[q]
      /\ run'[r].state = state /\ run'[r].steps = run[r].steps
  BY <1>2, <1>3 DEF Emit, Run
<1>5. ASSUME Unwatched, NEW t \in Runs, Live(t), task[t].pc \in Gated PROVE FALSE
  <2>1. task[t].pc = "waiting"
    BY <1>1, <1>5 DEF Unwatched, Gated, LoopIdle, Holding, EmitLabels
  <2>2. My(t).state = "waiting_confirmation" /\ My(t) = run[r]
    BY <1>1, <1>5, <2>1, CourseFacts DEF Doing
  <2> QED
    BY <1>1, <2>2
<1> QED
  BY <1>1, <1>4, <1>5, HandlerCourse

LEMMA AnswerCourse ==
  ASSUME CourseInv, StopInv', NEW r \in Runs,
         AbortRun(r) \/ \E answer \in {"approve", "reject"} : ConfirmStep(r, answer)
  PROVE  CourseInv'
<1>1. /\ UNCHANGED <<run, task, starting, current, ran>>
      /\ paused' = FALSE \/ paused' = paused
  BY DEF AbortRun, ConfirmStep
<1>2. Unwatched => \A t \in Runs : Live(t) /\ task[t].pc \in Gated => ~paused'
  BY <1>1 DEF CourseInv, Course
<1> QED
  BY <1>1, <1>2, HandlerCourse

LEMMA CourseInit == ASSUME Init PROVE CourseInv
<1>1. StopInv
  BY StopInit
<1>2. \A r \in Runs : run[r].steps = <<>> /\ run[r].state = "absent"
  BY DEF Init, Blank
<1>3. \A r \in Runs : Numbered(r, run[r])
  BY <1>2 DEF Init, Numbered
<1> QED
  BY <1>1, <1>2, <1>3
     DEF Init, CourseInv, CompletedLeavesNothing, Unstarted, Live

LEMMA CourseStep ==
  ASSUME CourseInv, [Next]_vars, [Patient]_vars
  PROVE  CourseInv'
<1>1. StopInv'
  BY StopStep DEF CourseInv
<1>2. CASE UNCHANGED vars
  <2>1. UNCHANGED <<run, task, starting, current, ran, paused>>
    BY <1>2 DEF vars, executor, history
  <2>2. Unwatched => \A t \in Runs : Live(t) /\ task[t].pc \in Gated => ~paused'
    BY <2>1 DEF CourseInv, Course
  <2> QED
    BY <1>1, <2>1, <2>2, HandlerCourse
<1>3. ASSUME NEW r \in Runs, Handler(r) PROVE CourseInv'
  BY <1>1, <1>3, StartCourse, PauseCourse, AnswerCourse DEF Handler
<1> QED
  BY <1>1, <1>2, <1>3, CreateCourse, CourseTaskStep DEF Next

LEMMA UnwatchedCourse ==
  ASSUME EmitYields = FALSE, CourseInv, [Next]_vars
  PROVE  CourseInv'
BY StepPatient, CourseStep DEF CourseInv, StopInv

(* Whatever client is connected, as long as callers wait for the executor to  *)
(* be empty a completed run left no step behind, whatever the evaluator        *)
(* inserted, rewrote or skipped on the way.                                   *)
THEOREM PatientNothingLeft == Spec /\ PatientCallers => []CompletedLeavesNothing
<1>1. Init => CourseInv
  BY CourseInit
<1>2. CourseInv /\ [Next]_vars /\ [Patient]_vars => CourseInv'
  BY CourseStep
<1>3. CourseInv => CompletedLeavesNothing
  BY DEF CourseInv
<1> QED
  BY <1>1, <1>2, <1>3, PTL DEF Spec, PatientCallers

(* Without a WebSocket client, a completed run left no step behind.           *)
THEOREM NothingLeft == ASSUME EmitYields = FALSE PROVE Spec => []CompletedLeavesNothing
BY UnwatchedIsPatient, PatientNothingLeft

(* A tool call is started by the coroutine that stands before it, and only    *)
(* from the awaits CourseInv speaks of.                                       *)
LEMMA CallInOrder ==
  ASSUME CourseInv, Next, Patient, NEW t \in Runs, StartsTool(t)
  PROVE  (Unwatched => ~paused) /\ <<task[t].run, MyStep(t).id>> \notin ran
<1>0. /\ StopInv' /\ TypeInv' /\ SafeInv /\ task \in [Runs -> Task]
  BY StopStep DEF CourseInv, StopInv, SafeInv, TypeInv, TypeOK
<1>1. PICK r \in Runs : Handler(r) \/ CreateTask(r) \/ TaskStep(r)
  BY DEF Next
<1>2. TaskStep(r)
  <2>1. CASE Handler(r)
    <3>1. task' = task
      BY <2>1 DEF Handler, StartPlan, Launch, PauseRun, ResumeRun, AbortRun, ConfirmStep
    <3> QED
      BY <3>1 DEF StartsTool
  <2>2. CASE CreateTask(r)
    <3>1. task'[t].pc \in {task[t].pc, "start"}
      BY <1>0, <2>2 DEF CreateTask, Task
    <3> QED
      BY <3>1 DEF StartsTool
  <2> QED
    BY <1>1, <2>1, <2>2
<1>3. Shape(r)
  BY <1>2, TaskStepShape DEF CourseInv
<1>4. r = t
  BY <1>3 DEF Shape, StartsTool
<1>5. StartTool(t) /\ task[t].pc \in {"prepared", "confirmed"}
  BY <1>3, <1>4 DEF Shape, StartsTool
<1>6. task[t].pc \in AtStep /\ task[t].pc \in Gated
  BY <1>5 DEF AtStep, Gated
<1>7. Live(t) /\ task[t].i \in 1..Len(My(t).steps)
  BY <1>0, <1>6, AtStepFacts DEF SafeInv
<1> QED
  BY <1>0, <1>5, <1>6, <1>7, StartToolFollows

(* Without a WebSocket client, no tool call is started while the run is       *)
(* paused.                                                                    *)
THEOREM PauseHolds == ASSUME EmitYields = FALSE PROVE Spec => PauseHoldsTools
<1>1. Init => CourseInv
  BY CourseInit
<1>2. CourseInv /\ [Next]_vars => CourseInv'
  BY UnwatchedCourse
<1>3. CourseInv /\ [Next]_vars => [\A t \in Runs : StartsTool(t) => ~paused]_vars
  BY CallInOrder, StepPatient DEF Unwatched, CourseInv, StopInv
<1> QED
  BY <1>1, <1>2, <1>3, PTL DEF Spec, PauseHoldsTools

(* Whatever client is connected, as long as callers wait for the executor to  *)
(* be empty no step of a run is executed twice.                               *)
THEOREM PatientOnce == Spec /\ PatientCallers => StepOnce
<1>1. Init => CourseInv
  BY CourseInit
<1>2. CourseInv /\ [Next]_vars /\ [Patient]_vars => CourseInv'
  BY CourseStep
<1>3. CourseInv /\ [Next]_vars /\ [Patient]_vars =>
        [\A t \in Runs : StartsTool(t) => <<task[t].run, MyStep(t).id>> \notin ran]_vars
  BY CallInOrder
<1> QED
  BY <1>1, <1>2, <1>3, PTL DEF Spec, PatientCallers, StepOnce

(* Without a WebSocket client, no step of a run is executed twice, whatever   *)
(* the evaluator inserts, rewrites or skips.                                  *)
THEOREM StepsOnce == ASSUME EmitYields = FALSE PROVE Spec => StepOnce
BY UnwatchedIsPatient, PatientOnce

(* What a run ended as is never revised. *)
LEMMA EndedStays ==
  ASSUME StopInv, Next, NEW q \in Runs, run[q].state \in RunTerminal
  PROVE  run'[q] = run[q]
<1>0. SafeInv /\ run \in [Runs -> Run] /\ NoRun \notin Runs
  BY ConstantsOK DEF StopInv, SafeInv, TypeInv, TypeOK
<1>1. PICK r \in Runs : Handler(r) \/ CreateTask(r) \/ TaskStep(r)
  BY DEF Next
<1>2. CASE TaskStep(r)
  <2>1. Shape(r)
    BY <1>2, TaskStepShape
  <2>2. CASE q # current
    BY <2>1, <2>2 DEF Shape
  <2>3. CASE q = current
    <3>1. Busy(r) /\ Doing(r)
      BY <2>1 DEF Shape, StopInv, SafeInv
    <3>2. task[r].pc = "finishing" \/ task[r].pc \in {"asking", "waiting"}
      BY <2>3, <3>1 DEF Doing, RunTerminal
    <3>3. task[r].pc = "finishing"
      <4>1. task[r].pc \in {"asking", "waiting"} => Live(r)
        BY DEF Live
      <4> QED
        BY <1>0, <2>3, <3>1, <3>2, <4>1, LiveSafe DEF Doing, RunTerminal
    <3> QED
      BY <2>1, <3>3 DEF Shape
  <2> QED
    BY <2>2, <2>3
<1>3. CASE Handler(r) \/ CreateTask(r)
  <2>1. \/ UNCHANGED run
        \/ \E s : Emit(r, s) /\ run[r].state \in {"absent", "running", "paused"}
    BY <1>3 DEF Handler, CreateTask, StartPlan, Launch, PauseRun, ResumeRun, AbortRun,
                ConfirmStep
  <2> QED
    BY <1>0, <2>1, WriteOne DEF RunTerminal
<1> QED
  BY <1>1, <1>2, <1>3

(* Whatever client is connected, as long as callers wait for the executor to  *)
(* be empty the outcome of a run and the fate of each of its steps are final. *)
THEOREM PatientFinal == Spec /\ PatientCallers => OutcomeIsFinal
<1>1. Init => StopInv
  BY StopInit
<1>2. StopInv /\ [Next]_vars /\ [Patient]_vars => StopInv'
  BY StopStep
<1>3. StopInv /\ [Next]_vars =>
        [\A r \in Runs : run[r].state \in RunTerminal => run'[r] = run[r]]_vars
  BY EndedStays
<1> QED
  BY <1>1, <1>2, <1>3, PTL DEF Spec, PatientCallers, OutcomeIsFinal

(* Without a WebSocket client, the outcome of a run and the fate of each of    *)
(* its steps are final.                                                       *)
THEOREM OutcomesFinal == ASSUME EmitYields = FALSE PROVE Spec => OutcomeIsFinal
BY UnwatchedIsPatient, PatientFinal

-----------------------------------------------------------------------------
(* The abort.  After a call made too late the coroutine goes back to the head *)
(* of its loop, and there it looks at the event.                              *)
Spent == {"tool", "evaluating", "failing", "advance", "head", "finishing"}

Late(r) == \E call \in late : call[1] = r

PromptInv ==
  /\ CourseInv
  /\ AbortIsPrompt
  /\ \A t \in Runs : Live(t) /\ Late(task[t].run) => task[t].pc \in Spent

(* From there it comes to no other tool call as long as the event is up.      *)
LEMMA SpentStays ==
  ASSUME StopInv, NEW t \in Runs, TaskStep(t), task[t].pc \in Spent, abort
  PROVE  task'[t].pc \in Spent \cup {"done"} /\ UNCHANGED late
<1>0. TypeInv
  BY DEF StopInv, SafeInv
<1>1. ASSUME NEW label \in Spent \cup {"done"}, GoTo(t, label) PROVE task'[t].pc \in Spent \cup {"done"}
  BY <1>0, <1>1, GoToCalm
<1>2. ASSUME NEW k, MoveTo(t, k) PROVE task'[t].pc \in Spent
  BY <1>0, <1>2, MoveToCalm DEF Spent
<1>3. ASSUME NEW s, NEW outcome, Finish(t, s, outcome)
      PROVE  task'[t].pc \in Spent /\ UNCHANGED late
  BY <1>0, <1>3, GoToCalm DEF Finish, history, Spent
<1>4. CASE LoopHead(t)
  BY <1>3, <1>4 DEF LoopHead, PauseGate
<1>5. CASE ToolReturns(t, TRUE) \/ ToolReturns(t, FALSE)
  BY <1>1, <1>2, <1>5 DEF ToolReturns, history, Spent
<1>6. CASE ToolRaises(t) \/ Failing(t) \/ EvaluateAbort(t)
  BY <1>3, <1>6 DEF ToolRaises, Failing, EvaluateAbort
<1>7. CASE EvaluateContinue(t) \/ EvaluateModify(t) \/ EvaluateAddStep(t) \/ EvaluateSkip(t)
  <2>1. \E s, k : Revise(t, s, k)
    BY <1>7 DEF EvaluateContinue, EvaluateModify, EvaluateAddStep, EvaluateSkip
  <2> QED
    BY <1>2, <2>1 DEF Revise, history
<1>8. CASE Advance(t)
  BY <1>1, <1>8 DEF Advance, history, Spent
<1>9. CASE Finally(t)
  BY <1>1, <1>9 DEF Finally, history
<1> QED
  BY <1>4, <1>5, <1>6, <1>7, <1>8, <1>9
     DEF TaskStep, Evaluate, Begin, WakePaused, Unpaused, Prepared, Asking, Answered,
         Confirmed, Spent

(* A run whose coroutine has not begun had no call at all.                    *)
LEMMA PromptTaskStep ==
  ASSUME PromptInv, CourseInv', NEW t \in Runs, TaskStep(t)
  PROVE  PromptInv'
<1>0. /\ SafeInv /\ StopInv /\ Shape(t) /\ Busy(t) /\ task \in [Runs -> Task]
      /\ \A u \in Runs \ {t} : ~Live(u)'
  <2>1. SafeInv /\ StopInv /\ Shape(t) /\ task \in [Runs -> Task]
    BY TaskStepShape DEF PromptInv, CourseInv, StopInv, SafeInv, TypeInv, TypeOK
  <2> QED
    BY <2>1 DEF Shape, SafeInv, Alone, Busy, Live
<1>1. CASE Begin(t)
  <2>1. /\ current # NoRun /\ current \in Runs /\ task[t].pc = "start" /\ UNCHANGED late
    BY <1>0, <1>1 DEF Begin, SafeInv, Doing, TypeInv, TypeOK, history
  <2>2. task'[t].pc = "head"
    BY <1>0, <1>1, <2>1 DEF Begin, Task
  <2> QED
    BY <1>0, <2>1, <2>2 DEF PromptInv, AbortIsPrompt, Spent, Late
<1>2. CASE ~Begin(t)
  <2>1. Live(t) /\ task[t].run = current /\ current \in Runs
    <3>1. Live(t)
      BY <1>2, LiveStepFollows DEF PromptInv, CourseInv, StopInv, SafeInv
    <3> QED
      BY <1>0, <3>1, LiveSafe
  <2>2. CASE task[t].pc \in Spent /\ Late(current)
    <3>1. abort
      BY <1>0, <2>2 DEF Late, StopInv, AbortInv
    <3>2. task'[t].pc \in Spent \cup {"done"} /\ UNCHANGED late
      BY <1>0, <2>2, <3>1, SpentStays
    <3> QED
      BY <1>0, <3>2 DEF PromptInv, AbortIsPrompt, Live
  <2>3. CASE ~Late(current) /\ task'[t].pc = "tool"
    <3>1. StartTool(t)
      BY <1>0, <2>3 DEF Shape
    <3>2. late' \subseteq late \cup {<<current, MyStep(t).id>>}
      BY <2>1, <3>1 DEF StartTool
    <3>3. AbortIsPrompt'
      BY <2>3, <3>2 DEF AbortIsPrompt, PromptInv, Late
    <3> QED
      BY <1>0, <2>3, <3>3 DEF PromptInv, Spent
  <2>4. CASE ~Late(current) /\ task'[t].pc # "tool"
    <3>1. UNCHANGED late
      BY <1>0, <2>4 DEF Shape
    <3>2. Live(t)' => task'[t].run = current
      BY <1>2, <2>1, LiveStepFollows DEF PromptInv, CourseInv, StopInv, SafeInv, Follows, Live
    <3> QED
      BY <1>0, <2>4, <3>1, <3>2 DEF PromptInv, AbortIsPrompt, Late
  <2> QED
    BY <2>1, <2>2, <2>3, <2>4 DEF PromptInv
<1> QED
  BY <1>1, <1>2

LEMMA PromptStep ==
  ASSUME PromptInv, [Next]_vars, [Patient]_vars
  PROVE  PromptInv'
<1>1. CourseInv'
  BY CourseStep DEF PromptInv
<1>2. CASE UNCHANGED vars
  BY <1>1, <1>2 DEF PromptInv, AbortIsPrompt, Late, Live, vars, history
<1>3. ASSUME NEW r \in Runs, Handler(r) PROVE PromptInv'
  <2>1. UNCHANGED <<task, late>>
    BY <1>3 DEF Handler, StartPlan, Launch, PauseRun, ResumeRun, AbortRun, ConfirmStep, history
  <2> QED
    BY <1>1, <2>1 DEF PromptInv, AbortIsPrompt, Late, Live
<1>4. ASSUME NEW r \in Runs, CreateTask(r) PROVE PromptInv'
  <2>1. UNCHANGED late /\ \A t \in Runs : Live(t)' => task'[t] = task[t]
    BY <1>4 DEF CreateTask, history, Live, PromptInv, CourseInv, StopInv, SafeInv, TypeInv,
                TypeOK, Task
  <2> QED
    BY <1>1, <2>1 DEF PromptInv, AbortIsPrompt, Late, Live
<1> QED
  BY <1>1, <1>2, <1>3, <1>4, PromptTaskStep DEF Next

LEMMA PromptInit == ASSUME Init PROVE PromptInv
BY CourseInit DEF Init, PromptInv, AbortIsPrompt, Late

(* Whatever client is connected, as long as callers wait for the executor to  *)
(* be empty an accepted abort lets at most one more tool call of its run be    *)
(* started.                                                                   *)
THEOREM PatientPrompt == Spec /\ PatientCallers => []AbortIsPrompt
<1>1. Init => PromptInv
  BY PromptInit
<1>2. PromptInv /\ [Next]_vars /\ [Patient]_vars => PromptInv'
  BY PromptStep
<1>3. PromptInv => AbortIsPrompt
  BY DEF PromptInv
<1> QED
  BY <1>1, <1>2, <1>3, PTL DEF Spec, PatientCallers

(* Without a WebSocket client, once abort_run has been accepted no tool call *)
(* of that run is started, unless for one step the operator approved.        *)
THEOREM AbortHolds == ASSUME EmitYields = FALSE PROVE Spec => []AbortHoldsTools
<1>1. Init => StopInv
  BY StopInit
<1>2. StopInv /\ [Next]_vars => StopInv'
  BY UnwatchedStop
<1>3. StopInv /\ AbortIsPrompt => AbortHoldsTools
  BY DEF StopInv, AbortInv, AbortHoldsTools, Unwatched
<1>4. Spec => []AbortIsPrompt
  BY UnwatchedIsPatient, PatientPrompt
<1> QED
  BY <1>1, <1>2, <1>3, <1>4, PTL DEF Spec
=============================================================================
