---------------------------- MODULE PlanSafety_proofs ----------------------------
(* The safety of PlanRun.  What it takes is that no run is started while the *)
(* coroutine of the last one is still there.  Callers who wait for the        *)
(* executor to be empty see to that; and so does start_plan by itself when no *)
(* WebSocket client is connected, because then no emit suspends.  Otherwise   *)
(* the theorems are false (run PlanCrossed).                                  *)
EXTENDS PlanRun_proofs

(* The inductive invariant.  One coroutine at most exists and the run it has *)
(* captured is the current one; where it is suspended determines the state   *)
(* of that run, the owner of the confirmation future, and what has been      *)
(* approved.                                                                 *)
Busy(t)     == task[t].pc \notin {"none", "done"}
Approved(t) == <<task[t].run, MyStep(t).id>> \in approved

Doing(t) ==
  /\ current # NoRun
  /\ Live(t) => task[t].run = current
  /\ task[t].pc \notin {"asking", "waiting", "finishing"} =>
       run[current].state \in {"running", "paused"}
  /\ task[t].pc = "finishing" => run[current].state \in RunTerminal
  /\ task[t].pc \in {"asking", "waiting"} =>
       /\ My(t).state = "waiting_confirmation" /\ My(t).waiting = MyStep(t).id
       /\ confirmation = t /\ MyStep(t).risk # "deny"
       /\ future[t] = "approve" => Approved(t)
  /\ task[t].pc = "waiting" => task[t].future = t
  /\ task[t].pc = "confirmed" => MyStep(t).risk # "deny" /\ (task[t].ok => Approved(t))
  /\ task[t].pc = "tool" => /\ MyStep(t).risk # "deny"
                            /\ Needs(My(t), MyStep(t)) => Approved(t)

Ended(r) == run[r].state \in RunTerminal \cup {"absent"}

Alone ==
  /\ \A r \in Runs : r # current => Ended(r)
  /\ starting # NoRun => /\ current = starting
                         /\ run[current].state \in {"running", "paused"}
                         /\ \A t \in Runs : ~Busy(t)
  /\ current # NoRun => starting = current \/ \E t \in Runs : Busy(t)
  /\ \A t, u \in Runs : Busy(t) /\ Busy(u) => t = u

SafeInv == TypeInv /\ Alone /\ \A t \in Runs : Busy(t) => Doing(t)

Calm == {"head", "unpaused", "paused", "prepared", "evaluating", "advance", "failing"}

(* No other coroutine, and no other run, is touched. *)
Only(t) == /\ \A u \in Runs \ {t} : task'[u] = task[u]
           /\ \A r \in Runs : r # current => run'[r] = run[r]

(* What SafeInv says of the coroutine that takes a step. *)
LEMMA LiveSafe ==
  ASSUME SafeInv, NEW t \in Runs, Live(t)
  PROVE  /\ Busy(t) /\ Doing(t) /\ task[t].run = current /\ current \in Runs
         /\ My(t) = run[current] /\ starting = NoRun
<1>1. Busy(t)
  BY DEF Busy, Live
<1> QED
  BY <1>1 DEF SafeInv, Alone, Doing, TypeInv, TypeOK, My

LEMMA StepSafe ==
  ASSUME SafeInv, TypeInv', NEW t \in Runs, Busy(t), UNCHANGED <<current, starting>>,
         Only(t), Busy(t)', Doing(t)'
  PROVE  SafeInv'
<1>1. starting = NoRun /\ \A u \in Runs \ {t} : ~Busy(u)
  BY DEF SafeInv, Alone
<1>2. \A u \in Runs \ {t} : ~Busy(u)'
  BY <1>1 DEF Only, Busy
<1>3. \A r \in Runs : r # current => Ended(r)'
  BY DEF Only, SafeInv, Alone, Ended
<1>4. Alone'
  BY <1>1, <1>2, <1>3 DEF Alone
<1> QED
  BY <1>2, <1>4 DEF SafeInv

(* A coroutine that writes s to its run and stays on course. *)
LEMMA CalmSafe ==
  ASSUME SafeInv, TypeInv', NEW t \in Runs, Live(t),
         NEW s \in Run, s.state \in {"running", "paused"},
         Emit(task[t].run, s) \/ Keep(task[t].run, s),
         \A u \in Runs \ {t} : task'[u] = task[u],
         task'[t].run = task[t].run, task'[t].pc \in Calm,
         UNCHANGED <<executor, history>>
  PROVE  SafeInv'
<1>1. /\ Busy(t) /\ task[t].run = current /\ current \in Runs /\ current # NoRun
      /\ run \in [Runs -> Run]
  BY LiveSafe, ConstantsOK DEF SafeInv, TypeInv, TypeOK
<1>2. run'[current] = s /\ Only(t)
  BY <1>1 DEF Emit, Keep, Only
<1>3. UNCHANGED <<current, starting>>
  BY DEF executor
<1>4. Busy(t)' /\ Doing(t)'
  BY <1>1, <1>2, <1>3 DEF Busy, Doing, Calm
<1> QED
  BY <1>1, <1>2, <1>3, <1>4, StepSafe

LEMMA FinishSafe ==
  ASSUME SafeInv, TypeInv', NEW t \in Runs, Live(t), NEW s \in Run,
         NEW outcome \in RunTerminal,
         Emit(task[t].run, [s EXCEPT !.state = outcome]), GoTo(t, "finishing"),
         UNCHANGED <<current, starting>>
  PROVE  SafeInv'
<1>1. /\ Busy(t) /\ task[t].run = current /\ current \in Runs /\ current # NoRun
      /\ run \in [Runs -> Run] /\ task \in [Runs -> Task]
  BY LiveSafe, ConstantsOK DEF SafeInv, TypeInv, TypeOK
<1>2. [s EXCEPT !.state = outcome].state = outcome
  BY DEF Run
<1>3. run'[current].state = outcome /\ \A r \in Runs : r # current => run'[r] = run[r]
  BY <1>1, <1>2 DEF Emit
<1>4. /\ \A u \in Runs \ {t} : task'[u] = task[u]
      /\ task'[t].pc = "finishing" /\ task'[t].run = task[t].run
  BY <1>1 DEF GoTo, Task
<1>5. Only(t) /\ Busy(t)' /\ Doing(t)'
  BY <1>1, <1>3, <1>4 DEF Only, Busy, Doing
<1> QED
  BY <1>1, <1>5, StepSafe

LEMMA ToolSafe ==
  ASSUME SafeInv, TypeInv', NEW t \in Runs, Live(t), StartTool(t),
         My(t).state \in {"running", "paused"}, MyStep(t).risk # "deny",
         Needs(My(t), MyStep(t)) => Approved(t)
  PROVE  SafeInv'
<1>1. /\ Busy(t) /\ task[t].run = current /\ current # NoRun /\ My(t) = run[current]
      /\ task \in [Runs -> Task]
  BY LiveSafe, ConstantsOK DEF SafeInv, TypeInv, TypeOK
<1>2. GoTo(t, "tool") /\ UNCHANGED <<run, executor, approved>>
  BY DEF StartTool
<1>3. /\ \A u \in Runs \ {t} : task'[u] = task[u]
      /\ task'[t].pc = "tool" /\ task'[t].run = task[t].run /\ task'[t].i = task[t].i
  BY <1>1, <1>2 DEF GoTo, Task
<1>4. UNCHANGED <<My(t), MyStep(t), Needs(My(t), MyStep(t)), Approved(t)>>
  BY <1>2, <1>3 DEF My, MyStep, Needs, Approved
<1>5. UNCHANGED <<current, starting>>
  BY <1>2 DEF executor
<1>6. Only(t) /\ Busy(t)'
  BY <1>2, <1>3 DEF Only, Busy
<1>7. Doing(t)'
  BY <1>1, <1>2, <1>3, <1>4, <1>5 DEF Doing
<1> QED
  BY <1>1, <1>5, <1>6, <1>7, StepSafe

-----------------------------------------------------------------------------
(* One lemma per stretch of the coroutine. *)

LEMMA GoToCalm ==
  ASSUME TypeInv, NEW t \in Runs, NEW label, GoTo(t, label)
  PROVE  /\ \A u \in Runs \ {t} : task'[u] = task[u]
         /\ task'[t].run = task[t].run /\ task'[t].pc = label /\ task'[t].i = task[t].i
BY DEF TypeInv, TypeOK, GoTo, Task

LEMMA MoveToCalm ==
  ASSUME TypeInv, NEW t \in Runs, NEW k, MoveTo(t, k)
  PROVE  /\ \A u \in Runs \ {t} : task'[u] = task[u]
         /\ task'[t].run = task[t].run /\ task'[t].pc = "advance"
BY DEF TypeInv, TypeOK, MoveTo, Task

LEMMA DispatchSafe ==
  ASSUME SafeInv, TypeInv', NEW t \in Runs, Live(t),
         task[t].i \in 1..Len(My(t).steps), task[t].pc \in Calm, Dispatch(t)
  PROVE  SafeInv'
<1> DEFINE here == [My(t) EXCEPT !.at = task[t].i]
<1>1. My(t) \in Run /\ task[t].i \in Nat /\ task \in [Runs -> Task]
  BY LiveFacts DEF SafeInv, TypeInv, TypeOK
<1>2. My(t).state \in {"running", "paused"}
  BY LiveSafe DEF Doing, Calm
<1>3. here \in Run /\ here.steps = My(t).steps /\ here.state = My(t).state
  BY <1>1 DEF Run
<1>4. UNCHANGED <<executor, history>>
  BY DEF Dispatch
<1>5. CASE MyStep(t).status \in StepTerminal
  <2>1. Keep(task[t].run, here)
        /\ task' = [task EXCEPT ![t].pc = "head", ![t].i = @ + 1]
    BY <1>5 DEF Dispatch
  <2> HIDE DEF here
  <2>2. /\ \A u \in Runs \ {t} : task'[u] = task[u]
        /\ task'[t].run = task[t].run /\ task'[t].pc \in Calm
    BY <1>1, <2>1 DEF Task, Calm
  <2>3. here \in Run /\ here.state \in {"running", "paused"}
    BY <1>2, <1>3
  <2> QED
    BY <1>4, <2>1, <2>2, <2>3, CalmSafe
<1>6. CASE MyStep(t).status \notin StepTerminal
  <2> DEFINE m    == Mark(here, task[t].i, "running")
             next == [m EXCEPT !.state = "running", !.waiting = 0]
  <2>1. Emit(task[t].run, next) /\ GoTo(t, "prepared")
    BY <1>6 DEF Dispatch
  <2> HIDE DEF here
  <2>2. m \in Run
    BY <1>3, MarkType DEF StepStates
  <2> HIDE DEF m
  <2>3. next \in Run /\ next.state = "running"
    BY <2>2 DEF Run, RunStates
  <2> HIDE DEF next
  <2>4. /\ \A u \in Runs \ {t} : task'[u] = task[u]
        /\ task'[t].run = task[t].run /\ task'[t].pc \in Calm
    BY <2>1, GoToCalm DEF Calm, SafeInv
  <2> QED
    BY <1>4, <2>1, <2>3, <2>4, CalmSafe
<1> QED
  BY <1>5, <1>6

LEMMA PauseGateSafe ==
  ASSUME SafeInv, TypeInv', NEW t \in Runs, Live(t),
         task[t].i \in 1..Len(My(t).steps), task[t].pc \in Calm, PauseGate(t)
  PROVE  SafeInv'
<1>1. My(t) \in Run
  BY LiveFacts DEF SafeInv
<1>2. CASE Finish(t, My(t), "aborted")
  BY <1>1, <1>2, FinishSafe DEF Finish, executor, RunTerminal
<1>3. ASSUME NEW state \in {"paused", "running"}, NEW label \in {"paused", "unpaused"},
             Emit(task[t].run, [My(t) EXCEPT !.state = state]), GoTo(t, label),
             UNCHANGED <<executor, history>>
      PROVE  SafeInv'
  <2> DEFINE s == [My(t) EXCEPT !.state = state]
  <2>1. s \in Run /\ s.state \in {"running", "paused"}
    BY <1>1 DEF Run, RunStates
  <2>2. Emit(task[t].run, s)
    BY <1>3
  <2> HIDE DEF s
  <2>3. /\ \A u \in Runs \ {t} : task'[u] = task[u]
        /\ task'[t].run = task[t].run /\ task'[t].pc \in Calm
    BY <1>3, GoToCalm DEF Calm, SafeInv
  <2> QED
    BY <1>3, <2>1, <2>2, <2>3, CalmSafe
<1>4. CASE Dispatch(t)
  BY <1>4, DispatchSafe
<1> QED
  BY <1>2, <1>3, <1>4 DEF PauseGate

LEMMA BeginSafe ==
  ASSUME SafeInv, TypeInv', NEW t \in Runs, Begin(t)
  PROVE  SafeInv'
<1>1. /\ Busy(t) /\ Doing(t) /\ current # NoRun /\ task[t].pc = "start"
      /\ run[current].state \in {"running", "paused"}
  BY DEF Begin, Busy, Doing, SafeInv
<1>2. UNCHANGED <<run, executor>> /\ task \in [Runs -> Task]
  BY DEF Begin, SafeInv, TypeInv, TypeOK
<1>3. /\ \A u \in Runs \ {t} : task'[u] = task[u]
      /\ task'[t].pc = "head" /\ task'[t].run = current
  BY <1>1, <1>2 DEF Begin, Task
<1>4. UNCHANGED <<current, starting>>
  BY <1>2 DEF executor
<1>5. Only(t) /\ Busy(t)' /\ Doing(t)'
  BY <1>1, <1>2, <1>3, <1>4 DEF Only, Busy, Doing
<1> QED
  BY <1>1, <1>4, <1>5, StepSafe

LEMMA LoopHeadSafe ==
  ASSUME SafeInv, TypeInv', NEW t \in Runs, LoopHead(t)
  PROVE  SafeInv'
<1>1. Live(t) /\ task[t].pc \in Calm
  BY DEF LoopHead, Live, Calm
<1>2. /\ My(t) \in Run /\ Len(My(t).steps) \in Nat
      /\ task[t].i \in 1..Len(My(t).steps) + 1
  BY <1>1, LiveFacts DEF SafeInv
<1>3. CASE Finish(t, [My(t) EXCEPT !.at = Len(My(t).steps) + 1], "completed")
  <2> DEFINE s == [My(t) EXCEPT !.at = Len(My(t).steps) + 1]
  <2>1. s \in Run
    BY <1>2 DEF Run
  <2>2. Finish(t, s, "completed")
    BY <1>3
  <2> HIDE DEF s
  <2> QED
    BY <1>1, <2>1, <2>2, FinishSafe DEF Finish, executor, RunTerminal
<1>4. CASE task[t].i <= Len(My(t).steps) /\ PauseGate(t)
  BY <1>1, <1>2, <1>4, PauseGateSafe
<1> QED
  BY <1>3, <1>4 DEF LoopHead

(* A call that needs an answer asks for it: the future is this task's own.   *)
LEMMA PreparedSafe ==
  ASSUME SafeInv, TypeInv', NEW t \in Runs, Prepared(t)
  PROVE  SafeInv'
<1>1. task[t].pc \in AtStep /\ task[t].pc \in Calm
  BY DEF Prepared, AtStep, Calm
<1>2. /\ Live(t) /\ task[t].i \in 1..Len(My(t).steps) /\ Len(My(t).steps) \in Nat
      /\ My(t) \in Run /\ MyStep(t) \in Step
  BY <1>1, AtStepFacts DEF SafeInv
<1>3. My(t).state \in {"running", "paused"} /\ task[t].run = current /\ Busy(t)
      /\ current \in Runs /\ current # NoRun
  BY <1>1, <1>2, LiveSafe, ConstantsOK DEF Doing, Calm
<1>4. CASE Finish(t, Mark(My(t), task[t].i, "failed"), "failed")
  <2> DEFINE s == Mark(My(t), task[t].i, "failed")
  <2>1. s \in Run
    BY <1>2, MarkType DEF StepStates
  <2>2. Finish(t, s, "failed")
    BY <1>4
  <2> HIDE DEF s
  <2> QED
    BY <1>2, <2>1, <2>2, FinishSafe DEF Finish, executor, RunTerminal
<1>5. CASE /\ MyStep(t).risk # "deny"
           /\ Emit(task[t].run, [Mark(My(t), task[t].i, "waiting_confirmation")
                                   EXCEPT !.state = "waiting_confirmation",
                                          !.waiting = MyStep(t).id])
           /\ confirmation' = t
           /\ future' = [future EXCEPT ![t] = "pending"]
           /\ GoTo(t, "asking")
           /\ UNCHANGED <<current, starting, paused, abort, history>>
  <2> DEFINE m == Mark(My(t), task[t].i, "waiting_confirmation")
             s == [m EXCEPT !.state = "waiting_confirmation", !.waiting = MyStep(t).id]
             step == [MyStep(t) EXCEPT !.status = "waiting_confirmation"]
  <2>1. m \in Run /\ m.steps[task[t].i] = step
    BY <1>2, MarkType DEF StepStates, MyStep
  <2>2. step.id = MyStep(t).id /\ step.risk = MyStep(t).risk
    BY <1>2 DEF Step
  <2>3. Emit(task[t].run, s)
    BY <1>5
  <2> HIDE DEF m, step
  <2>4. s.state = "waiting_confirmation" /\ s.waiting = MyStep(t).id
        /\ s.steps[task[t].i] = step
    BY <2>1 DEF Run
  <2> HIDE DEF s
  <2>5. /\ \A u \in Runs \ {t} : task'[u] = task[u]
        /\ task'[t].run = task[t].run /\ task'[t].pc = "asking" /\ task'[t].i = task[t].i
    BY <1>5, GoToCalm DEF SafeInv
  <2>6. run'[current] = s /\ (\A r \in Runs : r # current => run'[r] = run[r])
        /\ future'[t] = "pending"
    BY <1>3, <1>5, <2>3 DEF Emit, SafeInv, TypeInv, TypeOK
  <2>7. My(t)' = s /\ MyStep(t)' = step
    BY <1>3, <2>4, <2>5, <2>6 DEF My, MyStep
  <2>8. Only(t) /\ Busy(t)' /\ Doing(t)'
    BY <1>3, <1>5, <2>2, <2>4, <2>5, <2>6, <2>7 DEF Only, Busy, Doing
  <2> QED
    BY <1>3, <1>5, <2>8, StepSafe
<1>6. CASE MyStep(t).risk # "deny" /\ ~Needs(My(t), MyStep(t)) /\ StartTool(t)
  BY <1>2, <1>3, <1>6, ToolSafe
<1> QED
  BY <1>4, <1>5, <1>6 DEF Prepared

LEMMA AskingSafe ==
  ASSUME SafeInv, TypeInv', NEW t \in Runs, Asking(t)
  PROVE  SafeInv'
<1>1. /\ task \in [Runs -> Task] /\ task[t].pc = "asking" /\ Live(t)
  BY DEF SafeInv, TypeInv, TypeOK, Asking, Live
<1>2. /\ Busy(t) /\ Doing(t) /\ task[t].run = current /\ current # NoRun
      /\ confirmation = t /\ confirmation # NoRun /\ My(t) = run[current]
  BY <1>1, LiveSafe, ConstantsOK DEF Doing
<1>3. /\ task' = [task EXCEPT ![t].pc = "waiting", ![t].future = confirmation]
      /\ UNCHANGED <<run, store, executor, history>>
  BY <1>2 DEF Asking
<1>4. /\ \A u \in Runs \ {t} : task'[u] = task[u]
      /\ task'[t].run = task[t].run /\ task'[t].pc = "waiting" /\ task'[t].i = task[t].i
      /\ task'[t].future = t
  BY <1>1, <1>2, <1>3 DEF Task
<1>5. UNCHANGED <<current, starting, confirmation, future, approved>>
  BY <1>3 DEF executor, history
<1>6. UNCHANGED <<My(t), MyStep(t), Approved(t)>>
  BY <1>3, <1>4, <1>5 DEF My, MyStep, Approved
<1>7. Only(t) /\ Busy(t)' /\ Doing(t)'
  BY <1>1, <1>2, <1>3, <1>4, <1>5, <1>6 DEF Only, Busy, Doing
<1> QED
  BY <1>2, <1>5, <1>7, StepSafe

LEMMA AnsweredSafe ==
  ASSUME SafeInv, TypeInv', NEW t \in Runs, Answered(t)
  PROVE  SafeInv'
<1> DEFINE answer == future[task[t].future]
           heard  == [My(t) EXCEPT !.waiting = 0]
<1>1. task[t].pc \in AtStep /\ task[t].pc = "waiting" /\ task \in [Runs -> Task]
  BY DEF Answered, AtStep, SafeInv, TypeInv, TypeOK
<1>2. /\ Live(t) /\ task[t].i \in 1..Len(My(t).steps) /\ My(t) \in Run
      /\ MyStep(t) \in Step
  BY <1>1, AtStepFacts DEF SafeInv
<1>3. /\ Busy(t) /\ Doing(t) /\ task[t].run = current /\ current \in Runs
      /\ current # NoRun /\ task[t].future = t
  BY <1>1, <1>2, LiveSafe, ConstantsOK DEF Doing
<1>4. /\ MyStep(t).risk # "deny"
      /\ future[task[t].future] = "approve" => Approved(t)
  BY <1>1, <1>3 DEF Doing
<1>5. heard \in Run /\ heard.steps = My(t).steps
  BY <1>2 DEF Run
<1>6. UNCHANGED <<current, starting, approved>>
  BY DEF Answered, history
<1>7. CASE /\ Emit(task[t].run, [heard EXCEPT !.state = "aborted"])
           /\ GoTo(t, "finishing")
  <2> HIDE DEF heard
  <2> QED
    BY <1>2, <1>5, <1>6, <1>7, FinishSafe DEF RunTerminal
<1>8. CASE /\ Emit(task[t].run, [Mark(heard, task[t].i, "running")
                                    EXCEPT !.state = "running"])
           /\ task' = [task EXCEPT ![t].pc = "confirmed",
                                   ![t].ok = (answer = "approve")]
  <2> DEFINE m == Mark(heard, task[t].i, "running")
             s == [m EXCEPT !.state = "running"]
             step == [MyStep(t) EXCEPT !.status = "running"]
  <2>1. m \in Run /\ m.steps[task[t].i] = step
    <3>1. heard \in Run /\ task[t].i \in 1..Len(heard.steps)
          /\ heard.steps[task[t].i] = MyStep(t)
      BY <1>2, <1>5 DEF MyStep
    <3> HIDE DEF heard
    <3>2. "running" \in StepStates
      BY DEF StepStates
    <3>3. m \in Run
          /\ m.steps[task[t].i] = [heard.steps[task[t].i] EXCEPT !.status = "running"]
      BY <3>1, <3>2, MarkType
    <3> HIDE DEF m
    <3> QED
      BY <3>1, <3>3
  <2>2. step.id = MyStep(t).id /\ step.risk = MyStep(t).risk
    BY <1>2 DEF Step
  <2>3. Emit(task[t].run, s)
    BY <1>8
  <2> HIDE DEF heard, m, step
  <2>4. s.state = "running" /\ s.steps[task[t].i] = step
    BY <2>1 DEF Run
  <2> HIDE DEF s
  <2>5. /\ \A u \in Runs \ {t} : task'[u] = task[u]
        /\ task'[t].run = task[t].run /\ task'[t].pc = "confirmed"
        /\ task'[t].i = task[t].i /\ task'[t].ok = (answer = "approve")
    BY <1>1, <1>8 DEF Task
  <2>6. run'[current] = s /\ \A r \in Runs : r # current => run'[r] = run[r]
    BY <1>3, <2>3 DEF Emit, SafeInv, TypeInv, TypeOK
  <2>7. My(t)' = s /\ MyStep(t)' = step
    BY <1>3, <2>4, <2>5, <2>6 DEF My, MyStep
  <2>8. Approved(t)' <=> Approved(t)
    BY <1>6, <2>2, <2>5, <2>7 DEF Approved
  <2>9. Only(t) /\ Busy(t)'
    BY <2>5, <2>6 DEF Only, Busy
  <2>10. Doing(t)'
    BY <1>3, <1>4, <1>6, <2>2, <2>4, <2>5, <2>6, <2>7, <2>8 DEF Doing
  <2> QED
    BY <1>3, <1>6, <2>9, <2>10, StepSafe
<1> QED
  BY <1>7, <1>8 DEF Answered

LEMMA ConfirmedSafe ==
  ASSUME SafeInv, TypeInv', NEW t \in Runs, Confirmed(t)
  PROVE  SafeInv'
<1>1. task[t].pc \in AtStep /\ task[t].pc = "confirmed"
  BY DEF Confirmed, AtStep
<1>2. Live(t) /\ task[t].i \in 1..Len(My(t).steps) /\ My(t) \in Run
  BY <1>1, AtStepFacts DEF SafeInv
<1>3. /\ MyStep(t).risk # "deny" /\ (task[t].ok => Approved(t))
      /\ My(t).state \in {"running", "paused"}
  BY <1>1, <1>2, LiveSafe DEF Doing
<1>4. CASE task[t].ok /\ StartTool(t)
  BY <1>2, <1>3, <1>4, ToolSafe
<1>5. CASE /\ Emit(task[t].run, [Mark(My(t), task[t].i, "skipped")
                                   EXCEPT !.state = "running", !.waiting = 0])
           /\ MoveTo(t, task[t].i + 1)
           /\ UNCHANGED <<executor, history>>
  <2> DEFINE m == Mark(My(t), task[t].i, "skipped")
             s == [m EXCEPT !.state = "running", !.waiting = 0]
  <2>1. m \in Run
    BY <1>2, MarkType DEF StepStates
  <2>2. Emit(task[t].run, s)
    BY <1>5
  <2> HIDE DEF m
  <2>3. s \in Run /\ s.state \in {"running", "paused"}
    BY <2>1 DEF Run, RunStates
  <2> HIDE DEF s
  <2>4. /\ \A u \in Runs \ {t} : task'[u] = task[u]
        /\ task'[t].run = task[t].run /\ task'[t].pc \in Calm
    BY <1>5, MoveToCalm DEF Calm, SafeInv
  <2> QED
    BY <1>2, <1>5, <2>2, <2>3, <2>4, CalmSafe
<1> QED
  BY <1>4, <1>5 DEF Confirmed

LEMMA ToolReturnsSafe ==
  ASSUME SafeInv, TypeInv', NEW t \in Runs, NEW success \in BOOLEAN,
         ToolReturns(t, success)
  PROVE  SafeInv'
<1> DEFINE s == Mark(My(t), task[t].i, IF success THEN "done" ELSE "failed")
<1>1. task[t].pc \in AtStep /\ task[t].pc = "tool"
  BY DEF ToolReturns, AtStep
<1>2. Live(t) /\ task[t].i \in 1..Len(My(t).steps) /\ My(t) \in Run
  BY <1>1, AtStepFacts DEF SafeInv
<1>3. My(t).state \in {"running", "paused"}
  BY <1>1, <1>2, LiveSafe DEF Doing
<1>4. s \in Run /\ s.state = My(t).state
  <2>1. (IF success THEN "done" ELSE "failed") \in StepStates
    BY DEF StepStates
  <2> QED
    BY <1>2, <2>1, MarkType
<1>5. UNCHANGED <<executor, history>>
  BY DEF ToolReturns
<1>6. /\ Emit(task[t].run, s) \/ Keep(task[t].run, s)
      /\ \/ GoTo(t, "evaluating")
         \/ MoveTo(t, task[t].i + 1)
         \/ GoTo(t, "failing")
  BY DEF ToolReturns
<1> HIDE DEF s
<1>7. /\ \A u \in Runs \ {t} : task'[u] = task[u]
      /\ task'[t].run = task[t].run /\ task'[t].pc \in Calm
  BY <1>6, GoToCalm, MoveToCalm DEF Calm, SafeInv
<1>8. s.state \in {"running", "paused"}
  BY <1>3, <1>4
<1> QED
  BY <1>2, <1>4, <1>5, <1>6, <1>7, <1>8, CalmSafe

LEMMA ReviseSafe ==
  ASSUME SafeInv, TypeInv', NEW t \in Runs, Judging(t), NEW s \in Run,
         s.state = My(t).state, NEW k, Revise(t, s, k)
  PROVE  SafeInv'
<1>1. Live(t) /\ task[t].pc \in Calm /\ task[t].pc = "evaluating"
  BY DEF Judging, Live, Calm
<1>2. s.state \in {"running", "paused"}
  BY <1>1, LiveSafe DEF Doing
<1>3. Emit(task[t].run, s) /\ MoveTo(t, k) /\ UNCHANGED <<executor, history>>
  BY DEF Revise
<1>4. /\ \A u \in Runs \ {t} : task'[u] = task[u]
      /\ task'[t].run = task[t].run /\ task'[t].pc \in Calm
  BY <1>3, MoveToCalm DEF Calm, SafeInv
<1> QED
  BY <1>1, <1>2, <1>3, <1>4, CalmSafe

LEMMA EvaluateSafe ==
  ASSUME SafeInv, TypeInv', NEW t \in Runs, Evaluate(t)
  PROVE  SafeInv'
<1>0. Judging(t)
  BY DEF Evaluate, EvaluateContinue, EvaluateAbort, EvaluateModify, EvaluateAddStep,
         EvaluateSkip
<1>1. task[t].pc \in AtStep
  BY <1>0 DEF Judging, AtStep
<1>2. /\ Live(t) /\ task[t].i \in 1..Len(My(t).steps) /\ Len(My(t).steps) \in Nat
      /\ My(t) \in Run /\ My(t).steps \in Seq(Step)
  BY <1>1, AtStepFacts, LiveFacts DEF SafeInv
<1>3. CASE EvaluateContinue(t)
  BY <1>0, <1>2, <1>3, ReviseSafe DEF EvaluateContinue
<1>4. CASE EvaluateAbort(t)
  BY <1>2, <1>4, FinishSafe DEF EvaluateAbort, Finish, executor, RunTerminal
<1>5. ASSUME NEW steps \in Seq(Step), NEW k,
             Revise(t, [My(t) EXCEPT !.steps = steps], k)
      PROVE  SafeInv'
  <2> DEFINE s == [My(t) EXCEPT !.steps = steps]
  <2>1. s \in Run /\ s.state = My(t).state /\ Revise(t, s, k)
    BY <1>2, <1>5 DEF Run
  <2> HIDE DEF s
  <2> QED
    BY <1>0, <2>1, ReviseSafe
<1>6. CASE EvaluateModify(t)
  <2>1. PICK k \in DOMAIN My(t).steps, risk \in Risks :
           Revise(t, [My(t) EXCEPT !.steps[k].risk = risk], task[t].i + 1)
    BY <1>6 DEF EvaluateModify
  <2> DEFINE step == [My(t).steps[k] EXCEPT !.risk = risk]
             new  == [My(t).steps EXCEPT ![k] = step]
  <2>2. k \in 1..Len(My(t).steps) /\ My(t).steps[k] \in Step
    BY <1>2, LenProperties, ElementOfSeq
  <2>3. step \in Step
    BY <2>2 DEF Step
  <2>4. Revise(t, [My(t) EXCEPT !.steps = new], task[t].i + 1)
    BY <1>2, <2>1 DEF Run
  <2> HIDE DEF step
  <2>5. new \in Seq(Step)
    BY <1>2, <2>2, <2>3, ExceptSeq
  <2> HIDE DEF new
  <2> QED
    BY <1>5, <2>4, <2>5
<1>7. CASE EvaluateAddStep(t)
  <2>1. PICK risk \in Risks, dangerous \in BOOLEAN :
           Revise(t, [My(t) EXCEPT !.steps = InsertAt(@, task[t].i + 1,
                        [id |-> Len(My(t).steps) + 1, risk |-> risk,
                         dangerous |-> dangerous, status |-> "pending"])],
                  task[t].i + 1)
    BY <1>7 DEF EvaluateAddStep
  <2> DEFINE step == [id |-> Len(My(t).steps) + 1, risk |-> risk,
                      dangerous |-> dangerous, status |-> "pending"]
             new  == InsertAt(My(t).steps, task[t].i + 1, step)
  <2>2. Revise(t, [My(t) EXCEPT !.steps = new], task[t].i + 1)
    BY <2>1
  <2>3. step \in Step
    BY <1>2 DEF Step, StepStates
  <2> HIDE DEF step
  <2>4. new \in Seq(Step)
    BY <1>2, <2>3, InsertType
  <2> HIDE DEF new
  <2> QED
    BY <1>5, <2>2, <2>4
<1>8. CASE EvaluateSkip(t)
  <2>1. ASSUME NEW to \in Int, NEW k, Revise(t, Skip(My(t), task[t].i + 1, to), k)
        PROVE  SafeInv'
    <3> DEFINE s == Skip(My(t), task[t].i + 1, to)
    <3>1. s \in Run /\ s.state = My(t).state
      BY <1>2, SkipType
    <3>2. Revise(t, s, k)
      BY <2>1
    <3> HIDE DEF s
    <3> QED
      BY <1>0, <3>1, <3>2, ReviseSafe
  <2>2. \A k \in DOMAIN My(t).steps : k - 1 \in Int
    BY <1>2, LenProperties
  <2>3. task[t].i + 1 \in Int
    BY <1>2
  <2> QED
    BY <1>8, <2>1, <2>2, <2>3 DEF EvaluateSkip
<1> QED
  BY <1>3, <1>4, <1>6, <1>7, <1>8 DEF Evaluate

LEMMA AdvanceSafe ==
  ASSUME SafeInv, TypeInv', NEW t \in Runs, Advance(t)
  PROVE  SafeInv'
<1>1. Live(t) /\ task[t].pc \in Calm
  BY DEF Advance, Live, Calm
<1>2. /\ Busy(t) /\ Doing(t) /\ task[t].run = current /\ current # NoRun
      /\ run[current].state \in {"running", "paused"}
  BY <1>1, LiveSafe, ConstantsOK DEF Doing, Calm
<1>3. GoTo(t, "head") /\ UNCHANGED <<run, current, starting>>
  BY DEF Advance, executor
<1>4. /\ \A u \in Runs \ {t} : task'[u] = task[u]
      /\ task'[t].run = task[t].run /\ task'[t].pc = "head"
  BY <1>3, GoToCalm DEF SafeInv
<1>5. Only(t) /\ Busy(t)' /\ Doing(t)'
  BY <1>2, <1>3, <1>4 DEF Only, Busy, Doing
<1> QED
  BY <1>2, <1>3, <1>5, StepSafe

(* The executor is released only when the run it held has ended.             *)
LEMMA FinallySafe ==
  ASSUME SafeInv, TypeInv', NEW t \in Runs, Finally(t)
  PROVE  SafeInv'
<1>1. Live(t) /\ task[t].pc = "finishing"
  BY DEF Finally, Live
<1>2. Busy(t) /\ run[current].state \in RunTerminal /\ starting = NoRun
  BY <1>1, LiveSafe DEF Doing
<1>3. current' = NoRun /\ UNCHANGED <<run, starting>> /\ GoTo(t, "done")
  BY DEF Finally
<1>4. /\ \A u \in Runs \ {t} : task'[u] = task[u]
      /\ task'[t].pc = "done"
  BY <1>3, GoToCalm DEF SafeInv
<1>5. \A u \in Runs : ~Busy(u)'
  BY <1>2, <1>4 DEF SafeInv, Alone, Busy
<1>6. \A r \in Runs : Ended(r)'
  BY <1>2, <1>3 DEF SafeInv, Alone, Ended
<1> QED
  BY <1>2, <1>3, <1>5, <1>6 DEF SafeInv, Alone

LEMMA TaskStepSafe ==
  ASSUME SafeInv, TypeInv', NEW t \in Runs, TaskStep(t)
  PROVE  SafeInv'
<1>1. CASE WakePaused(t)
  <2>1. task[t].pc \in AtStep \cap Calm /\ PauseGate(t)
    BY <1>1 DEF WakePaused, AtStep, Calm
  <2>2. Live(t) /\ task[t].i \in 1..Len(My(t).steps)
    BY <2>1, AtStepFacts DEF SafeInv
  <2> QED
    BY <2>1, <2>2, PauseGateSafe
<1>2. CASE Unpaused(t)
  <2>1. task[t].pc \in AtStep \cap Calm /\ Dispatch(t)
    BY <1>2 DEF Unpaused, AtStep, Calm
  <2>2. Live(t) /\ task[t].i \in 1..Len(My(t).steps)
    BY <2>1, AtStepFacts DEF SafeInv
  <2> QED
    BY <2>1, <2>2, DispatchSafe
<1>3. CASE ToolRaises(t) \/ Failing(t)
  <2>1. task[t].pc \in AtStep /\ Finish(t, My(t), "failed")
    BY <1>3 DEF ToolRaises, Failing, AtStep
  <2>2. Live(t) /\ My(t) \in Run
    BY <2>1, AtStepFacts DEF SafeInv
  <2> QED
    BY <2>1, <2>2, FinishSafe DEF Finish, executor, RunTerminal
<1>4. CASE ToolReturns(t, TRUE) \/ ToolReturns(t, FALSE)
  BY <1>4, ToolReturnsSafe
<1> QED
  BY <1>1, <1>2, <1>3, <1>4, BeginSafe, LoopHeadSafe, PreparedSafe, AskingSafe,
     AnsweredSafe, ConfirmedSafe, EvaluateSafe, AdvanceSafe, FinallySafe DEF TaskStep

-----------------------------------------------------------------------------
(* The handlers.  This is where it matters that callers are patient: a new    *)
(* run finds the executor empty.                                             *)

LEMMA LaunchSafe ==
  ASSUME SafeInv, TypeInv', Patient, NEW r \in Runs,
         NEW s, s.state = "running", Launch(r, s)
  PROVE  SafeInv'
<1>1. /\ starting = NoRun /\ run[r].state = "absent"
      /\ Emit(r, s) /\ current' = r /\ starting' = r /\ task' = task
  BY DEF Launch
<1>2. /\ run \in [Runs -> Run] /\ current \in Runs \cup {NoRun} /\ r # NoRun
      /\ current # NoRun => run[current].state # "absent"
  BY ConstantsOK DEF SafeInv, TypeInv, TypeOK
<1>3. current = NoRun
  BY <1>1, <1>2 DEF Patient
<1>4. \A t \in Runs : ~Busy(t)
  BY <1>3 DEF SafeInv, Doing
<1>5. run'[r].state = "running" /\ \A q \in Runs : q # r => run'[q] = run[q]
  BY <1>1, <1>2 DEF Emit
<1>6. \A q \in Runs : q # r => Ended(q)'
  BY <1>3, <1>5, ConstantsOK DEF SafeInv, Alone, Ended
<1>7. \A t \in Runs : ~Busy(t)'
  BY <1>1, <1>4 DEF Busy
<1> QED
  BY <1>1, <1>5, <1>6, <1>7 DEF SafeInv, Alone

(* Without a client start_plan is patient for its callers: a coroutine whose  *)
(* run has ended holds the loop until the executor is empty.                 *)
LEMMA LaunchPatient ==
  ASSUME EmitYields = FALSE, SafeInv, NEW r \in Runs, NEW s, Launch(r, s)
  PROVE  current = NoRun
<1>1. LoopIdle /\ starting = NoRun /\ ~HasActiveRun
  BY DEF Launch
<1>2. \A t \in Runs : ~Busy(t)
  <2> SUFFICES ASSUME NEW t \in Runs, Busy(t) PROVE FALSE
    OBVIOUS
  <2>1. Doing(t) /\ current # NoRun
    BY DEF SafeInv, Doing
  <2>2. run[current].state \in RunTerminal
    BY <1>1, <2>1 DEF HasActiveRun
  <2>3. task[t].pc \in {"asking", "waiting", "finishing"}
    BY <2>1, <2>2 DEF Doing, RunTerminal
  <2>4. task[t].pc # "finishing"
    BY <1>1 DEF LoopIdle, Holding, EmitLabels
  <2>5. Live(t) /\ My(t).state = "waiting_confirmation"
    BY <2>1, <2>3, <2>4 DEF Doing, Live
  <2>6. My(t) = run[current]
    BY <2>5, LiveSafe
  <2> QED
    BY <2>2, <2>5, <2>6 DEF RunTerminal
<1> QED
  BY <1>1, <1>2 DEF SafeInv, Alone

LEMMA OnlyLaunchEnters ==
  ASSUME NEW r \in Runs, Handler(r) \/ CreateTask(r) \/ TaskStep(r),
         ~\E s : Launch(r, s)
  PROVE  current' \in {current, NoRun}
<1>1. CASE Handler(r)
  BY <1>1 DEF Handler, StartPlan, PauseRun, ResumeRun, AbortRun, ConfirmStep
<1>2. CASE CreateTask(r)
  BY <1>2 DEF CreateTask
<1>3. CASE TaskStep(r)
  BY <1>3 DEF TaskStep, Begin, LoopHead, WakePaused, Unpaused, Prepared, Asking, Answered,
              Confirmed, ToolReturns, ToolRaises, Failing, Evaluate, EvaluateContinue,
              EvaluateAbort, EvaluateModify, EvaluateAddStep, EvaluateSkip, Revise,
              Advance, Finally, PauseGate, Dispatch, Finish, StartTool, executor
<1> QED
  BY <1>1, <1>2, <1>3

LEMMA StepPatient ==
  ASSUME EmitYields = FALSE, SafeInv, [Next]_vars
  PROVE  Patient
<1>1. CASE UNCHANGED vars
  BY <1>1 DEF vars, executor, Patient
<1>2. ASSUME NEW r \in Runs, Handler(r) \/ CreateTask(r) \/ TaskStep(r)
      PROVE  Patient
  <2>1. CASE \E s : Launch(r, s)
    BY <2>1, LaunchPatient DEF Patient
  <2>2. CASE ~\E s : Launch(r, s)
    BY <1>2, <2>2, OnlyLaunchEnters DEF Patient
  <2> QED
    BY <2>1, <2>2
<1> QED
  BY <1>1, <1>2 DEF Next

LEMMA StartPlanSafe ==
  ASSUME SafeInv, TypeInv', Patient, NEW r \in Runs, StartPlan(r)
  PROVE  SafeInv'
BY LaunchSafe, FreshType DEF StartPlan

LEMMA CreateTaskSafe ==
  ASSUME SafeInv, TypeInv', NEW r \in Runs, CreateTask(r)
  PROVE  SafeInv'
<1>1. /\ starting = r /\ starting' = NoRun /\ UNCHANGED <<run, current>>
      /\ task' = [task EXCEPT ![r].pc = "start"]
      /\ task \in [Runs -> Task] /\ r # NoRun
  BY ConstantsOK DEF CreateTask, SafeInv, TypeInv, TypeOK
<1>2. /\ current = r /\ run[current].state \in {"running", "paused"}
      /\ \A t \in Runs : ~Busy(t)
  BY <1>1 DEF SafeInv, Alone
<1>3. task'[r].pc = "start" /\ \A t \in Runs \ {r} : task'[t] = task[t]
  BY <1>1 DEF Task
<1>4. \A t \in Runs \ {r} : ~Busy(t)'
  BY <1>2, <1>3 DEF Busy
<1>5. Busy(r)' /\ Doing(r)'
  BY <1>1, <1>2, <1>3 DEF Busy, Doing, Live
<1>6. \A q \in Runs : q # current => Ended(q)'
  BY <1>1 DEF SafeInv, Alone, Ended
<1>7. Alone'
  BY <1>1, <1>4, <1>5, <1>6 DEF Alone
<1> QED
  BY <1>4, <1>5, <1>7 DEF SafeInv

LEMMA PauseResumeSafe ==
  ASSUME SafeInv, TypeInv', NEW r \in Runs, PauseRun(r) \/ ResumeRun(r)
  PROVE  SafeInv'
<1>1. /\ current = r /\ run[r].state \in {"running", "paused"}
      /\ UNCHANGED <<current, starting, confirmation, future, task, approved>>
      /\ \E state \in {"running", "paused"} : Emit(r, [run[r] EXCEPT !.state = state])
  BY DEF PauseRun, ResumeRun, history
<1>2. PICK state \in {"running", "paused"} : Emit(r, [run[r] EXCEPT !.state = state])
  BY <1>1
<1>3. run \in [Runs -> Run] /\ r # NoRun
  BY ConstantsOK DEF SafeInv, TypeInv, TypeOK
<1>4. /\ \A q \in Runs : q # r => run'[q] = run[q]
      /\ run'[r].state = state /\ run'[r].steps = run[r].steps
      /\ run'[r].supervised = run[r].supervised
  BY <1>2, <1>3 DEF Emit, Run
<1>5. ASSUME NEW t \in Runs, Busy(t)' PROVE Doing(t)'
  <2>1. Busy(t) /\ Doing(t) /\ task' = task
    BY <1>1, <1>5 DEF Busy, SafeInv
  <2>2. task[t].pc \notin {"asking", "waiting", "finishing"}
    <3>1. Live(t) => My(t) = run[current]
      BY LiveSafe
    <3> QED
      BY <1>1, <2>1, <3>1 DEF Doing, RunTerminal, Live
  <2>3. Live(t) => /\ UNCHANGED <<MyStep(t), Approved(t)>>
                   /\ My(t)'.supervised = My(t).supervised
    BY <1>1, <1>4, <2>1 DEF Doing, My, MyStep, Approved
  <2>4. CASE Live(t)
    <3>1. Needs(My(t), MyStep(t))' <=> Needs(My(t), MyStep(t))
      BY <2>3, <2>4 DEF Needs
    <3> QED
      BY <1>1, <1>3, <1>4, <2>1, <2>2, <2>3, <2>4, <3>1 DEF Doing, Live
  <2>5. CASE ~Live(t)
    BY <1>1, <1>3, <1>4, <2>1, <2>2, <2>5 DEF Doing, Live
  <2> QED
    BY <2>4, <2>5
<1>6. Alone'
  <2>1. \A t \in Runs : Busy(t)' <=> Busy(t)
    BY <1>1 DEF Busy
  <2>2. \A q \in Runs : q # current => Ended(q)'
    BY <1>1, <1>4 DEF SafeInv, Alone, Ended
  <2> QED
    BY <1>1, <1>3, <1>4, <2>1, <2>2 DEF SafeInv, Alone
<1> QED
  BY <1>5, <1>6 DEF SafeInv

(* A handler that leaves every run alone only has the awaited future to       *)
(* account for.                                                               *)
LEMMA AnswerSafe ==
  ASSUME SafeInv, TypeInv',
         UNCHANGED <<run, current, starting, confirmation, task>>,
         approved \subseteq approved',
         \A t \in Runs : /\ task[t].pc \in {"asking", "waiting"} /\ Live(t)
                         /\ future'[t] = "approve" /\ future[t] # "approve"
                         => <<task[t].run, MyStep(t).id>> \in approved'
  PROVE  SafeInv'
<1>1. Alone'
  BY DEF SafeInv, Alone, Busy, Ended
<1>2. ASSUME NEW t \in Runs, Busy(t)' PROVE Doing(t)'
  <2>1. Busy(t) /\ Doing(t)
    BY <1>2 DEF Busy, SafeInv
  <2>2. UNCHANGED <<My(t), MyStep(t), Needs(My(t), MyStep(t))>>
    BY DEF My, MyStep, Needs
  <2>3. Approved(t) => Approved(t)'
    BY <2>2 DEF Approved
  <2>4. task[t].pc \in {"asking", "waiting"} => (future'[t] = "approve" => Approved(t)')
    <3>1. task[t].pc \in {"asking", "waiting"} => Live(t)
      BY DEF Live
    <3> QED
      BY <2>1, <2>2, <2>3, <3>1 DEF Doing, Approved
  <2> QED
    BY <2>1, <2>2, <2>3, <2>4 DEF Doing, Live
<1> QED
  BY <1>1, <1>2 DEF SafeInv

LEMMA AbortRunSafe ==
  ASSUME SafeInv, TypeInv', NEW r \in Runs, AbortRun(r)
  PROVE  SafeInv'
<1>1. \A t \in Runs : future'[t] \in {future[t], "abort"}
  BY DEF AbortRun, Resolve, SafeInv, TypeInv, TypeOK
<1> QED
  BY <1>1, AnswerSafe DEF AbortRun

LEMMA ConfirmStepSafe ==
  ASSUME SafeInv, TypeInv', NEW r \in Runs, NEW answer \in {"approve", "reject"},
         ConfirmStep(r, answer)
  PROVE  SafeInv'
<1>1. /\ UNCHANGED <<run, current, starting, confirmation, task>>
      /\ approved \subseteq approved' /\ current = r /\ Resolve(answer)
  BY DEF ConfirmStep
<1>2. ASSUME NEW t \in Runs, task[t].pc \in {"asking", "waiting"}, Live(t),
             future'[t] = "approve", future[t] # "approve"
      PROVE  <<task[t].run, MyStep(t).id>> \in approved'
  <2>1. Doing(t) /\ task[t].run = current
    BY <1>2, LiveSafe
  <2>2. confirmation = t /\ run[r].waiting = MyStep(t).id
    BY <1>1, <1>2, <2>1 DEF Doing, My
  <2>3. answer = "approve" /\ future[confirmation] = "pending"
    BY <1>1, <1>2, <2>2 DEF Resolve, SafeInv, TypeInv, TypeOK
  <2> QED
    BY <1>1, <2>1, <2>2, <2>3 DEF ConfirmStep
<1> QED
  BY <1>1, <1>2, AnswerSafe

LEMMA StutterSafe ==
  ASSUME SafeInv, TypeInv', UNCHANGED vars
  PROVE  SafeInv'
BY AnswerSafe DEF vars, executor, history

LEMMA SafeInit == ASSUME Init PROVE SafeInv
BY TypeInit DEF Init, SafeInv, Alone, Busy, Ended, Blank

LEMMA SafeStep ==
  ASSUME SafeInv, [Next]_vars, [Patient]_vars
  PROVE  SafeInv'
<1>0. Patient
  BY DEF Patient, vars, executor
<1>1. TypeInv'
  BY TypeStep DEF SafeInv
<1>2. ASSUME NEW r \in Runs, Handler(r) PROVE SafeInv'
  BY <1>0, <1>1, <1>2, StartPlanSafe, PauseResumeSafe, AbortRunSafe, ConfirmStepSafe
     DEF Handler
<1> QED
  BY <1>1, <1>2, CreateTaskSafe, TaskStepSafe, StutterSafe DEF Next

(* What the invariant gives: each property follows from SafeInv.             *)
LEMMA SafeImplies ==
  ASSUME SafeInv
  PROVE  SingleExecutor /\ NoUnapprovedTool /\ WaitingIsAnswerable
<1>1. SingleExecutor
  BY LiveSafe DEF SingleExecutor, SafeInv, Alone
<1>2. NoUnapprovedTool
  <2> SUFFICES ASSUME NEW t \in Runs, task[t].pc = "tool"
               PROVE  /\ MyStep(t).risk # "deny"
                      /\ Needs(My(t), MyStep(t)) => Approved(t)
    BY DEF NoUnapprovedTool, Approved
  <2>1. Live(t)
    BY DEF Live
  <2> QED
    BY <2>1, LiveSafe DEF Doing
<1>3. WaitingIsAnswerable
  <2> SUFFICES ASSUME NEW r \in Runs, run[r].state = "waiting_confirmation"
               PROVE  /\ current = r /\ confirmation # NoRun
                      /\ \E t \in Runs :
                           /\ task[t].run = r
                           /\ \/ task[t].pc = "asking"
                              \/ task[t].pc = "waiting" /\ task[t].future = confirmation
    BY DEF WaitingIsAnswerable
  <2>1. current = r /\ current # NoRun
    BY ConstantsOK DEF SafeInv, Alone, Ended, RunTerminal
  <2>2. PICK t \in Runs : Busy(t)
    BY <2>1 DEF SafeInv, Alone
  <2>3. Doing(t) /\ task[t].pc \in {"asking", "waiting"} /\ Live(t)
    BY <2>1, <2>2 DEF SafeInv, Doing, RunTerminal, Live
  <2> QED
    BY <2>1, <2>3, ConstantsOK DEF Doing
<1> QED
  BY <1>1, <1>2, <1>3

(* Without a WebSocket client, a run is started only when the executor is      *)
(* empty: has_active_run and get_current_run() then say the same.             *)
THEOREM UnwatchedIsPatient == ASSUME EmitYields = FALSE PROVE Spec => PatientCallers
<1>1. Init => SafeInv
  BY SafeInit
<1>2. SafeInv /\ [Next]_vars => [Patient]_vars
  BY StepPatient
<1>3. SafeInv /\ [Next]_vars => SafeInv'
  BY <1>2, SafeStep
<1> QED
  BY <1>1, <1>2, <1>3, PTL DEF Spec, PatientCallers

(* Whatever client is connected, as long as callers wait for the executor to  *)
(* be empty there is never a second coroutine, and the one there is executes  *)
(* the run pause, abort and confirm reach.                                   *)
THEOREM PatientAlone == Spec /\ PatientCallers => []SingleExecutor
<1>1. Init => SafeInv
  BY SafeInit
<1>2. SafeInv /\ [Next]_vars /\ [Patient]_vars => SafeInv'
  BY SafeStep
<1>3. SafeInv => SingleExecutor
  BY SafeImplies
<1> QED
  BY <1>1, <1>2, <1>3, PTL DEF Spec, PatientCallers

(* Whatever client is connected, as long as callers wait for the executor to  *)
(* be empty _request_confirmation cannot be passed by: a call that policy or  *)
(* supervision wants confirmed is in flight only after the operator approved  *)
(* that very step, whatever the evaluator made of the plan; a denied call     *)
(* never is.                                                                  *)
THEOREM PatientApproved == Spec /\ PatientCallers => []NoUnapprovedTool
<1>1. Init => SafeInv
  BY SafeInit
<1>2. SafeInv /\ [Next]_vars /\ [Patient]_vars => SafeInv'
  BY SafeStep
<1>3. SafeInv => NoUnapprovedTool
  BY SafeImplies
<1> QED
  BY <1>1, <1>2, <1>3, PTL DEF Spec, PatientCallers

(* Whatever client is connected, as long as callers wait for the executor to  *)
(* be empty a run that reports waiting_confirmation can be answered:          *)
(* confirm_step resolves the future its coroutine awaits.                     *)
THEOREM PatientAnswerable == Spec /\ PatientCallers => []WaitingIsAnswerable
<1>1. Init => SafeInv
  BY SafeInit
<1>2. SafeInv /\ [Next]_vars /\ [Patient]_vars => SafeInv'
  BY SafeStep
<1>3. SafeInv => WaitingIsAnswerable
  BY SafeImplies
<1> QED
  BY <1>1, <1>2, <1>3, PTL DEF Spec, PatientCallers

(* Without a WebSocket client, start_plan's own check is enough for each.     *)
THEOREM ExecutorAlone == ASSUME EmitYields = FALSE PROVE Spec => []SingleExecutor
BY UnwatchedIsPatient, PatientAlone

(* Without a WebSocket client, a guarded call is in flight only after the     *)
(* operator approved that very step, and a denied call never is.              *)
THEOREM ToolsApproved == ASSUME EmitYields = FALSE PROVE Spec => []NoUnapprovedTool
BY UnwatchedIsPatient, PatientApproved

(* Without a WebSocket client, a run that waits for a confirmation can be      *)
(* answered.                                                                  *)
THEOREM WaitsAnswerable == ASSUME EmitYields = FALSE PROVE Spec => []WaitingIsAnswerable
BY UnwatchedIsPatient, PatientAnswerable

-----------------------------------------------------------------------------
(* What an abort guarantees.  The abort event is up whenever the run in       *)
(* progress has been told to stop.  Without a client it is down where         *)
(* _wait_if_paused has just looked at it: nothing can raise it between that   *)
(* test and the tool call.                                                   *)
Unwatched == EmitYields = FALSE

AbortInv ==
  /\ \A r \in aborting : run[r].state # "absent"
  /\ \A call \in late : call[1] \in aborting
  /\ current \in aborting => abort
  /\ Unwatched => \A t \in Runs : task[t].pc \in {"unpaused", "prepared"} => ~abort
  /\ Unwatched => late \subseteq approved

StopInv == SafeInv /\ AbortInv

(* What every step of a coroutine has in common. *)
Shape(t) ==
  /\ Busy(t)
  /\ \A u \in Runs \ {t} : task'[u] = task[u]
  /\ \A r \in Runs : r # current => run'[r] = run[r]
  /\ UNCHANGED <<starting, approved, aborting>>
  /\ task[t].pc # "finishing" => UNCHANGED <<current, abort>> /\ Busy(t)'
  /\ task[t].pc = "finishing" => /\ task'[t].pc = "done" /\ current' = NoRun /\ ~abort'
                                 /\ UNCHANGED <<run, late>>
  /\ task'[t].pc = "tool" => /\ task[t].pc \in {"prepared", "confirmed"} /\ StartTool(t)
                             /\ task[t].pc = "confirmed" => task[t].ok
  /\ task'[t].pc # "tool" => UNCHANGED late
  /\ Unwatched /\ task'[t].pc \in {"unpaused", "prepared"} => ~abort

LEMMA MovesShape ==
  ASSUME SafeInv, NEW t \in Runs, Live(t), task[t].pc # "finishing",
         \A u \in Runs \ {t} : task'[u] = task[u],
         task'[t].pc \notin {"none", "done", "tool"},
         Unwatched /\ task'[t].pc \in {"unpaused", "prepared"} => ~abort,
         \A r \in Runs : r # task[t].run => run'[r] = run[r],
         UNCHANGED <<executor, history>>
  PROVE  Shape(t)
BY LiveSafe DEF Shape, Busy, executor, history

(* A write to one run leaves the others alone. *)
LEMMA WriteOne ==
  ASSUME SafeInv, NEW r \in Runs, NEW s, Emit(r, s) \/ Keep(r, s)
  PROVE  \A q \in Runs : q # r => run'[q] = run[q]
BY DEF Emit, Keep, SafeInv, TypeInv, TypeOK

LEMMA FinishShape ==
  ASSUME SafeInv, NEW t \in Runs, Live(t), task[t].pc # "finishing",
         NEW s, NEW outcome, Finish(t, s, outcome)
  PROVE  Shape(t)
<1>1. task[t].run \in Runs
  BY LiveFacts DEF SafeInv
<1>2. /\ Emit(task[t].run, [s EXCEPT !.state = outcome]) /\ GoTo(t, "finishing")
      /\ UNCHANGED <<executor, history>>
  BY DEF Finish
<1>3. \A r \in Runs : r # task[t].run => run'[r] = run[r]
  BY <1>1, <1>2, WriteOne
<1>4. /\ \A u \in Runs \ {t} : task'[u] = task[u]
      /\ task'[t].pc = "finishing"
  BY <1>2, GoToCalm DEF SafeInv
<1> QED
  BY <1>2, <1>3, <1>4, MovesShape

LEMMA ToolShape ==
  ASSUME SafeInv, NEW t \in Runs, StartTool(t),
         task[t].pc \in {"prepared", "confirmed"},
         task[t].pc = "confirmed" => task[t].ok
  PROVE  Shape(t)
<1>1. GoTo(t, "tool") /\ UNCHANGED <<run, executor, approved, aborting>>
  BY DEF StartTool
<1>2. /\ \A u \in Runs \ {t} : task'[u] = task[u]
      /\ task'[t].pc = "tool"
  BY <1>1, GoToCalm DEF SafeInv
<1> QED
  BY <1>1, <1>2 DEF Shape, Busy, executor

LEMMA DispatchShape ==
  ASSUME SafeInv, NEW t \in Runs, Live(t), task[t].pc \in Calm, Unwatched => ~abort, Dispatch(t)
  PROVE  Shape(t)
<1>1. task[t].run \in Runs /\ task \in [Runs -> Task] /\ SafeInv
  BY LiveFacts DEF SafeInv, TypeInv, TypeOK
<1>2. \A r \in Runs : r # task[t].run => run'[r] = run[r]
  BY <1>1, WriteOne DEF Dispatch
<1>3. /\ \A u \in Runs \ {t} : task'[u] = task[u]
      /\ task'[t].pc \in {"head", "prepared"}
  <2>1. \/ task' = [task EXCEPT ![t].pc = "head", ![t].i = @ + 1]
        \/ GoTo(t, "prepared")
    BY DEF Dispatch
  <2> QED
    BY <1>1, <2>1 DEF GoTo, Task
<1>4. UNCHANGED <<executor, history>> /\ task[t].pc # "finishing"
  BY DEF Dispatch, Calm
<1> QED
  BY <1>1, <1>2, <1>3, <1>4, MovesShape

LEMMA PauseGateShape ==
  ASSUME SafeInv, NEW t \in Runs, Live(t), task[t].pc \in Calm, PauseGate(t)
  PROVE  Shape(t)
<1>1. task[t].run \in Runs /\ SafeInv /\ task[t].pc # "finishing"
  BY LiveFacts DEF SafeInv, Calm
<1>2. CASE Finish(t, My(t), "aborted")
  BY <1>1, <1>2, FinishShape
<1>3. ASSUME NEW state \in {"paused", "running"}, NEW label \in {"paused", "unpaused"},
             Emit(task[t].run, [My(t) EXCEPT !.state = state]), GoTo(t, label),
             ~abort, UNCHANGED <<executor, history>>
      PROVE  Shape(t)
  <2>1. \A r \in Runs : r # task[t].run => run'[r] = run[r]
    BY <1>1, <1>3, WriteOne
  <2>2. /\ \A u \in Runs \ {t} : task'[u] = task[u]
        /\ task'[t].pc = label
    BY <1>1, <1>3, GoToCalm DEF SafeInv
  <2> QED
    BY <1>1, <1>3, <2>1, <2>2, MovesShape
<1>4. CASE Dispatch(t) /\ ~abort
  BY <1>4, DispatchShape
<1> QED
  BY <1>2, <1>3, <1>4 DEF PauseGate

LEMMA EvaluateShape ==
  ASSUME SafeInv, NEW t \in Runs, Evaluate(t)
  PROVE  Shape(t)
<1>1. Judging(t)
  BY DEF Evaluate, EvaluateContinue, EvaluateAbort, EvaluateModify, EvaluateAddStep,
         EvaluateSkip
<1>2. Live(t) /\ task[t].pc # "finishing" /\ task[t].run \in Runs
  BY <1>1, LiveFacts DEF Judging, Live, SafeInv
<1>3. ASSUME NEW s, NEW k, Revise(t, s, k) PROVE Shape(t)
  <2>1. Emit(task[t].run, s) /\ MoveTo(t, k) /\ UNCHANGED <<executor, history>>
    BY <1>3 DEF Revise
  <2>2. \A r \in Runs : r # task[t].run => run'[r] = run[r]
    BY <1>2, <2>1, WriteOne
  <2>3. /\ \A u \in Runs \ {t} : task'[u] = task[u]
        /\ task'[t].pc = "advance"
    BY <2>1, MoveToCalm DEF SafeInv
  <2> QED
    BY <1>2, <2>1, <2>2, <2>3, MovesShape
<1>4. CASE EvaluateAbort(t)
  BY <1>2, <1>4, FinishShape DEF EvaluateAbort
<1>5. CASE EvaluateContinue(t)
  BY <1>3, <1>5 DEF EvaluateContinue
<1>6. CASE EvaluateModify(t)
  BY <1>3, <1>6 DEF EvaluateModify
<1>7. CASE EvaluateAddStep(t)
  BY <1>3, <1>7 DEF EvaluateAddStep
<1>8. CASE EvaluateSkip(t)
  BY <1>3, <1>8 DEF EvaluateSkip
<1> QED
  BY <1>4, <1>5, <1>6, <1>7, <1>8 DEF Evaluate

LEMMA AskAnswerShape ==
  ASSUME SafeInv, NEW t \in Runs, Asking(t) \/ Answered(t)
  PROVE  Shape(t)
<1>1. /\ Live(t) /\ task[t].pc \in {"asking", "waiting"} /\ task[t].run \in Runs
      /\ task \in [Runs -> Task]
  BY LiveFacts DEF Asking, Answered, Live, SafeInv, TypeInv, TypeOK
<1>2. CASE Asking(t)
  <2>1. CASE Finish(t, My(t), "failed")
    BY <1>1, <2>1, FinishShape
  <2>2. CASE /\ task' = [task EXCEPT ![t].pc = "waiting", ![t].future = confirmation]
             /\ UNCHANGED <<run, store, executor, history>>
    <3>1. /\ \A u \in Runs \ {t} : task'[u] = task[u]
          /\ task'[t].pc = "waiting"
      BY <1>1, <2>2 DEF Task
    <3> QED
      BY <1>1, <2>2, <3>1, MovesShape
  <2> QED
    BY <1>2, <2>1, <2>2 DEF Asking
<1>3. CASE Answered(t)
  <2>1. \A r \in Runs : r # task[t].run => run'[r] = run[r]
    BY <1>1, <1>3, WriteOne DEF Answered
  <2>2. /\ \A u \in Runs \ {t} : task'[u] = task[u]
        /\ task'[t].pc \in {"finishing", "confirmed"}
    BY <1>1, <1>3 DEF Answered, GoTo, Task
  <2>3. UNCHANGED <<current, starting, abort, approved, aborting, late>>
    BY <1>3 DEF Answered, history
  <2>4. task[t].run = current
    BY <1>1, LiveSafe
  <2> QED
    BY <1>1, <2>1, <2>2, <2>3, <2>4 DEF Shape, Busy
<1> QED
  BY <1>2, <1>3

LEMMA TaskStepShape ==
  ASSUME StopInv, NEW t \in Runs, TaskStep(t)
  PROVE  Shape(t)
<1>0. SafeInv /\ task \in [Runs -> Task]
  BY DEF StopInv, SafeInv, TypeInv, TypeOK
<1>1. CASE Begin(t)
  <2>1. Busy(t) /\ current # NoRun
    BY <1>0, <1>1 DEF Begin, Busy, SafeInv, Doing
  <2>2. /\ \A u \in Runs \ {t} : task'[u] = task[u]
        /\ task'[t].pc = "head" /\ task[t].pc = "start"
    BY <1>0, <1>1, <2>1 DEF Begin, Task
  <2> QED
    BY <1>1, <2>1, <2>2 DEF Begin, Shape, Busy, executor, history
<1>2. CASE LoopHead(t)
  <2>1. Live(t) /\ task[t].pc \in Calm /\ task[t].pc # "finishing"
    BY <1>2 DEF LoopHead, Live, Calm
  <2> QED
    BY <1>0, <1>2, <2>1, FinishShape, PauseGateShape DEF LoopHead
<1>3. CASE WakePaused(t)
  <2>1. Live(t) /\ task[t].pc \in Calm /\ PauseGate(t)
    BY <1>3 DEF WakePaused, Live, Calm
  <2> QED
    BY <1>0, <2>1, PauseGateShape
<1>4. CASE Unpaused(t)
  <2>1. Live(t) /\ task[t].pc \in Calm /\ Dispatch(t) /\ (Unwatched => ~abort)
    BY <1>4 DEF Unpaused, Live, Calm, StopInv, AbortInv
  <2> QED
    BY <1>0, <2>1, DispatchShape
<1>5. CASE Prepared(t)
  <2>1. Live(t) /\ task[t].pc = "prepared" /\ task[t].run \in Runs /\ task[t].run = current
    BY <1>0, <1>5, LiveFacts, LiveSafe DEF Prepared, Live, SafeInv
  <2>2. CASE Finish(t, Mark(My(t), task[t].i, "failed"), "failed")
    BY <1>0, <2>1, <2>2, FinishShape
  <2>3. CASE StartTool(t)
    BY <1>0, <2>1, <2>3, ToolShape
  <2>4. CASE /\ Emit(task[t].run, [Mark(My(t), task[t].i, "waiting_confirmation")
                                     EXCEPT !.state = "waiting_confirmation",
                                            !.waiting = MyStep(t).id])
             /\ GoTo(t, "asking")
             /\ UNCHANGED <<current, starting, paused, abort, history>>
    <3>1. \A r \in Runs : r # task[t].run => run'[r] = run[r]
      BY <1>0, <2>1, <2>4, WriteOne
    <3>2. /\ \A u \in Runs \ {t} : task'[u] = task[u]
          /\ task'[t].pc = "asking"
      BY <1>0, <2>4, GoToCalm DEF SafeInv
    <3> QED
      BY <2>1, <2>4, <3>1, <3>2 DEF Shape, Busy, history
  <2> QED
    BY <1>5, <2>2, <2>3, <2>4 DEF Prepared
<1>6. CASE Asking(t) \/ Answered(t)
  BY <1>0, <1>6, AskAnswerShape
<1>7. CASE Confirmed(t)
  <2>1. Live(t) /\ task[t].pc = "confirmed" /\ task[t].run \in Runs
    BY <1>0, <1>7, LiveFacts DEF Confirmed, Live, SafeInv
  <2>2. CASE task[t].ok /\ StartTool(t)
    BY <1>0, <2>1, <2>2, ToolShape
  <2>3. CASE /\ Emit(task[t].run, [Mark(My(t), task[t].i, "skipped")
                                     EXCEPT !.state = "running", !.waiting = 0])
             /\ MoveTo(t, task[t].i + 1)
             /\ UNCHANGED <<executor, history>>
    <3>1. \A r \in Runs : r # task[t].run => run'[r] = run[r]
      BY <1>0, <2>1, <2>3, WriteOne
    <3>2. /\ \A u \in Runs \ {t} : task'[u] = task[u]
          /\ task'[t].pc = "advance"
      BY <1>0, <2>3, MoveToCalm DEF SafeInv
    <3> QED
      BY <1>0, <2>1, <2>3, <3>1, <3>2, MovesShape
  <2> QED
    BY <1>7, <2>2, <2>3 DEF Confirmed
<1>8. CASE \E success \in BOOLEAN : ToolReturns(t, success)
  <2>1. PICK success \in BOOLEAN : ToolReturns(t, success)
    BY <1>8
  <2>2. Live(t) /\ task[t].pc = "tool" /\ task[t].run \in Runs
    BY <1>0, <2>1, LiveFacts DEF ToolReturns, Live, SafeInv
  <2>3. \A r \in Runs : r # task[t].run => run'[r] = run[r]
    BY <1>0, <2>1, <2>2, WriteOne DEF ToolReturns
  <2>4. GoTo(t, "evaluating") \/ MoveTo(t, task[t].i + 1) \/ GoTo(t, "failing")
    BY <2>1 DEF ToolReturns
  <2>5. /\ \A u \in Runs \ {t} : task'[u] = task[u]
        /\ task'[t].pc \in {"evaluating", "advance", "failing"}
    BY <1>0, <2>4, GoToCalm, MoveToCalm DEF SafeInv
  <2>6. UNCHANGED <<executor, history>>
    BY <2>1 DEF ToolReturns
  <2> QED
    BY <1>0, <2>2, <2>3, <2>5, <2>6, MovesShape
<1>9. CASE ToolRaises(t) \/ Failing(t)
  <2>1. Live(t) /\ task[t].pc # "finishing" /\ Finish(t, My(t), "failed")
    BY <1>9 DEF ToolRaises, Failing, Live
  <2> QED
    BY <1>0, <2>1, FinishShape
<1>10. CASE Evaluate(t)
  BY <1>0, <1>10, EvaluateShape
<1>11. CASE Advance(t)
  <2>1. /\ Live(t) /\ task[t].pc # "finishing" /\ GoTo(t, "head")
        /\ UNCHANGED <<run, store, executor, history>>
    BY <1>11 DEF Advance, Live
  <2>2. /\ \A u \in Runs \ {t} : task'[u] = task[u]
        /\ task'[t].pc = "head"
    BY <1>0, <2>1, GoToCalm DEF SafeInv
  <2> QED
    BY <1>0, <2>1, <2>2, MovesShape
<1>12. CASE Finally(t)
  <2>1. /\ task[t].pc = "finishing" /\ GoTo(t, "done")
    BY <1>12 DEF Finally
  <2>2. /\ \A u \in Runs \ {t} : task'[u] = task[u]
        /\ task'[t].pc = "done"
    BY <1>0, <2>1, GoToCalm DEF SafeInv
  <2> QED
    BY <1>12, <2>1, <2>2 DEF Finally, Shape, Busy, history
<1> QED
  BY <1>1, <1>2, <1>3, <1>4, <1>5, <1>6, <1>7, <1>8, <1>9, <1>10, <1>11, <1>12
     DEF TaskStep

(* A tool call is started only where it is in order: not after an abort,      *)
(* unless for the step the operator approved.                                *)
LEMMA ToolInOrder ==
  ASSUME StopInv, NEW t \in Runs, Shape(t), task'[t].pc = "tool"
  PROVE  /\ StartTool(t) /\ task[t].run = current
         /\ Unwatched /\ current \in aborting => Approved(t)
<1>1. /\ StartTool(t) /\ task[t].pc \in {"prepared", "confirmed"}
      /\ task[t].pc = "confirmed" => task[t].ok
  BY DEF Shape
<1>2. Doing(t) /\ task[t].run = current
  BY <1>1, LiveSafe DEF StopInv, Live
<1>3. CASE task[t].pc = "prepared"
  BY <1>1, <1>2, <1>3 DEF StopInv, AbortInv
<1>4. CASE task[t].pc = "confirmed"
  BY <1>1, <1>2, <1>4 DEF Doing
<1> QED
  BY <1>1, <1>2, <1>3, <1>4

LEMMA AbortTaskStep ==
  ASSUME StopInv, SafeInv', NEW t \in Runs, TaskStep(t)
  PROVE  AbortInv'
<1>1. Shape(t)
  BY TaskStepShape
<1>2. \A r \in aborting' : run'[r].state # "absent"
  <2>1. CASE task[t].pc = "finishing"
    BY <1>1, <2>1 DEF Shape, StopInv, AbortInv
  <2>2. CASE task[t].pc # "finishing"
    <3>1. current' = current /\ aborting' = aborting
          /\ \A r \in Runs : r # current => run'[r] = run[r]
      BY <1>1, <2>2 DEF Shape
    <3>2. current' # NoRun => run'[current'].state # "absent"
      BY DEF SafeInv, TypeInv
    <3>3. aborting \subseteq Runs
      BY DEF StopInv, SafeInv, TypeInv, TypeOK
    <3> QED
      BY <3>1, <3>2, <3>3, ConstantsOK DEF StopInv, AbortInv
  <2> QED
    BY <2>1, <2>2
<1>3. current' \in aborting' => abort'
  <2>1. NoRun \notin aborting
    BY ConstantsOK DEF StopInv, SafeInv, TypeInv, TypeOK
  <2> QED
    BY <1>1, <2>1 DEF Shape, StopInv, AbortInv
<1>4. Unwatched => \A u \in Runs : task'[u].pc \in {"unpaused", "prepared"} => ~abort'
  <2> SUFFICES ASSUME Unwatched, NEW u \in Runs, task'[u].pc \in {"unpaused", "prepared"}
               PROVE  ~abort'
    OBVIOUS
  <2>1. CASE u = t
    BY <1>1, <2>1 DEF Shape
  <2>2. CASE u # t
    BY <1>1, <2>2 DEF Shape, Busy, StopInv, SafeInv, Alone
  <2> QED
    BY <2>1, <2>2
<1>5. Unwatched => late' \subseteq approved'
  <2> SUFFICES ASSUME Unwatched PROVE late' \subseteq approved'
    OBVIOUS
  <2>1. approved' = approved
    BY <1>1 DEF Shape
  <2>2. CASE task'[t].pc = "tool"
    <3>1. /\ StartTool(t) /\ task[t].run = current
          /\ current \in aborting => <<task[t].run, MyStep(t).id>> \in approved
      BY <1>1, <2>2, ToolInOrder DEF Approved
    <3> QED
      BY <2>1, <3>1 DEF StartTool, StopInv, AbortInv
  <2>3. CASE task'[t].pc # "tool"
    BY <1>1, <2>1, <2>3 DEF Shape, StopInv, AbortInv
  <2> QED
    BY <2>2, <2>3
<1>6. \A call \in late' : call[1] \in aborting'
  <2>1. aborting' = aborting /\ \A call \in late : call[1] \in aborting
    BY <1>1 DEF Shape, StopInv, AbortInv
  <2>2. CASE task'[t].pc = "tool"
    BY <1>1, <2>1, <2>2, ToolInOrder DEF StartTool
  <2>3. CASE task'[t].pc # "tool"
    BY <1>1, <2>1, <2>3 DEF Shape
  <2> QED
    BY <2>2, <2>3
<1> QED
  BY <1>2, <1>3, <1>4, <1>5, <1>6 DEF AbortInv

LEMMA LaunchAborts ==
  ASSUME StopInv, NEW r \in Runs, NEW s, Launch(r, s)
  PROVE  AbortInv'
<1>1. /\ SafeInv /\ aborting \subseteq Runs
  BY DEF StopInv, SafeInv, TypeInv, TypeOK
<1>2. /\ Emit(r, s) /\ run[r].state = "absent" /\ current' = r /\ starting = NoRun
      /\ UNCHANGED <<task, approved, aborting, late>>
  BY DEF Launch, history
<1>3. \A q \in Runs : q # r => run'[q] = run[q]
  BY <1>1, <1>2, WriteOne
<1>4. r \notin aborting
  BY <1>2 DEF StopInv, AbortInv
<1>5. \A t \in Runs : task'[t].pc \in {"unpaused", "prepared"} => ~abort'
  BY DEF Launch
<1> QED
  BY <1>1, <1>2, <1>3, <1>4, <1>5 DEF StopInv, AbortInv

LEMMA AbortHandler ==
  ASSUME StopInv, SafeInv', NEW r \in Runs, Handler(r) \/ CreateTask(r)
  PROVE  AbortInv'
<1>0. /\ SafeInv /\ aborting \subseteq Runs /\ run \in [Runs -> Run]
      /\ task \in [Runs -> Task] /\ r # NoRun
  BY ConstantsOK DEF StopInv, SafeInv, TypeInv, TypeOK
<1>1. CASE StartPlan(r)
  BY <1>1, LaunchAborts DEF StartPlan
<1>2. CASE PauseRun(r) \/ ResumeRun(r)
  <2>1. PICK state \in {"running", "paused"} : Emit(r, [run[r] EXCEPT !.state = state])
    BY <1>2 DEF PauseRun, ResumeRun
  <2>2. \A q \in Runs : q # r => run'[q] = run[q]
    BY <1>0, <2>1, WriteOne
  <2>3. run'[r].state # "absent"
    BY <1>0, <2>1 DEF Emit, Run
  <2>4. UNCHANGED <<current, abort, task, approved, aborting, late>>
    BY <1>2 DEF PauseRun, ResumeRun, history
  <2> QED
    BY <1>0, <2>2, <2>3, <2>4 DEF StopInv, AbortInv
<1>3. CASE AbortRun(r)
  <2>1. /\ LoopIdle /\ current = r /\ abort' /\ aborting' = aborting \cup {r}
        /\ UNCHANGED <<run, current, task, approved, late>>
    BY <1>3 DEF AbortRun
  <2>2. Unwatched => \A t \in Runs : task[t].pc \notin {"unpaused", "prepared"}
    BY <2>1 DEF Unwatched, LoopIdle, Holding, EmitLabels
  <2>3. run[r].state # "absent"
    BY <1>0, <2>1 DEF SafeInv, TypeInv
  <2> QED
    BY <2>1, <2>2, <2>3 DEF StopInv, AbortInv
<1>4. CASE \E answer \in {"approve", "reject"} : ConfirmStep(r, answer)
  BY <1>4 DEF ConfirmStep, StopInv, AbortInv
<1>5. CASE CreateTask(r)
  <2>1. /\ task' = [task EXCEPT ![r].pc = "start"]
        /\ UNCHANGED <<run, current, abort, approved, aborting, late>>
    BY <1>5 DEF CreateTask, history
  <2>2. \A t \in Runs : task'[t].pc \in {task[t].pc, "start"}
    BY <1>0, <2>1 DEF Task
  <2> QED
    BY <2>1, <2>2 DEF StopInv, AbortInv
<1> QED
  BY <1>1, <1>2, <1>3, <1>4, <1>5 DEF Handler

LEMMA StopInit == ASSUME Init PROVE StopInv
BY SafeInit, ConstantsOK DEF Init, StopInv, AbortInv

LEMMA StopStep ==
  ASSUME StopInv, [Next]_vars, [Patient]_vars
  PROVE  StopInv'
<1>1. SafeInv'
  BY SafeStep DEF StopInv
<1>2. CASE UNCHANGED vars
  BY <1>1, <1>2 DEF StopInv, AbortInv, vars, executor, history
<1>3. ASSUME NEW r \in Runs, Handler(r) \/ CreateTask(r) PROVE StopInv'
  BY <1>1, <1>3, AbortHandler DEF StopInv
<1>4. ASSUME NEW r \in Runs, TaskStep(r) PROVE StopInv'
  BY <1>1, <1>4, AbortTaskStep DEF StopInv
<1> QED
  BY <1>2, <1>3, <1>4 DEF Next

(* The same for the deployments where nobody has to be patient. *)
LEMMA UnwatchedStop ==
  ASSUME EmitYields = FALSE, StopInv, [Next]_vars
  PROVE  StopInv'
BY StepPatient, StopStep DEF StopInv
=============================================================================
