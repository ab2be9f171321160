------------------------- MODULE PlanRecovery_proofs -------------------------
(* What survives a restart of the server, for every number of runs, crashes   *)
(* and shutdowns: theorems about PlanRecovery, whose NoClient says that no    *)
(* WebSocket client is connected.                                             *)
EXTENDS PlanRecovery, PlanOutcome_proofs

(* The inductive invariant.  While the server is up the executor is as        *)
(* SafeInv says; while it is down there is no coroutine and memory is what    *)
(* was read from disk.  At all times a record that differs from its run is    *)
(* one of a run in progress, which startup will repair.                       *)
Matched(r) == /\ run[r].state = "absent" <=> store[r].state = "absent"
              /\ run[r] # store[r] => Unfinished(store[r])

Down == /\ current = NoRun /\ starting = NoRun
        /\ \A t \in Runs : ~Busy(t)
        /\ run = store

RecInv ==
  /\ up \in BOOLEAN /\ resumed_from \in [Runs -> Runs \cup {NoRun}]
  /\ StoreInv /\ AbortInv
  /\ \A r \in Runs : Matched(r)
  /\ up => SafeInv
  /\ ~up => Down

-----------------------------------------------------------------------------
(* What recovery makes of a record. *)

(* A sequence of steps with one field rewritten here and there. *)
LEMMA RewriteType ==
  ASSUME NEW old \in Seq(Step), NEW new, DOMAIN new = DOMAIN old,
         new = [k \in DOMAIN old |-> new[k]], \A k \in DOMAIN old : new[k] \in Step
  PROVE  new \in Seq(Step) /\ Len(new) = Len(old)
<1>1. DOMAIN old = 1..Len(old) /\ Len(old) \in Nat
  BY LenProperties
<1>2. new \in [1..Len(old) -> Step]
  BY <1>1
<1>3. new \in Seq(Step)
  BY <1>1, <1>2, SeqDef
<1> QED
  BY <1>1, <1>2, <1>3, LenProperties

LEMMA InterruptedType ==
  ASSUME NEW saved \in Run
  PROVE  /\ Interrupted(saved) \in Run /\ Interrupted(saved).state = "aborted"
         /\ Interrupted(saved).recoverable = TRUE
         /\ Len(Interrupted(saved).steps) = Len(saved.steps)
         /\ DOMAIN Interrupted(saved).steps = DOMAIN saved.steps
         /\ \A k \in DOMAIN saved.steps :
              /\ Interrupted(saved).steps[k].id = saved.steps[k].id
              /\ Interrupted(saved).steps[k].status \in {saved.steps[k].status, "pending"}
              /\ saved.steps[k].status \in StepTerminal =>
                   Interrupted(saved).steps[k].status = saved.steps[k].status
<1> DEFINE new == [k \in DOMAIN saved.steps |->
                     IF /\ k = saved.at
                        /\ saved.steps[k].status \in {"running", "waiting_confirmation"}
                     THEN [saved.steps[k] EXCEPT !.status = "pending"]
                     ELSE saved.steps[k]]
<1>1. /\ saved.steps \in Seq(Step)
      /\ \A k \in DOMAIN saved.steps : saved.steps[k] \in Step
  BY LenProperties, ElementOfSeq DEF Run
<1>2. \A k \in DOMAIN saved.steps :
        /\ new[k] \in Step /\ new[k].id = saved.steps[k].id
        /\ new[k].status \in {saved.steps[k].status, "pending"}
        /\ saved.steps[k].status \in StepTerminal => new[k].status = saved.steps[k].status
  BY <1>1 DEF Step, StepStates, StepTerminal
<1>3. new \in Seq(Step) /\ Len(new) = Len(saved.steps) /\ DOMAIN new = DOMAIN saved.steps
  <2>1. DOMAIN new = DOMAIN saved.steps /\ new = [k \in DOMAIN saved.steps |-> new[k]]
    OBVIOUS
  <2> HIDE DEF new
  <2> QED
    BY <1>1, <1>2, <2>1, RewriteType
<1>4. Interrupted(saved) =
        [saved EXCEPT !.state = "aborted", !.recoverable = TRUE, !.steps = new]
  BY DEF Interrupted
<1> HIDE DEF new
<1>5. /\ Interrupted(saved) \in Run /\ Interrupted(saved).steps = new
      /\ Interrupted(saved).state = "aborted" /\ Interrupted(saved).recoverable = TRUE
  BY <1>3, <1>4 DEF Run, RunStates
<1> QED
  BY <1>2, <1>3, <1>5

LEMMA ResumedType ==
  ASSUME NEW saved \in Run
  PROVE  /\ Resumed(saved) \in Run /\ Resumed(saved).state = "running"
         /\ Resumed(saved).recoverable = FALSE
         /\ Len(Resumed(saved).steps) = Len(saved.steps)
         /\ DOMAIN Resumed(saved).steps = DOMAIN saved.steps
         /\ \A k \in DOMAIN saved.steps :
              /\ Resumed(saved).steps[k].id = saved.steps[k].id
              /\ Resumed(saved).steps[k].status \in {saved.steps[k].status, "pending"}
              /\ saved.steps[k].status = "skipped" =>
                   Resumed(saved).steps[k].status = "skipped"
<1> DEFINE new == [k \in DOMAIN saved.steps |->
                     IF \/ saved.steps[k].status = "skipped"
                        \/ saved.steps[k].status = "done" /\ k < saved.at
                     THEN saved.steps[k]
                     ELSE [saved.steps[k] EXCEPT !.status = "pending"]]
<1>1. /\ saved.steps \in Seq(Step)
      /\ \A k \in DOMAIN saved.steps : saved.steps[k] \in Step
  BY LenProperties, ElementOfSeq DEF Run
<1>2. \A k \in DOMAIN saved.steps :
        /\ new[k] \in Step /\ new[k].id = saved.steps[k].id
        /\ new[k].status \in {saved.steps[k].status, "pending"}
        /\ saved.steps[k].status = "skipped" => new[k].status = "skipped"
  BY <1>1 DEF Step, StepStates
<1>3. new \in Seq(Step) /\ Len(new) = Len(saved.steps) /\ DOMAIN new = DOMAIN saved.steps
  <2>1. DOMAIN new = DOMAIN saved.steps /\ new = [k \in DOMAIN saved.steps |-> new[k]]
    OBVIOUS
  <2> HIDE DEF new
  <2> QED
    BY <1>1, <1>2, <2>1, RewriteType
<1>4. Resumed(saved) = [saved EXCEPT !.state = "running", !.waiting = 0,
                                     !.recoverable = FALSE, !.steps = new]
  BY DEF Resumed, Reopened
<1> HIDE DEF new
<1>5. /\ Resumed(saved) \in Run /\ Resumed(saved).steps = new
      /\ Resumed(saved).state = "running" /\ Resumed(saved).recoverable = FALSE
  <2> DEFINE opened == [saved EXCEPT !.state = "running", !.waiting = 0,
                                     !.recoverable = FALSE]
  <2>1. opened \in Run /\ opened.state = "running" /\ opened.recoverable = FALSE
    BY DEF Run, RunStates
  <2>2. Resumed(saved) = [opened EXCEPT !.steps = new]
    BY <1>4 DEF Run
  <2> HIDE DEF opened
  <2> QED
    BY <1>3, <2>1, <2>2 DEF Run
<1> QED
  BY <1>2, <1>3, <1>5

-----------------------------------------------------------------------------
(* One lemma per kind of step. *)

LEMMA MatchedEmit ==
  ASSUME TypeInv, \A q \in Runs : Matched(q), NEW r \in Runs, NEW s, Emit(r, s)
  PROVE  \A q \in Runs : Matched(q)'
<1>1. OthersKept(r) /\ run'[r] = store'[r]
  BY EmitSaves
<1> QED
  BY <1>1 DEF OthersKept, Matched, Unfinished

(* A coroutine that leaves its snapshot behind is executing an unfinished run. *)
LEMMA MatchedTaskStep ==
  ASSUME RecInv, up, TypeInv', NEW t \in Runs, TaskStep(t)
  PROVE  \A q \in Runs : Matched(q)'
<1>0. SafeInv /\ StopInv /\ TypeInv
  BY DEF RecInv, StopInv, SafeInv
<1>1. Saves(t) /\ Shape(t)
  BY <1>0, TaskStepSaves, TaskStepShape
<1>2. CASE UNCHANGED <<run, store>>
  BY <1>2 DEF RecInv, Matched, Unfinished
<1>3. CASE /\ Live(t) /\ Live(t)' /\ task'[t].run = task[t].run
           /\ OthersKept(task[t].run)
           /\ \/ run'[task[t].run] = store'[task[t].run]
              \/ store' = store /\ task'[t].pc \in Lags
  <2> DEFINE r == task[t].run
  <2>1. r \in Runs /\ r = current /\ Doing(t) /\ My(t) = run[r]
    BY <1>0, <1>3, LiveSafe DEF My
  <2>2. \A q \in Runs : q # r => Matched(q)'
    BY <1>3 DEF RecInv, Matched, OthersKept, Unfinished
  <2>3. CASE run'[r] = store'[r]
    BY <2>2, <2>3 DEF Matched, Unfinished
  <2>4. CASE store' = store /\ task'[t].pc \in Lags
    <3>1. run'[r].state # "absent"
      BY <1>3 DEF TypeInv, Placed, My
    <3>2. Unfinished(store[r])
      <4>1. CASE run[r] # store[r]
        BY <2>1, <4>1 DEF RecInv, Matched
      <4>2. CASE run[r] = store[r]
        <5>1. task[t].pc # "finishing"
          BY <1>1, <2>4 DEF Shape, Lags
        <5>2. run[r].state \in {"running", "paused", "waiting_confirmation"}
          BY <2>1, <5>1 DEF Doing
        <5> QED
          BY <4>2, <5>2 DEF Unfinished, RunTerminal
      <4> QED
        BY <4>1, <4>2
    <3>3. store'[r] = store[r]
      BY <2>4
    <3> QED
      BY <2>2, <3>1, <3>2, <3>3 DEF Matched, Unfinished
  <2> QED
    BY <1>3, <2>3, <2>4
<1> QED
  BY <1>1, <1>2, <1>3 DEF Saves

LEMMA ServingInv ==
  ASSUME RecInv, Serving
  PROVE  RecInv'
<1>0. /\ up /\ Next /\ UNCHANGED <<up, resumed_from>> /\ EmitYields = FALSE
      /\ SafeInv /\ StopInv /\ StoreInv /\ TypeInv
  BY NoClient DEF Serving, RecInv, StopInv, SafeInv
<1>1. StoreInv'
  BY <1>0, StoreStep
<1>2. SafeInv' /\ AbortInv' /\ TypeInv'
  BY <1>0, UnwatchedStop DEF StopInv, SafeInv
<1>3. \A q \in Runs : Matched(q)'
  <2>1. PICK r \in Runs : Handler(r) \/ CreateTask(r) \/ TaskStep(r)
    BY <1>0 DEF Next
  <2>2. CASE TaskStep(r)
    BY <1>0, <1>2, <2>2, MatchedTaskStep
  <2>3. CASE Handler(r) \/ CreateTask(r)
    <3>1. UNCHANGED <<run, store>> \/ \E s : Emit(r, s)
      BY <2>3 DEF Handler, CreateTask, StartPlan, Launch, PauseRun, ResumeRun, AbortRun,
                  ConfirmStep
    <3>2. CASE UNCHANGED <<run, store>>
      BY <3>2 DEF RecInv, Matched, Unfinished
    <3>3. CASE \E s : Emit(r, s)
      BY <1>0, <3>3, MatchedEmit DEF RecInv
    <3> QED
      BY <3>1, <3>2, <3>3
  <2> QED
    BY <2>1, <2>2, <2>3
<1> QED
  BY <1>0, <1>1, <1>2, <1>3 DEF RecInv

(* A new process reads what is on disk. *)
LEMMA RestartInv ==
  ASSUME RecInv, Restart, run' \in [Runs -> Run], store' = run',
         \A r \in Runs : run'[r].state = "absent" => run[r].state = "absent"
  PROVE  RecInv'
<1>1. /\ task \in [Runs -> Task] /\ aborting \subseteq Runs /\ NoRun \notin Runs
      /\ approved \subseteq Runs \X Nat /\ ran \subseteq Runs \X Nat /\ late \subseteq ran
  BY ConstantsOK DEF RecInv, StoreInv, TypeInv, TypeOK
<1>2. /\ up' = FALSE /\ current' = NoRun /\ starting' = NoRun
      /\ paused' = FALSE /\ abort' = FALSE /\ confirmation' = NoRun
      /\ future' = [r \in Runs |-> "none"]
      /\ UNCHANGED <<approved, aborting, ran, late, resumed_from>>
  BY DEF Restart, history
<1>3. /\ task' \in [Runs -> Task]
      /\ \A t \in Runs : task'[t].pc = IF task[t].pc = "none" THEN "none" ELSE "done"
  BY <1>1 DEF Restart, Task, Labels
<1>4. \A t \in Runs : ~Live(t)' /\ ~Busy(t)' /\ task'[t].pc \notin AtStep
  BY <1>3 DEF Live, Busy, AtStep
<1>5. TypeInv'
  <2>1. TypeOK'
    BY <1>1, <1>2, <1>3, <1>4 DEF TypeOK
  <2> QED
    BY <1>2, <1>4, <2>1 DEF TypeInv, Placed
<1>6. StoreInv'
  <2>1. StoreIsCurrent'
    BY DEF StoreIsCurrent
  <2>2. \A r \in Runs : run'[r].state = "absent" \/ starting' = r => task'[r].pc = "none"
    BY <1>1, <1>2, <1>3 DEF RecInv, StoreInv
  <2> QED
    BY <1>2, <1>5, <2>1, <2>2 DEF StoreInv
<1>7. AbortInv'
  BY <1>1, <1>2, <1>3 DEF RecInv, AbortInv
<1> QED
  BY <1>2, <1>4, <1>6, <1>7 DEF RecInv, Matched, Down

LEMMA CrashInv ==
  ASSUME RecInv, Crash
  PROVE  RecInv'
<1>1. store \in [Runs -> Run] /\ \A r \in Runs : Matched(r)
  BY DEF RecInv, StoreInv, TypeInv, TypeOK
<1> QED
  BY <1>1, RestartInv DEF Crash, Matched

LEMMA ShutdownInv ==
  ASSUME RecInv, Shutdown
  PROVE  RecInv'
<1>1. /\ run \in [Runs -> Run] /\ store \in [Runs -> Run] /\ \A r \in Runs : Matched(r)
  BY DEF RecInv, StoreInv, TypeInv, TypeOK
<1>2. \A r \in Runs : [run[r] EXCEPT !.state = "aborted"] \in Run
  BY <1>1 DEF Run, RunStates
<1>3. Restart /\ run' = store' /\ store' \in [Runs -> Run]
  BY <1>1, <1>2 DEF Shutdown
<1>4. ASSUME NEW r \in Runs, run'[r].state = "absent" PROVE run[r].state = "absent"
  <2>1. ~Cancelled(r)
    BY <1>1, <1>3, <1>4 DEF Shutdown, Run
  <2> QED
    BY <1>1, <1>3, <1>4, <2>1 DEF Shutdown, Matched
<1> QED
  BY <1>3, <1>4, RestartInv

LEMMA RecoverInv ==
  ASSUME RecInv, NEW r \in Runs, Recover(r)
  PROVE  RecInv'
<1> DEFINE s == Interrupted(store[r])
<1>1. /\ ~up /\ Emit(r, s) /\ UNCHANGED <<executor, task, history, up, resumed_from>>
      /\ Down /\ TypeInv /\ run[r] = store[r] /\ store[r] \in Run
      /\ run \in [Runs -> Run] /\ store \in [Runs -> Run]
  BY DEF Recover, RecInv, Down, StoreInv, TypeInv, TypeOK
<1>2. s \in Run /\ s.state # "absent" /\ Len(s.steps) = Len(run[r].steps)
      /\ Len(s.steps) \in Nat
  BY <1>1, InterruptedType, LenProperties DEF Run
<1> HIDE DEF s
<1>3. Extends /\ run'[r] = s
  BY <1>1, <1>2, WriteExtends
<1>4. UNCHANGED <<current, starting, paused, abort, confirmation, future, approved,
                  aborting, ran, late>>
  BY <1>1 DEF executor, history
<1>5. RestOK'
  BY <1>1, <1>4 DEF RestOK, TypeInv, TypeOK, Down
<1>6. TypeInv'
  BY <1>1, <1>3, <1>5, HandlerStep
<1>7. StoreInv'
  BY <1>1, <1>2, <1>4, <1>6, EmitStore DEF RecInv
<1>8. \A q \in Runs : Matched(q)'
  BY <1>1, MatchedEmit DEF RecInv
<1>9. Down'
  BY <1>1, <1>4 DEF Down, Busy, Emit
<1>10. AbortInv'
  <2>1. \A q \in Runs : run'[q].state = "absent" => run[q].state = "absent"
    BY <1>3, <1>2 DEF Extends
  <2> QED
    BY <1>1, <1>4, <2>1 DEF RecInv, AbortInv, TypeInv, TypeOK
<1> QED
  BY <1>1, <1>7, <1>8, <1>9, <1>10 DEF RecInv

LEMMA ServerUpInv ==
  ASSUME RecInv, ServerUp
  PROVE  RecInv'
<1>1. /\ Down /\ TypeInv /\ up' = TRUE /\ UNCHANGED <<vars, resumed_from>>
      /\ run \in [Runs -> Run]
  BY DEF ServerUp, RecInv, StoreInv, TypeInv, TypeOK
<1>2. SafeInv
  <2>1. \A r \in Runs : Ended(r)
    BY <1>1 DEF ServerUp, Down, Unfinished, Ended
  <2> QED
    BY <1>1, <2>1 DEF SafeInv, Alone, Down
<1>3. UNCHANGED <<run, store, current, starting, paused, abort, confirmation, future,
                  task, approved, aborting, ran, late, resumed_from>>
  BY <1>1 DEF vars, executor, history
<1>4. TypeInv'
  BY <1>1, StutterPreserves
<1>5. SafeInv' /\ StoreInv' /\ AbortInv'
  <2>1. SafeInv'
    BY <1>1, <1>2, <1>4, StutterSafe
  <2>2. StoreInv'
    BY <1>1, StoreStep DEF RecInv
  <2> QED
    BY <1>3, <2>1, <2>2 DEF RecInv, AbortInv
<1> QED
  BY <1>1, <1>3, <1>5 DEF RecInv, Matched, Unfinished

LEMMA ResumeSavedInv ==
  ASSUME RecInv, NEW r \in Runs, NEW q \in Runs, ResumeSaved(r, q)
  PROVE  RecInv'
<1> DEFINE s == Resumed(store[q])
<1>1. /\ up /\ up' /\ Launch(r, s) /\ Emit(r, s)
      /\ resumed_from' = [resumed_from EXCEPT ![r] = q]
      /\ TypeInv /\ StoreInv /\ SafeInv /\ StopInv /\ store[q] \in Run
      /\ EmitYields = FALSE
  BY NoClient DEF ResumeSaved, Launch, RecInv, StopInv, StoreInv, TypeInv, TypeOK
<1>2. s \in Run /\ s.state = "running" /\ s.state # "absent"
  BY <1>1, ResumedType
<1> HIDE DEF s
<1>3. Patient
  BY <1>1, LaunchPatient DEF Patient
<1>4. TypeInv'
  BY <1>1, <1>2, LaunchPreserves
<1>5. SafeInv' /\ StoreInv' /\ AbortInv'
  BY <1>1, <1>2, <1>3, <1>4, LaunchSafe, LaunchStore, LaunchAborts
<1>6. \A p \in Runs : Matched(p)'
  BY <1>1, MatchedEmit DEF RecInv
<1>7. resumed_from' \in [Runs -> Runs \cup {NoRun}]
  BY <1>1 DEF RecInv
<1> QED
  BY <1>1, <1>5, <1>6, <1>7 DEF RecInv

LEMMA RecInit == ASSUME RecoveryInit PROVE RecInv
<1>1. StoreInv /\ SafeInv /\ StopInv
  BY StoreInit, SafeInit, StopInit DEF RecoveryInit
<1>2. \A r \in Runs : Matched(r)
  BY DEF RecoveryInit, Init, Matched
<1> QED
  BY <1>1, <1>2 DEF RecoveryInit, RecInv, StopInv

LEMMA RecStep == ASSUME RecInv, [RecoveryNext]_all PROVE RecInv'
<1>1. CASE UNCHANGED all
  <2>1. UNCHANGED vars /\ UNCHANGED <<up, resumed_from>>
    BY <1>1 DEF all
  <2>2. StoreInv' /\ TypeInv'
    BY <2>1, StoreStep DEF RecInv, StoreInv
  <2>3. UNCHANGED <<run, store, current, starting, abort, task, approved, aborting, late>>
    BY <2>1 DEF vars, executor, history
  <2>4. up => SafeInv'
    BY <2>1, <2>2, StutterSafe DEF RecInv
  <2>5. AbortInv' /\ (\A r \in Runs : Matched(r)') /\ (~up => Down')
    BY <2>3 DEF RecInv, AbortInv, Matched, Unfinished, Down, Busy
  <2> QED
    BY <2>1, <2>2, <2>4, <2>5 DEF RecInv
<1> QED
  BY <1>1, ServingInv, CrashInv, ShutdownInv, RecoverInv, ServerUpInv, ResumeSavedInv
     DEF RecoveryNext

(* A server that answers requests shows no run as active except the one it    *)
(* is executing: _recover_stale_runs has repaired every other before the      *)
(* first request, and no later step leaves one behind.                        *)
THEOREM NoZombies == RecoverySpec => []NoZombieRun
<1>1. RecoveryInit => RecInv
  BY RecInit
<1>2. RecInv /\ [RecoveryNext]_all => RecInv'
  BY RecStep
<1>3. RecInv => NoZombieRun
  <2> SUFFICES ASSUME RecInv, up, NEW r \in Runs, Unfinished(store[r]), current # r
               PROVE  FALSE
    BY DEF NoZombieRun
  <2>1. SafeInv /\ StoreInv
    BY DEF RecInv
  <2>2. run[r] # store[r]
    BY <2>1 DEF SafeInv, Alone, Ended, Unfinished
  <2>3. PICK t \in Runs : task[t].run = r /\ task[t].pc \in {"evaluating", "head"}
    BY <2>1, <2>2 DEF StoreInv, StoreIsCurrent
  <2>4. Live(t)
    BY <2>3 DEF Live
  <2> QED
    BY <2>1, <2>3, <2>4, LiveSafe
<1> QED
  BY <1>1, <1>2, <1>3, PTL DEF RecoverySpec

(* A coroutine whose run has a terminal record writes nothing more. *)
LEMMA FinishingOnly ==
  ASSUME RecInv, up, NEW t \in Runs, Live(t), store[task[t].run].state \in RunTerminal
  PROVE  task[t].pc = "finishing"
<1>1. SafeInv /\ task[t].run \in Runs /\ task[t].run = current /\ Doing(t) /\ Matched(current)
      /\ My(t) = run[current]
  BY LiveSafe DEF RecInv
<1>2. run[current].state \in RunTerminal
  BY <1>1 DEF Matched, Unfinished
<1> QED
  BY <1>1, <1>2 DEF Doing, RunTerminal

LEMMA RecordStep ==
  ASSUME RecInv, RecoveryNext, NEW r \in Runs, store[r].state \in RunTerminal
  PROVE  store'[r] = store[r]
<1>0. /\ TypeInv /\ run[r] = store[r] /\ store \in [Runs -> Run] /\ run \in [Runs -> Run]
  BY DEF RecInv, Matched, Unfinished, StoreInv, TypeInv, TypeOK
<1>1. CASE Serving
  <2>1. PICK q \in Runs : Handler(q) \/ CreateTask(q) \/ TaskStep(q)
    BY <1>1 DEF Serving, Next
  <2>2. CASE TaskStep(q)
    <3>1. up /\ Saves(q) /\ Shape(q)
      BY <1>0, <1>1, <2>2, TaskStepSaves, TaskStepShape DEF Serving, RecInv, StopInv
    <3>2. CASE Live(q) /\ task[q].run = r
      <4>1. task[q].pc = "finishing"
        BY <3>1, <3>2, FinishingOnly
      <4>2. ~Live(q)'
        BY <3>1, <4>1 DEF Shape, Live
      <4> QED
        BY <3>1, <4>2 DEF Saves
    <3>3. CASE ~(Live(q) /\ task[q].run = r)
      BY <3>1, <3>3 DEF Saves, OthersKept
    <3> QED
      BY <3>2, <3>3
  <2>3. CASE Handler(q) \/ CreateTask(q)
    <3>1. \/ UNCHANGED store
          \/ \E s : Emit(q, s) /\ run[q].state \in {"absent", "running", "paused"}
      BY <2>3 DEF Handler, CreateTask, StartPlan, Launch, PauseRun, ResumeRun, AbortRun,
                  ConfirmStep
    <3>2. q # r \/ UNCHANGED store
      BY <1>0, <3>1 DEF RunTerminal
    <3> QED
      BY <1>0, <3>1, <3>2 DEF Emit
  <2> QED
    BY <2>1, <2>2, <2>3
<1>2. CASE Crash \/ ServerUp
  BY <1>2 DEF Crash, ServerUp, vars
<1>3. CASE Shutdown
  <2>1. ~Cancelled(r)
    <3> SUFFICES ASSUME NEW t \in Runs, Live(t), task[t].run = r PROVE FALSE
      BY DEF Cancelled
    <3>1. task[t].pc = "finishing"
      BY <1>3, FinishingOnly DEF Shutdown
    <3> QED
      BY <1>3, <3>1, NoClient DEF Shutdown, LoopIdle, Holding, EmitLabels
  <2> QED
    BY <1>3, <2>1 DEF Shutdown
<1>4. CASE \E q \in Runs : Recover(q)
  <2>1. PICK q \in Runs : Recover(q)
    BY <1>4
  <2>2. q # r /\ Emit(q, Interrupted(store[q]))
    BY <2>1 DEF Recover, Unfinished
  <2> QED
    BY <1>0, <2>2 DEF Emit
<1>5. CASE \E q, p \in Runs : ResumeSaved(q, p)
  <2>1. PICK q \in Runs, p \in Runs : ResumeSaved(q, p)
    BY <1>5
  <2>2. q # r /\ Emit(q, Resumed(store[p]))
    BY <2>1 DEF ResumeSaved, Launch, RunTerminal
  <2> QED
    BY <1>0, <2>2 DEF Emit
<1> QED
  BY <1>1, <1>2, <1>3, <1>4, <1>5 DEF RecoveryNext

(* A recorded outcome outlives every crash, shutdown and restart: recovery    *)
(* reopens no run and rewrites no record that has one.                        *)
THEOREM RecordsFinal == RecoverySpec => RecordIsFinal
<1>1. RecoveryInit => RecInv
  BY RecInit
<1>2. RecInv /\ [RecoveryNext]_all => RecInv'
  BY RecStep
<1>3. RecInv /\ [RecoveryNext]_all =>
        [\A r \in Runs : store[r].state \in RunTerminal => store'[r] = store[r]]_all
  BY RecordStep
<1> QED
  BY <1>1, <1>2, <1>3, PTL DEF RecoverySpec, RecordIsFinal

-----------------------------------------------------------------------------
(* What the records say of the steps.  Two facts about a run survive every    *)
(* step: a step it claims is done had its call, in this run or in the one it  *)
(* was resumed from; and a step the record it was resumed from has as skipped *)
(* is skipped.                                                                *)
Claims(s, n) ==
  \E k \in DOMAIN s.steps : s.steps[k].id = n /\ s.steps[k].status = "done"

SkippedIn(s, n) ==
  \A k \in DOMAIN s.steps : s.steps[k].id = n => s.steps[k].status = "skipped"

Accounted(r, n) ==
  \/ <<r, n>> \in ran
  \/ resumed_from[r] # NoRun /\ Recorded(resumed_from[r], n, "done")

Kept(p, s) ==
  /\ Len(store[p].steps) <= Len(s.steps)
  /\ \A n \in Nat : Recorded(p, n, "skipped") => SkippedIn(s, n)

(* The awaits at which the step a coroutine stands on has no outcome yet. *)
Underway == {"prepared", "asking", "waiting", "confirmed", "tool"}

Open(t)     == task[t].pc \in Underway => MyStep(t).status \notin StepTerminal
InFlight(t) == task[t].pc = "tool" => <<task[t].run, MyStep(t).id>> \in ran

DataInv ==
  /\ \A r \in Runs : Ids(run[r].steps) /\ Ids(store[r].steps)
  /\ \A r \in Runs : /\ run[r].recoverable => run[r].state \in RunTerminal
                     /\ store[r].recoverable => store[r].state \in RunTerminal
  /\ \A t \in Runs : Open(t) /\ InFlight(t)
  /\ \A r \in Runs : run[r].state = "absent" => resumed_from[r] = NoRun
  /\ \A r \in Runs : resumed_from[r] # NoRun => store[resumed_from[r]].state \in RunTerminal
  /\ \A r \in Runs, n \in Nat :
       Claims(run[r], n) \/ Claims(store[r], n) => Accounted(r, n)
  /\ \A r \in Runs : r = current /\ resumed_from[r] # NoRun => Kept(resumed_from[r], run[r])

(* What a coroutine at step i, at await pc, may make of a run. *)
Edited(s, old, i, pc) ==
  /\ Ids(old.steps) => Ids(s.steps)
  /\ Len(s.steps) >= Len(old.steps)
  /\ s.recoverable = old.recoverable
  /\ \A n \in Nat : Claims(s, n) => \/ Claims(old, n)
                                    \/ pc = "tool" /\ n = old.steps[i].id
  /\ \A n \in Nat : n <= Len(old.steps) /\ SkippedIn(old, n) => SkippedIn(s, n)

(* The common case: no step is inserted. *)
LEMMA PointEdited ==
  ASSUME NEW s \in Run, NEW old \in Run, NEW i \in Nat, NEW pc, SameIds(s, old),
         s.recoverable = old.recoverable,
         \A k \in 1..Len(old.steps) :
           \/ s.steps[k].status \in {old.steps[k].status, "skipped"}
           \/ /\ k = i /\ old.steps[k].status \notin StepTerminal
              /\ s.steps[k].status = "done" => pc = "tool"
  PROVE  Edited(s, old, i, pc)
<1>1. /\ s.steps \in Seq(Step) /\ old.steps \in Seq(Step)
      /\ Len(s.steps) = Len(old.steps) /\ Len(s.steps) \in Nat
      /\ \A k \in 1..Len(s.steps) : s.steps[k].id = old.steps[k].id
  BY LenProperties DEF SameIds, Run
<1>2. DOMAIN s.steps = 1..Len(s.steps) /\ DOMAIN old.steps = 1..Len(old.steps)
  BY <1>1, LenProperties
<1>3. Ids(old.steps) => Ids(s.steps)
  BY <1>1 DEF Ids
<1>4. ASSUME NEW n \in Nat, Claims(s, n)
      PROVE  Claims(old, n) \/ (pc = "tool" /\ n = old.steps[i].id)
  <2>1. PICK k \in 1..Len(s.steps) : s.steps[k].id = n /\ s.steps[k].status = "done"
    BY <1>2, <1>4 DEF Claims
  <2>2. CASE s.steps[k].status \in {old.steps[k].status, "skipped"}
    BY <1>1, <1>2, <2>1, <2>2 DEF Claims
  <2>3. CASE k = i /\ (s.steps[k].status = "done" => pc = "tool")
    BY <1>1, <2>1, <2>3
  <2> QED
    BY <1>1, <2>1, <2>2, <2>3
<1>5. ASSUME NEW n \in Nat, SkippedIn(old, n) PROVE SkippedIn(s, n)
  BY <1>1, <1>2, <1>5 DEF SkippedIn, StepTerminal
<1> QED
  BY <1>1, <1>3, <1>4, <1>5 DEF Edited

LEMMA SameEdited ==
  ASSUME NEW s \in Run, NEW old \in Run, NEW i \in Nat, NEW pc,
         s.steps = old.steps, s.recoverable = old.recoverable
  PROVE  Edited(s, old, i, pc)
<1>1. SameIds(s, old) /\ \A k \in 1..Len(old.steps) : s.steps[k].status = old.steps[k].status
  BY SameSteps
<1> QED
  BY <1>1, PointEdited

(* The step the coroutine stands on gets a status. *)
MarkedFrom(s, mid, old, i, status) ==
  /\ mid.steps = old.steps /\ s.steps = Mark(mid, i, status).steps /\ s.recoverable = old.recoverable
  /\ i \in 1..Len(old.steps) /\ old.steps[i].status \notin StepTerminal

LEMMA MarkEdited ==
  ASSUME NEW s \in Run, NEW old \in Run, NEW mid \in Run, NEW i, NEW status \in StepStates, NEW pc,
         MarkedFrom(s, mid, old, i, status), status = "done" => pc = "tool"
  PROVE  Edited(s, old, i, pc) /\ s.steps[i].status = status
<1>0. /\ mid.steps = old.steps /\ i \in 1..Len(old.steps)
      /\ s.steps = Mark(mid, i, status).steps /\ s.recoverable = old.recoverable
      /\ old.steps[i].status \notin StepTerminal
  BY DEF MarkedFrom
<1>1. SameIds(s, mid) /\ s.steps[i].status = status
  BY <1>0, MarkCourse
<1>2. SameIds(s, old)
  BY <1>0, <1>1 DEF SameIds
<1>3. /\ old.steps \in Seq(Step) /\ DOMAIN old.steps = 1..Len(old.steps) /\ i \in Nat
      /\ Len(old.steps) \in Nat
  BY <1>0, LenProperties DEF Run
<1>4. \A k \in 1..Len(old.steps) : k # i => s.steps[k] = old.steps[k]
  <2> DEFINE new == [mid.steps EXCEPT ![i] = [mid.steps[i] EXCEPT !.status = status]]
  <2>1. Mark(mid, i, status) = [mid EXCEPT !.steps = new]
    BY DEF Mark, Run
  <2>2. s.steps = new
    BY <1>0, <2>1 DEF Run
  <2> QED
    BY <1>0, <1>3, <2>2
<1>5. \A k \in 1..Len(old.steps) :
           \/ s.steps[k].status \in {old.steps[k].status, "skipped"}
           \/ /\ k = i /\ old.steps[k].status \notin StepTerminal
              /\ s.steps[k].status = "done" => pc = "tool"
  BY <1>0, <1>1, <1>4
<1> QED
  BY <1>0, <1>1, <1>2, <1>3, <1>5, PointEdited

LEMMA SkipEdited ==
  ASSUME NEW old \in Run, NEW from \in Int, NEW to \in Int, NEW i \in Nat, NEW pc
  PROVE  Edited(Skip(old, from, to), old, i, pc)
<1> DEFINE s == Skip(old, from, to)
           new == [k \in DOMAIN old.steps |->
                     IF k \in from..to THEN [old.steps[k] EXCEPT !.status = "skipped"]
                                       ELSE old.steps[k]]
<1>1. /\ old.steps \in Seq(Step) /\ DOMAIN old.steps = 1..Len(old.steps)
      /\ \A k \in DOMAIN old.steps : old.steps[k] \in Step
  BY LenProperties, ElementOfSeq DEF Run
<1>2. s \in Run /\ Len(s.steps) = Len(old.steps)
  BY SkipType
<1>3. s.steps = new /\ s.recoverable = old.recoverable
  <2>1. s = [old EXCEPT !.steps = new]
    BY DEF Skip
  <2> HIDE DEF new, s
  <2> QED
    BY <2>1 DEF Run
<1>4. \A k \in 1..Len(old.steps) : /\ s.steps[k].id = old.steps[k].id
                                   /\ s.steps[k].status \in {old.steps[k].status, "skipped"}
  BY <1>1, <1>3 DEF Step
<1> HIDE DEF s, new
<1>5. SameIds(s, old)
  BY <1>2, <1>4 DEF SameIds
<1> QED
  BY <1>2, <1>3, <1>4, <1>5, PointEdited DEF s

LEMMA ModifyEdited ==
  ASSUME NEW old \in Run, NEW j \in DOMAIN old.steps, NEW risk \in Risks,
         NEW i \in Nat, NEW pc
  PROVE  /\ [old EXCEPT !.steps[j].risk = risk] \in Run
         /\ Edited([old EXCEPT !.steps[j].risk = risk], old, i, pc)
<1> DEFINE step == [old.steps[j] EXCEPT !.risk = risk]
           new  == [old.steps EXCEPT ![j] = step]
           s    == [old EXCEPT !.steps = new]
<1>1. /\ old.steps \in Seq(Step) /\ DOMAIN old.steps = 1..Len(old.steps)
      /\ old.steps[j] \in Step /\ j \in 1..Len(old.steps)
  BY LenProperties, ElementOfSeq DEF Run
<1>2. /\ step \in Step /\ step.id = old.steps[j].id
      /\ step.status = old.steps[j].status
  BY <1>1 DEF Step
<1>3. [old EXCEPT !.steps[j].risk = risk] = s
  BY DEF Run
<1> HIDE DEF step
<1>4. /\ new \in Seq(Step) /\ Len(new) = Len(old.steps) /\ new[j] = step
      /\ \A k \in 1..Len(old.steps) : k # j => new[k] = old.steps[k]
  BY <1>1, <1>2, ExceptSeq
<1> HIDE DEF new
<1>5. s \in Run /\ s.steps = new /\ s.recoverable = old.recoverable
  BY <1>4 DEF Run
<1> HIDE DEF s
<1>6. SameIds(s, old) /\ \A k \in 1..Len(old.steps) : s.steps[k].status = old.steps[k].status
  BY <1>2, <1>4, <1>5 DEF SameIds
<1> QED
  BY <1>3, <1>5, <1>6, PointEdited

(* An inserted step is pending, and its identifier is not one a record of     *)
(* before the insertion can speak of.                                         *)
LEMMA AddEdited ==
  ASSUME NEW old \in Run, NEW i \in 1..Len(old.steps), NEW e \in Step, NEW pc,
         e.id = Len(old.steps) + 1, e.status = "pending"
  PROVE  /\ [old EXCEPT !.steps = InsertAt(old.steps, i + 1, e)] \in Run
         /\ Edited([old EXCEPT !.steps = InsertAt(old.steps, i + 1, e)], old, i, pc)
<1> DEFINE new == InsertAt(old.steps, i + 1, e)
           s   == [old EXCEPT !.steps = new]
<1>1. /\ old.steps \in Seq(Step) /\ DOMAIN old.steps = 1..Len(old.steps)
      /\ Len(old.steps) \in Nat /\ i \in Nat
  BY LenProperties DEF Run
<1>2. /\ new \in Seq(Step) /\ Len(new) = Len(old.steps) + 1
      /\ Ids(old.steps) => Ids(new)
  BY <1>1, InsertType, InsertIds
<1>3. \A k \in 1..Len(old.steps) + 1 :
        new[k] = e \/ \E j \in 1..Len(old.steps) : new[k] = old.steps[j]
  <2> SUFFICES ASSUME NEW k \in 1..Len(old.steps) + 1
               PROVE  new[k] = e \/ \E j \in 1..Len(old.steps) : new[k] = old.steps[j]
    OBVIOUS
  <2>1. \/ k = i + 1 /\ new[k] = e
        \/ k \in 1..i /\ new[k] = old.steps[k]
        \/ k - 1 \in i + 1..Len(old.steps) /\ new[k] = old.steps[k - 1]
    BY <1>1, InsertCases
  <2> HIDE DEF new
  <2> QED
    BY <1>1, <2>1
<1>4. DOMAIN new = 1..Len(old.steps) + 1
  BY <1>2, LenProperties
<1> HIDE DEF new
<1>5. s \in Run /\ s.steps = new /\ s.recoverable = old.recoverable
  BY <1>2 DEF Run
<1> HIDE DEF s
<1>6. ASSUME NEW n \in Nat, Claims(s, n) PROVE Claims(old, n)
  BY <1>1, <1>3, <1>4, <1>5, <1>6 DEF Claims
<1>7. ASSUME NEW n \in Nat, n <= Len(old.steps), SkippedIn(old, n) PROVE SkippedIn(s, n)
  <2> SUFFICES ASSUME NEW k \in 1..Len(old.steps) + 1, new[k].id = n
               PROVE  new[k].status = "skipped"
    BY <1>4, <1>5 DEF SkippedIn
  <2>1. new[k] # e
    BY <1>1, <1>7
  <2> QED
    BY <1>1, <1>3, <1>7, <2>1 DEF SkippedIn
<1>8. Edited(s, old, i, pc)
  BY <1>1, <1>2, <1>5, <1>6, <1>7 DEF Edited
<1> QED
  BY <1>5, <1>8 DEF s, new

-----------------------------------------------------------------------------
(* What a step of a live coroutine does to its run, and what it says of the    *)
(* step it then stands on.                                                    *)
Progress(t) ==
  /\ Edited(run'[task[t].run], My(t), task[t].i, task[t].pc)
  /\ ran \subseteq ran'
  /\ task'[t].pc \in Underway =>
       /\ task'[t].run = task[t].run
       /\ run'[task[t].run].steps[task'[t].i].status \notin StepTerminal
  /\ task'[t].pc = "tool" =>
       <<task[t].run, run'[task[t].run].steps[task'[t].i].id>> \in ran'

LEMMA WriteProgress ==
  ASSUME TypeInv, NEW t \in Runs, Live(t), NEW s,
         Emit(task[t].run, s) \/ Keep(task[t].run, s),
         Edited(s, My(t), task[t].i, task[t].pc), ran' = ran,
         task'[t].pc # "tool",
         task'[t].pc \in Underway => /\ task'[t].run = task[t].run
                                     /\ s.steps[task'[t].i].status \notin StepTerminal
  PROVE  Progress(t)
<1>1. task[t].run \in Runs /\ run \in [Runs -> Run]
  BY LiveFacts DEF TypeInv, TypeOK
<1>2. run'[task[t].run] = s
  BY <1>1 DEF Emit, Keep
<1> QED
  BY <1>2 DEF Progress

(* The facts the lemmas below start from. *)
LEMMA ProgressFacts ==
  ASSUME TypeInv, NEW t \in Runs, Live(t)
  PROVE  /\ task[t].run \in Runs /\ My(t) \in Run /\ task[t].i \in Nat
         /\ task[t].i \in 1..Len(My(t).steps) + 1 /\ Len(My(t).steps) \in Nat
         /\ task[t].pc \in AtStep => task[t].i \in 1..Len(My(t).steps)
         /\ DOMAIN My(t).steps = 1..Len(My(t).steps)
         /\ task \in [Runs -> Task] /\ run \in [Runs -> Run]
         /\ My(t) = run[task[t].run]
         /\ Edited(My(t), My(t), task[t].i, task[t].pc)
<1>1. /\ task[t].run \in Runs /\ My(t) \in Run /\ task[t].i \in 1..Len(My(t).steps) + 1
      /\ Len(My(t).steps) \in Nat /\ My(t).steps \in Seq(Step)
  BY LiveFacts
<1>2. task[t].i \in Nat
  BY <1>1
<1>3. Edited(My(t), My(t), task[t].i, task[t].pc)
  BY <1>1, <1>2, SameEdited
<1>4. task[t].pc \in AtStep => task[t].i \in 1..Len(My(t).steps)
  BY DEF TypeInv, Placed
<1> QED
  BY <1>1, <1>2, <1>3, <1>4, LenProperties DEF TypeInv, TypeOK, My

LEMMA FinishProgress ==
  ASSUME TypeInv, NEW t \in Runs, Live(t), NEW s \in Run, NEW outcome \in RunTerminal,
         s.steps = My(t).steps, s.recoverable = My(t).recoverable, Finish(t, s, outcome)
  PROVE  Progress(t)
<1> DEFINE e == [s EXCEPT !.state = outcome]
<1>1. e \in Run /\ e.steps = My(t).steps /\ e.recoverable = My(t).recoverable
  BY DEF Run, RunStates, RunTerminal
<1>2. Emit(task[t].run, e) /\ GoTo(t, "finishing") /\ ran' = ran
  BY DEF Finish, history
<1> HIDE DEF e
<1>3. Edited(e, My(t), task[t].i, task[t].pc)
  BY <1>1, ProgressFacts, SameEdited
<1>4. task'[t].pc = "finishing" /\ "finishing" \notin Underway
  BY <1>2, GoToCalm DEF Underway
<1> QED
  BY <1>2, <1>3, <1>4, WriteProgress

LEMMA StartToolProgress ==
  ASSUME TypeInv, NEW t \in Runs, Live(t), Open(t), task[t].pc \in Underway, StartTool(t)
  PROVE  Progress(t)
<1>1. /\ GoTo(t, "tool") /\ run' = run
      /\ ran' = ran \cup {<<task[t].run, MyStep(t).id>>}
  BY DEF StartTool
<1>2. task'[t].pc = "tool" /\ task'[t].run = task[t].run /\ task'[t].i = task[t].i
  BY <1>1, GoToCalm
<1>3. Edited(My(t), My(t), task[t].i, task[t].pc) /\ My(t) = run[task[t].run]
  BY ProgressFacts
<1> QED
  BY <1>1, <1>2, <1>3 DEF Progress, Open, MyStep

LEMMA DispatchProgress ==
  ASSUME TypeInv, NEW t \in Runs, Live(t), task[t].i \in 1..Len(My(t).steps), Dispatch(t)
  PROVE  Progress(t)
<1> DEFINE here == [My(t) EXCEPT !.at = task[t].i]
           k    == task[t].i
<1>1. My(t) \in Run /\ k \in Nat /\ task \in [Runs -> Task]
  BY ProgressFacts
<1>2. here \in Run /\ here.steps = My(t).steps /\ here.recoverable = My(t).recoverable
  BY <1>1 DEF Run
<1>3. ran' = ran
  BY DEF Dispatch, history
<1>4. CASE MyStep(t).status \in StepTerminal
  <2>1. Keep(task[t].run, here) /\ task' = [task EXCEPT ![t].pc = "head", ![t].i = @ + 1]
    BY <1>4 DEF Dispatch
  <2>2. task'[t].pc = "head" /\ "head" \notin Underway
    BY <1>1, <2>1 DEF Task, Underway
  <2> HIDE DEF here
  <2>3. Edited(here, My(t), task[t].i, task[t].pc)
    BY <1>1, <1>2, SameEdited
  <2> QED
    BY <1>3, <2>1, <2>2, <2>3, WriteProgress
<1>5. CASE MyStep(t).status \notin StepTerminal
  <2> DEFINE m    == Mark(here, k, "running")
             next == [m EXCEPT !.state = "running", !.waiting = 0]
  <2>1. Emit(task[t].run, next) /\ GoTo(t, "prepared")
    BY <1>5 DEF Dispatch
  <2>2. k \in 1..Len(here.steps) /\ "running" \in StepStates
    BY <1>2 DEF StepStates
  <2>3. m \in Run /\ m.recoverable = here.recoverable
    <3>1. m \in Run
      BY <1>2, <2>2, MarkType
    <3> QED
      BY <1>2, <3>1 DEF Mark, Run
  <2> HIDE DEF here
  <2>4. next \in Run /\ next.steps = m.steps /\ next.recoverable = My(t).recoverable
    BY <1>2, <2>3 DEF Run, RunStates
  <2> HIDE DEF next, m
  <2>5. Edited(next, My(t), k, task[t].pc) /\ next.steps[k].status = "running"
    <3>1. k \in 1..Len(My(t).steps) /\ My(t).steps[k].status \notin StepTerminal
      BY <1>5 DEF MyStep
    <3>2. next.steps = Mark(here, k, "running").steps
      BY <2>4 DEF m
    <3>3. MarkedFrom(next, here, My(t), k, "running")
      BY <1>2, <2>4, <3>1, <3>2 DEF MarkedFrom
    <3> QED
      BY <1>1, <1>2, <2>2, <2>4, <3>3, MarkEdited
  <2>6. task'[t].pc = "prepared" /\ task'[t].run = task[t].run /\ task'[t].i = k
    BY <2>1, GoToCalm
  <2> QED
    BY <1>3, <2>1, <2>5, <2>6, WriteProgress DEF StepTerminal
<1> QED
  BY <1>4, <1>5

LEMMA PauseGateProgress ==
  ASSUME TypeInv, NEW t \in Runs, Live(t), task[t].i \in 1..Len(My(t).steps), PauseGate(t)
  PROVE  Progress(t)
<1>1. My(t) \in Run /\ task[t].i \in Nat
  BY ProgressFacts
<1>2. CASE Finish(t, My(t), "aborted")
  BY <1>1, <1>2, FinishProgress DEF RunTerminal
<1>3. ASSUME NEW state \in {"paused", "running"}, NEW label \in {"paused", "unpaused"},
             Emit(task[t].run, [My(t) EXCEPT !.state = state]), GoTo(t, label),
             UNCHANGED <<executor, history>>
      PROVE  Progress(t)
  <2> DEFINE s == [My(t) EXCEPT !.state = state]
  <2>1. s \in Run /\ s.recoverable = My(t).recoverable /\ s.steps = My(t).steps
    BY <1>1 DEF Run, RunStates
  <2>2. Emit(task[t].run, s) /\ ran' = ran
    BY <1>3 DEF history
  <2> HIDE DEF s
  <2>3. Edited(s, My(t), task[t].i, task[t].pc)
    BY <1>1, <2>1, SameEdited
  <2>4. task'[t].pc = label /\ label \notin Underway
    BY <1>3, GoToCalm DEF Underway
  <2> QED
    BY <2>2, <2>3, <2>4, WriteProgress DEF Underway
<1>4. CASE Dispatch(t)
  BY <1>4, DispatchProgress
<1> QED
  BY <1>2, <1>3, <1>4 DEF PauseGate

LEMMA LoopHeadProgress ==
  ASSUME TypeInv, NEW t \in Runs, LoopHead(t)
  PROVE  Progress(t)
<1>1. Live(t)
  BY DEF LoopHead, Live
<1>2. /\ My(t) \in Run /\ Len(My(t).steps) \in Nat
      /\ task[t].i \in 1..Len(My(t).steps) + 1
  BY <1>1, ProgressFacts
<1>3. CASE Finish(t, [My(t) EXCEPT !.at = Len(My(t).steps) + 1], "completed")
  <2> DEFINE s == [My(t) EXCEPT !.at = Len(My(t).steps) + 1]
  <2>1. s \in Run /\ s.steps = My(t).steps /\ s.recoverable = My(t).recoverable
    BY <1>2 DEF Run
  <2>2. Finish(t, s, "completed") /\ "completed" \in RunTerminal
    BY <1>3 DEF RunTerminal
  <2> HIDE DEF s
  <2> QED
    BY <1>1, <2>1, <2>2, FinishProgress
<1>4. CASE task[t].i <= Len(My(t).steps) /\ PauseGate(t)
  <2>1. task[t].i \in 1..Len(My(t).steps)
    BY <1>2, <1>4
  <2> QED
    BY <1>1, <1>4, <2>1, PauseGateProgress
<1> QED
  BY <1>3, <1>4 DEF LoopHead

(* A step marked with a status that is not an outcome, or with one.           *)
Marked(mid, i, status, state, waiting) ==
  [Mark(mid, i, status) EXCEPT !.state = state, !.waiting = waiting]

LEMMA MarkShape ==
  ASSUME NEW mid \in Run, NEW i \in 1..Len(mid.steps), NEW status \in StepStates,
         NEW state \in RunStates, NEW waiting \in Nat
  PROVE  /\ Marked(mid, i, status, state, waiting) \in Run
         /\ Marked(mid, i, status, state, waiting).steps = Mark(mid, i, status).steps
         /\ Marked(mid, i, status, state, waiting).recoverable = mid.recoverable
<1> DEFINE m == Mark(mid, i, status)
           s == [m EXCEPT !.state = state, !.waiting = waiting]
<1>1. m \in Run
  BY MarkType
<1>2. m.recoverable = mid.recoverable
  BY <1>1 DEF Mark, Run
<1>3. s = Marked(mid, i, status, state, waiting)
  BY DEF Marked
<1> HIDE DEF m
<1>4. s \in Run /\ s.steps = m.steps /\ s.recoverable = m.recoverable
  BY <1>1 DEF Run
<1> HIDE DEF s
<1> QED
  BY <1>2, <1>3, <1>4 DEF m

LEMMA MarkProgress ==
  ASSUME TypeInv, NEW t \in Runs, Live(t), Open(t), task[t].pc \in Underway,
         task[t].i \in 1..Len(My(t).steps),
         NEW mid \in Run, mid.steps = My(t).steps, mid.recoverable = My(t).recoverable,
         NEW status \in StepStates, status = "done" => task[t].pc = "tool",
         NEW s \in Run, s.steps = Mark(mid, task[t].i, status).steps,
         s.recoverable = mid.recoverable,
         Emit(task[t].run, s) \/ Keep(task[t].run, s), ran' = ran,
         task'[t].pc # "tool",
         task'[t].pc \in Underway => /\ task'[t].run = task[t].run /\ task'[t].i = task[t].i
                                     /\ status \notin StepTerminal
  PROVE  Progress(t)
<1>1. My(t) \in Run
  BY ProgressFacts
<1>2. My(t).steps[task[t].i].status \notin StepTerminal
  BY DEF Open, MyStep
<1>3. MarkedFrom(s, mid, My(t), task[t].i, status)
  BY <1>2 DEF MarkedFrom
<1>4. /\ Edited(s, My(t), task[t].i, task[t].pc)
      /\ s.steps[task[t].i].status = status
  BY <1>1, <1>3, MarkEdited
<1> QED
  BY <1>4, WriteProgress

LEMMA PreparedProgress ==
  ASSUME TypeInv, NEW t \in Runs, Open(t), Prepared(t)
  PROVE  Progress(t)
<1>1. task[t].pc = "prepared" /\ Live(t) /\ task[t].pc \in Underway /\ task[t].pc \in AtStep
  BY DEF Prepared, Live, Underway, AtStep
<1>2. /\ My(t) \in Run /\ task[t].i \in 1..Len(My(t).steps) /\ MyStep(t) \in Step
      /\ task[t].run \in Runs
  BY <1>1, ProgressFacts, LiveFacts
<1>3. CASE Finish(t, Mark(My(t), task[t].i, "failed"), "failed")
  <2> DEFINE m == Mark(My(t), task[t].i, "failed")
             s == [m EXCEPT !.state = "failed"]
  <2>1. m \in Run /\ m.waiting \in Nat
    BY <1>2, MarkType DEF StepStates, Run
  <2>2. Emit(task[t].run, s) /\ GoTo(t, "finishing") /\ ran' = ran
    BY <1>3 DEF Finish, history
  <2> HIDE DEF m
  <2>4. s \in Run /\ s.steps = m.steps /\ s.recoverable = m.recoverable
    BY <2>1 DEF Run, RunStates
  <2> HIDE DEF s
  <2>7. m.recoverable = My(t).recoverable
    BY <1>2, <2>1 DEF m, Mark, Run
  <2>5. task'[t].pc = "finishing" /\ "finishing" \notin Underway
    BY <2>2, GoToCalm DEF Underway
  <2>6. "failed" \in StepStates /\ "failed" \in RunStates
    BY DEF StepStates, RunStates
  <2> QED
    BY <1>1, <1>2, <2>2, <2>4, <2>5, <2>6, <2>7, MarkProgress DEF m
<1>4. CASE /\ Emit(task[t].run, [Mark(My(t), task[t].i, "waiting_confirmation")
                                   EXCEPT !.state = "waiting_confirmation",
                                          !.waiting = MyStep(t).id])
           /\ GoTo(t, "asking")
           /\ UNCHANGED <<current, starting, paused, abort, history>>
  <2>1. task'[t].pc = "asking" /\ task'[t].run = task[t].run /\ task'[t].i = task[t].i
    BY <1>4, GoToCalm
  <2>2. ran' = ran /\ MyStep(t).id \in Nat
    BY <1>2, <1>4 DEF history, Step
  <2>3. /\ "waiting_confirmation" \in StepStates /\ "waiting_confirmation" \in RunStates
        /\ "waiting_confirmation" \notin StepTerminal
    BY DEF StepStates, RunStates, StepTerminal
  <2> DEFINE s == Marked(My(t), task[t].i, "waiting_confirmation", "waiting_confirmation",
                         MyStep(t).id)
  <2>4. Emit(task[t].run, s)
    BY <1>4 DEF Marked
  <2>5. /\ s \in Run /\ s.recoverable = My(t).recoverable
        /\ s.steps = Mark(My(t), task[t].i, "waiting_confirmation").steps
    BY <1>2, <2>2, <2>3, MarkShape
  <2> HIDE DEF s
  <2> QED
    BY <1>1, <1>2, <2>1, <2>2, <2>3, <2>4, <2>5, MarkProgress
<1>5. CASE StartTool(t)
  BY <1>1, <1>5, StartToolProgress
<1> QED
  BY <1>3, <1>4, <1>5 DEF Prepared

LEMMA AskingProgress ==
  ASSUME TypeInv, NEW t \in Runs, Open(t), Asking(t)
  PROVE  Progress(t)
<1>1. task[t].pc = "asking" /\ Live(t) /\ task[t].pc \in Underway
  BY DEF Asking, Live, Underway
<1>2. /\ My(t) \in Run /\ task \in [Runs -> Task] /\ My(t) = run[task[t].run]
      /\ Edited(My(t), My(t), task[t].i, task[t].pc)
  BY <1>1, ProgressFacts
<1>3. CASE Finish(t, My(t), "failed")
  BY <1>1, <1>2, <1>3, FinishProgress DEF RunTerminal
<1>4. CASE /\ task' = [task EXCEPT ![t].pc = "waiting", ![t].future = confirmation]
           /\ UNCHANGED <<run, store, executor, history>>
  <2>1. /\ task'[t].run = task[t].run /\ task'[t].pc = "waiting" /\ task'[t].i = task[t].i
        /\ run' = run /\ ran' = ran
    BY <1>2, <1>4 DEF Task, history
  <2> QED
    BY <1>1, <1>2, <2>1 DEF Progress, Open, MyStep
<1> QED
  BY <1>3, <1>4 DEF Asking

LEMMA AnsweredProgress ==
  ASSUME TypeInv, NEW t \in Runs, Open(t), Answered(t)
  PROVE  Progress(t)
<1> DEFINE heard == [My(t) EXCEPT !.waiting = 0]
<1>1. task[t].pc = "waiting" /\ Live(t) /\ task[t].pc \in Underway /\ task[t].pc \in AtStep
  BY DEF Answered, Live, Underway, AtStep
<1>2. /\ My(t) \in Run /\ task[t].i \in 1..Len(My(t).steps) /\ task \in [Runs -> Task]
      /\ task[t].i \in Nat
  BY <1>1, ProgressFacts
<1>3. /\ heard \in Run /\ heard.steps = My(t).steps
      /\ heard.recoverable = My(t).recoverable /\ heard.waiting = 0
  BY <1>2 DEF Run
<1>4. ran' = ran
  BY DEF Answered, history
<1>5. CASE Emit(task[t].run, [heard EXCEPT !.state = "aborted"]) /\ GoTo(t, "finishing")
  <2> DEFINE s == [heard EXCEPT !.state = "aborted"]
  <2>1. s \in Run /\ s.steps = My(t).steps /\ s.recoverable = My(t).recoverable
    <3> HIDE DEF heard
    <3> QED
      BY <1>3 DEF Run, RunStates
  <2>2. Emit(task[t].run, s)
    BY <1>5
  <2> HIDE DEF s, heard
  <2>3. Edited(s, My(t), task[t].i, task[t].pc)
    BY <1>2, <2>1, SameEdited
  <2>4. task'[t].pc = "finishing" /\ "finishing" \notin Underway
    BY <1>5, GoToCalm DEF Underway
  <2> QED
    BY <1>1, <1>4, <2>2, <2>3, <2>4, WriteProgress
<1>6. CASE /\ Emit(task[t].run, [Mark(heard, task[t].i, "running") EXCEPT !.state = "running"])
           /\ \E ok : task' = [task EXCEPT ![t].pc = "confirmed", ![t].ok = ok]
  <2> DEFINE m == Mark(heard, task[t].i, "running")
             s == [m EXCEPT !.state = "running"]
  <2>1. Emit(task[t].run, s)
    BY <1>6
  <2> HIDE DEF heard
  <2>2. task[t].i \in 1..Len(heard.steps) /\ "running" \in StepStates /\ "running" \in RunStates
        /\ "running" \notin StepTerminal
    BY <1>2, <1>3 DEF StepStates, RunStates, StepTerminal
  <2>3. m \in Run /\ m.recoverable = heard.recoverable
    <3>1. m \in Run
      BY <1>3, <2>2, MarkType
    <3> QED
      BY <1>3, <3>1 DEF Mark, Run
  <2> HIDE DEF m
  <2>4. s \in Run /\ s.steps = m.steps /\ s.recoverable = m.recoverable
    BY <2>3 DEF Run, RunStates
  <2> HIDE DEF s
  <2>5. /\ s.steps = Mark(heard, task[t].i, "running").steps
        /\ s.recoverable = heard.recoverable
    BY <2>3, <2>4 DEF m
  <2>6. task'[t].pc = "confirmed" /\ task'[t].run = task[t].run /\ task'[t].i = task[t].i
    BY <1>2, <1>6 DEF Task
  <2> QED
    BY <1>1, <1>2, <1>3, <1>4, <2>1, <2>2, <2>4, <2>5, <2>6, MarkProgress
<1> QED
  BY <1>5, <1>6 DEF Answered

LEMMA ConfirmedProgress ==
  ASSUME TypeInv, NEW t \in Runs, Open(t), Confirmed(t)
  PROVE  Progress(t)
<1>1. task[t].pc = "confirmed" /\ Live(t) /\ task[t].pc \in Underway /\ task[t].pc \in AtStep
  BY DEF Confirmed, Live, Underway, AtStep
<1>2. My(t) \in Run /\ task[t].i \in 1..Len(My(t).steps)
  BY <1>1, ProgressFacts
<1>3. CASE StartTool(t)
  BY <1>1, <1>3, StartToolProgress
<1>4. CASE /\ Emit(task[t].run, [Mark(My(t), task[t].i, "skipped")
                                   EXCEPT !.state = "running", !.waiting = 0])
           /\ MoveTo(t, task[t].i + 1)
           /\ UNCHANGED <<executor, history>>
  <2>1. task'[t].pc = "advance" /\ "advance" \notin Underway /\ ran' = ran
    BY <1>4, MoveToCalm DEF Underway, history
  <2>2. "skipped" \in StepStates /\ "running" \in RunStates
    BY DEF StepStates, RunStates
  <2> DEFINE s == Marked(My(t), task[t].i, "skipped", "running", 0)
  <2>3. Emit(task[t].run, s)
    BY <1>4 DEF Marked
  <2>4. /\ s \in Run /\ s.recoverable = My(t).recoverable
        /\ s.steps = Mark(My(t), task[t].i, "skipped").steps
    BY <1>2, <2>2, MarkShape
  <2> HIDE DEF s
  <2> QED
    BY <1>1, <1>2, <2>1, <2>2, <2>3, <2>4, MarkProgress
<1> QED
  BY <1>3, <1>4 DEF Confirmed

LEMMA ToolReturnsProgress ==
  ASSUME TypeInv, NEW t \in Runs, Open(t), NEW success \in BOOLEAN, ToolReturns(t, success)
  PROVE  Progress(t)
<1> DEFINE status == IF success THEN "done" ELSE "failed"
           s == Mark(My(t), task[t].i, status)
<1>1. task[t].pc = "tool" /\ Live(t) /\ task[t].pc \in Underway /\ task[t].pc \in AtStep
  BY DEF ToolReturns, Live, Underway, AtStep
<1>2. My(t) \in Run /\ task[t].i \in 1..Len(My(t).steps)
  BY <1>1, ProgressFacts
<1>3. /\ Emit(task[t].run, s) \/ Keep(task[t].run, s)
      /\ \/ GoTo(t, "evaluating")
         \/ MoveTo(t, task[t].i + 1)
         \/ GoTo(t, "failing")
      /\ ran' = ran
  BY DEF ToolReturns, history
<1>4. status \in StepStates
  BY DEF StepStates
<1> HIDE DEF status
<1>5. s \in Run /\ s.recoverable = My(t).recoverable
  <2>1. s \in Run
    BY <1>2, <1>4, MarkType
  <2> QED
    BY <1>2, <2>1 DEF Mark, Run
<1>6. status = "done" => task[t].pc = "tool"
  BY <1>1
<1>7. task'[t].pc \in {"evaluating", "advance", "failing"}
  BY <1>3, GoToCalm, MoveToCalm
<1>8. s.steps = Mark(My(t), task[t].i, status).steps
  OBVIOUS
<1> HIDE DEF s
<1> QED
  BY <1>1, <1>2, <1>3, <1>4, <1>5, <1>6, <1>7, <1>8, MarkProgress DEF Underway

LEMMA ReviseProgress ==
  ASSUME TypeInv, NEW t \in Runs, Judging(t), NEW s, NEW k, Revise(t, s, k),
         Edited(s, My(t), task[t].i, task[t].pc)
  PROVE  Progress(t)
<1>1. Live(t) /\ Emit(task[t].run, s) /\ MoveTo(t, k) /\ ran' = ran
  BY DEF Judging, Live, Revise, history
<1>2. task'[t].pc = "advance" /\ "advance" \notin Underway
  BY <1>1, MoveToCalm DEF Underway
<1> QED
  BY <1>1, <1>2, WriteProgress

LEMMA EvaluateProgress ==
  ASSUME TypeInv, NEW t \in Runs, Evaluate(t)
  PROVE  Progress(t)
<1>0. Judging(t)
  BY DEF Evaluate, EvaluateContinue, EvaluateAbort, EvaluateModify, EvaluateAddStep,
         EvaluateSkip
<1>1. Live(t) /\ task[t].pc \in AtStep
  BY <1>0 DEF Judging, Live, AtStep
<1>2. /\ My(t) \in Run /\ task[t].i \in 1..Len(My(t).steps) /\ task[t].i \in Nat
      /\ Len(My(t).steps) \in Nat /\ DOMAIN My(t).steps = 1..Len(My(t).steps)
      /\ Edited(My(t), My(t), task[t].i, task[t].pc)
  BY <1>1, ProgressFacts
<1>3. CASE EvaluateContinue(t)
  BY <1>0, <1>2, <1>3, ReviseProgress DEF EvaluateContinue
<1>4. CASE EvaluateAbort(t)
  BY <1>1, <1>2, <1>4, FinishProgress DEF EvaluateAbort, RunTerminal
<1>5. CASE EvaluateModify(t)
  BY <1>0, <1>2, <1>5, ModifyEdited, ReviseProgress DEF EvaluateModify
<1>6. CASE EvaluateAddStep(t)
  <2>1. PICK risk \in Risks, dangerous \in BOOLEAN :
           Revise(t, [My(t) EXCEPT !.steps = InsertAt(@, task[t].i + 1,
                        [id |-> Len(My(t).steps) + 1, risk |-> risk,
                         dangerous |-> dangerous, status |-> "pending"])],
                  task[t].i + 1)
    BY <1>6 DEF EvaluateAddStep
  <2> DEFINE e == [id |-> Len(My(t).steps) + 1, risk |-> risk,
                   dangerous |-> dangerous, status |-> "pending"]
             s == [My(t) EXCEPT !.steps = InsertAt(My(t).steps, task[t].i + 1, e)]
  <2>2. e \in Step /\ e.id = Len(My(t).steps) + 1 /\ e.status = "pending"
    BY <1>2 DEF Step, StepStates
  <2>3. Revise(t, s, task[t].i + 1)
    BY <2>1
  <2> HIDE DEF e
  <2>4. Edited(s, My(t), task[t].i, task[t].pc)
    BY <1>2, <2>2, AddEdited
  <2> HIDE DEF s
  <2> QED
    BY <1>0, <2>3, <2>4, ReviseProgress
<1>7. CASE EvaluateSkip(t)
  <2>1. ASSUME NEW to \in Int, NEW k, Revise(t, Skip(My(t), task[t].i + 1, to), k)
        PROVE  Progress(t)
    <3>1. task[t].i + 1 \in Int
      BY <1>2
    <3>2. Edited(Skip(My(t), task[t].i + 1, to), My(t), task[t].i, task[t].pc)
      BY <1>2, <3>1, SkipEdited
    <3> QED
      BY <1>0, <2>1, <3>2, ReviseProgress
  <2>2. CASE \E k \in DOMAIN My(t).steps :
               k > task[t].i + 1 /\ Revise(t, Skip(My(t), task[t].i + 1, k - 1), k)
    <3>1. PICK k \in DOMAIN My(t).steps : Revise(t, Skip(My(t), task[t].i + 1, k - 1), k)
      BY <2>2
    <3>2. k - 1 \in Int
      BY <1>2
    <3> QED
      BY <2>1, <3>1, <3>2
  <2>3. CASE Revise(t, Skip(My(t), task[t].i + 1, task[t].i + 1), task[t].i + 2)
    <3>1. task[t].i + 1 \in Int
      BY <1>2
    <3> QED
      BY <2>1, <2>3, <3>1
  <2> QED
    BY <1>7, <2>2, <2>3 DEF EvaluateSkip
<1> QED
  BY <1>3, <1>4, <1>5, <1>6, <1>7 DEF Evaluate

LEMMA LiveStepProgress ==
  ASSUME TypeInv, NEW t \in Runs, Open(t), TaskStep(t), ~Begin(t)
  PROVE  Live(t) /\ Progress(t)
<1>1. CASE WakePaused(t) \/ Unpaused(t)
  <2>1. Live(t) /\ task[t].pc \in AtStep /\ (PauseGate(t) \/ Dispatch(t))
    BY <1>1 DEF WakePaused, Unpaused, Live, AtStep
  <2>2. task[t].i \in 1..Len(My(t).steps)
    BY <2>1, ProgressFacts
  <2> QED
    BY <2>1, <2>2, PauseGateProgress, DispatchProgress
<1>2. CASE ToolRaises(t) \/ Failing(t)
  <2>1. Live(t) /\ Finish(t, My(t), "failed")
    BY <1>2 DEF ToolRaises, Failing, Live
  <2>2. My(t) \in Run
    BY <2>1, ProgressFacts
  <2> QED
    BY <2>1, <2>2, FinishProgress DEF RunTerminal
<1>3. CASE Advance(t) \/ Finally(t)
  <2>1. /\ Live(t) /\ run' = run /\ ran' = ran
        /\ GoTo(t, "head") \/ GoTo(t, "done")
    BY <1>3 DEF Advance, Finally, Live, history
  <2>2. task'[t].pc \in {"head", "done"}
    BY <2>1, GoToCalm
  <2>3. Edited(My(t), My(t), task[t].i, task[t].pc) /\ My(t) = run[task[t].run]
    BY <2>1, ProgressFacts
  <2> QED
    BY <2>1, <2>2, <2>3 DEF Progress, Underway
<1>4. CASE LoopHead(t) \/ Prepared(t) \/ Asking(t) \/ Answered(t) \/ Confirmed(t)
  <2>1. Live(t)
    BY <1>4 DEF LoopHead, Prepared, Asking, Answered, Confirmed, Live
  <2> QED
    BY <1>4, <2>1, LoopHeadProgress, PreparedProgress, AskingProgress, AnsweredProgress,
       ConfirmedProgress
<1>5. CASE ToolReturns(t, TRUE) \/ ToolReturns(t, FALSE) \/ Evaluate(t)
  <2>1. Live(t)
    BY <1>5 DEF ToolReturns, Evaluate, EvaluateContinue, EvaluateAbort, EvaluateModify,
                EvaluateAddStep, EvaluateSkip, Judging, Live
  <2> QED
    BY <1>5, <2>1, ToolReturnsProgress, EvaluateProgress
<1> QED
  BY <1>1, <1>2, <1>3, <1>4, <1>5 DEF TaskStep
-----------------------------------------------------------------------------
(* Every step of the system.  What a step leaves in memory or on disk of run  *)
(* r accounts for itself, and the records runs were resumed from are final.   *)
Grown(s, r) ==
  /\ Ids(s.steps)
  /\ s.recoverable => s.state \in RunTerminal
  /\ \A n \in Nat : Claims(s, n) => <<r, n>> \in ran' \/ Accounted(r, n)

Settled ==
  /\ ran \subseteq ran'
  /\ \A r \in Runs : run'[r].state = "absent" => run[r].state = "absent"
  /\ \A t \in Runs : task'[t].pc \in Underway => Open(t)' /\ InFlight(t)'

LEMMA OldGrown ==
  ASSUME DataInv, NEW r \in Runs
  PROVE  Grown(run[r], r) /\ Grown(store[r], r)
BY DEF DataInv, Grown

LEMMA SameGrown ==
  ASSUME NEW s, NEW old, NEW r, Grown(old, r), s.steps = old.steps,
         s.recoverable => s.state \in RunTerminal
  PROVE  Grown(s, r)
BY DEF Grown, Claims

LEMMA DataKept ==
  ASSUME RecInv, DataInv, RecoveryNext, Settled, resumed_from' = resumed_from,
         \A r \in Runs : Grown(run'[r], r) /\ Grown(store'[r], r),
         \A r \in Runs : r = current' /\ resumed_from[r] # NoRun =>
                           Kept(resumed_from[r], run'[r])
  PROVE  DataInv'
<1>1. \A r \in Runs : resumed_from[r] # NoRun =>
        /\ store[resumed_from[r]].state \in RunTerminal
        /\ store'[resumed_from[r]] = store[resumed_from[r]]
  <2> SUFFICES ASSUME NEW r \in Runs, resumed_from[r] # NoRun
               PROVE  /\ store[resumed_from[r]].state \in RunTerminal
                      /\ store'[resumed_from[r]] = store[resumed_from[r]]
    OBVIOUS
  <2>1. resumed_from[r] \in Runs /\ store[resumed_from[r]].state \in RunTerminal
    BY DEF RecInv, DataInv
  <2> QED
    BY <2>1, RecordStep
<1>2. \A r \in Runs : Ids(run'[r].steps) /\ Ids(store'[r].steps)
  BY DEF Grown
<1>3. \A r \in Runs : /\ run'[r].recoverable => run'[r].state \in RunTerminal
                      /\ store'[r].recoverable => store'[r].state \in RunTerminal
  BY DEF Grown
<1>4. \A t \in Runs : Open(t)' /\ InFlight(t)'
  BY DEF Settled, Open, InFlight, Underway
<1>5. \A r \in Runs : run'[r].state = "absent" => resumed_from'[r] = NoRun
  BY DEF Settled, DataInv
<1>6. \A r \in Runs : resumed_from'[r] # NoRun => store'[resumed_from'[r]].state \in RunTerminal
  BY <1>1
<1>7. ASSUME NEW r \in Runs, NEW n \in Nat, Claims(run'[r], n) \/ Claims(store'[r], n)
      PROVE  Accounted(r, n)'
  <2>1. <<r, n>> \in ran' \/ Accounted(r, n)
    BY <1>7 DEF Grown
  <2> QED
    BY <1>1, <2>1 DEF Accounted, Recorded, Settled
<1>8. ASSUME NEW r \in Runs, r = current' /\ resumed_from'[r] # NoRun
      PROVE  Kept(resumed_from[r], run[r])'
  BY <1>1, <1>8 DEF Kept, Recorded
<1> QED
  BY <1>2, <1>3, <1>4, <1>5, <1>6, <1>7, <1>8 DEF DataInv

(* Steps that write no step of any plan. *)
LEMMA DataSame ==
  ASSUME RecInv, DataInv, RecoveryNext, Settled, resumed_from' = resumed_from,
         current' \in {current, NoRun},
         \A r \in Runs : /\ run'[r].steps = run[r].steps
                         /\ run'[r].recoverable => run'[r].state \in RunTerminal
                         /\ store'[r].steps \in {run[r].steps, store[r].steps}
                         /\ store'[r].recoverable => store'[r].state \in RunTerminal
  PROVE  DataInv'
<1>1. \A r \in Runs : Grown(run'[r], r) /\ Grown(store'[r], r)
  BY OldGrown, SameGrown
<1>2. \A r \in Runs : r = current' /\ resumed_from[r] # NoRun =>
                        Kept(resumed_from[r], run'[r])
  BY ConstantsOK DEF DataInv, Kept, SkippedIn
<1> QED
  BY <1>1, <1>2, DataKept

LEMMA DataSilent ==
  ASSUME RecInv, DataInv, RecoveryNext, UNCHANGED <<run, store, ran, resumed_from>>,
         current' \in {current, NoRun},
         \A t \in Runs : task'[t] = task[t] \/ task'[t].pc \notin Underway
  PROVE  DataInv'
<1>1. Settled
  BY DEF Settled, DataInv, Open, InFlight, MyStep, My
<1> QED
  BY <1>1, DataSame DEF DataInv

(* A step of the coroutine that executes the current run. *)
LEMMA DataTaskStep ==
  ASSUME RecInv, DataInv, Serving, RecInv', NEW t \in Runs, TaskStep(t), ~Begin(t)
  PROVE  DataInv'
<1> DEFINE p == task[t].run
<1>0. /\ SafeInv /\ StopInv /\ TypeInv /\ TypeInv' /\ resumed_from' = resumed_from
      /\ RecoveryNext /\ Open(t) /\ InFlight(t) /\ task \in [Runs -> Task]
  BY DEF RecInv, StopInv, SafeInv, Serving, RecoveryNext, DataInv, StoreInv, TypeInv, TypeOK
<1>1. Live(t) /\ Progress(t)
  BY <1>0, LiveStepProgress
<1>2. Saves(t) /\ Shape(t)
  BY <1>0, TaskStepSaves, TaskStepShape
<1>3. p \in Runs /\ p = current /\ Doing(t) /\ My(t) = run[p] /\ Busy(t) /\ run[p].state # "absent"
  BY <1>0, <1>1, LiveSafe, LiveFacts DEF My
<1>4. \A r \in Runs : r # p => run'[r] = run[r] /\ store'[r] = store[r]
  BY <1>2, <1>3 DEF Saves, OthersKept
<1>5. store'[p] \in {store[p], run'[p]}
  BY <1>2 DEF Saves
<1>6. run'[p].recoverable => run'[p].state \in RunTerminal
  <2> SUFFICES ASSUME run'[p].recoverable PROVE run'[p].state \in RunTerminal
    OBVIOUS
  <2>1. run[p].recoverable
    BY <1>1, <1>3 DEF Progress, Edited
  <2>2. run[p].state \in RunTerminal
    BY <1>3, <2>1 DEF DataInv
  <2>3. task[t].pc = "finishing"
    BY <1>3, <2>2 DEF Doing, RunTerminal
  <2> QED
    BY <1>2, <2>2, <2>3 DEF Shape
<1>7. Grown(run'[p], p)
  <2>1. Ids(run'[p].steps)
    BY <1>1, <1>3 DEF Progress, Edited, DataInv
  <2>2. ASSUME NEW n \in Nat, Claims(run'[p], n) PROVE <<p, n>> \in ran' \/ Accounted(p, n)
    <3>1. CASE Claims(run[p], n)
      BY <1>3, <3>1 DEF DataInv
    <3>2. CASE task[t].pc = "tool" /\ n = My(t).steps[task[t].i].id
      <4>1. <<p, n>> \in ran
        BY <1>0, <3>2 DEF InFlight, MyStep
      <4> QED
        BY <4>1 DEF Accounted
    <3>3. Claims(My(t), n) \/ (task[t].pc = "tool" /\ n = My(t).steps[task[t].i].id)
      BY <1>1, <2>2 DEF Progress, Edited
    <3> QED
      BY <1>3, <3>1, <3>2, <3>3
  <2> QED
    BY <1>6, <2>1, <2>2 DEF Grown
<1>8. \A r \in Runs : Grown(run'[r], r) /\ Grown(store'[r], r)
  BY <1>3, <1>4, <1>5, <1>7, OldGrown
<1>9. ASSUME NEW r \in Runs, r = current', resumed_from[r] # NoRun
      PROVE  Kept(resumed_from[r], run'[r])
  <2> DEFINE q == resumed_from[r]
  <2>1. r = p /\ q \in Runs /\ Kept(q, run[p])
    <3>1. r = current
      BY <1>2, <1>9, ConstantsOK DEF Shape
    <3> QED
      BY <1>3, <1>9, <3>1 DEF DataInv, RecInv
  <2>2. /\ Len(store[q].steps) \in Nat /\ Len(run[p].steps) \in Nat
        /\ Len(run'[p].steps) \in Nat /\ store[q].steps \in Seq(Step)
        /\ DOMAIN store[q].steps = 1..Len(store[q].steps)
    BY <1>0, <1>3, <2>1, LenProperties DEF TypeInv, TypeOK, Run
  <2>3. Edited(run'[p], run[p], task[t].i, task[t].pc)
    BY <1>1, <1>3 DEF Progress
  <2>4. Len(store[q].steps) <= Len(run'[p].steps)
    <3>1. Len(store[q].steps) <= Len(run[p].steps)
      BY <2>1 DEF Kept
    <3>2. Len(run'[p].steps) >= Len(run[p].steps)
      BY <2>3 DEF Edited
    <3> HIDE DEF p, q
    <3> QED
      BY <2>2, <3>1, <3>2
  <2>5. ASSUME NEW n \in Nat, Recorded(q, n, "skipped") PROVE SkippedIn(run'[p], n)
    <3>1. SkippedIn(run[p], n)
      BY <2>1, <2>5 DEF Kept
    <3>2. n \in 1..Len(store[q].steps)
      BY <2>1, <2>2, <2>5 DEF DataInv, Recorded, Ids
    <3>3. n <= Len(run[p].steps)
      BY <2>1, <2>2, <3>2 DEF Kept
    <3> QED
      BY <2>3, <3>1, <3>3 DEF Edited
  <2> QED
    BY <2>1, <2>2, <2>4, <2>5 DEF Kept
<1>10. Settled
  <2>1. \A r \in Runs : run'[r].state = "absent" => run[r].state = "absent"
    <3>1. run'[p].state # "absent"
      <4>1. CASE Live(t)' /\ task'[t].run = p
        BY <1>0, <4>1 DEF TypeInv, Placed, My
      <4>2. CASE run' = run
        BY <1>3, <4>2
      <4> QED
        BY <1>2, <4>1, <4>2 DEF Saves
    <3> QED
      BY <1>4, <3>1
  <2>2. ASSUME NEW u \in Runs, task'[u].pc \in Underway PROVE u = t
    <3> SUFFICES ASSUME u # t PROVE FALSE
      OBVIOUS
    <3>1. task'[u] = task[u]
      BY <1>2 DEF Shape
    <3> QED
      BY <1>0, <1>3, <2>2, <3>1 DEF SafeInv, Alone, Busy, Underway
  <2>3. task'[t].pc \in Underway => Open(t)' /\ InFlight(t)'
    BY <1>1 DEF Progress, Open, InFlight, MyStep, My, Underway
  <2> QED
    BY <1>1, <2>1, <2>2, <2>3 DEF Settled, Progress
<1> QED
  BY <1>0, <1>8, <1>9, <1>10, DataKept

(* A run begins: with nothing done, or as the copy of a record.               *)
LEMMA DataLaunch ==
  ASSUME RecInv, DataInv, RecoveryNext, RecInv', up',
         NEW r \in Runs, NEW s \in Run, NEW p \in Runs \cup {NoRun},
         Launch(r, s), resumed_from' = [resumed_from EXCEPT ![r] = p],
         Ids(s.steps), s.state = "running", s.recoverable = FALSE,
         p # NoRun => store[p].state \in RunTerminal /\ Kept(p, s),
         \A n \in Nat : Claims(s, n) => p # NoRun /\ Recorded(p, n, "done")
  PROVE  DataInv'
<1>1. /\ Emit(r, s) /\ current' = r /\ starting' = r /\ task' = task /\ ran' = ran
      /\ run \in [Runs -> Run] /\ store \in [Runs -> Run] /\ r # NoRun
      /\ resumed_from \in [Runs -> Runs \cup {NoRun}]
  BY ConstantsOK DEF Launch, history, RecInv, StoreInv, TypeInv, TypeOK
<1>2. /\ run'[r] = s /\ store'[r] = s /\ resumed_from'[r] = p
      /\ \A q \in Runs : q # r => /\ run'[q] = run[q] /\ store'[q] = store[q]
                                  /\ resumed_from'[q] = resumed_from[q]
  BY <1>1 DEF Emit
<1>3. \A t \in Runs : Open(t)' /\ InFlight(t)'
  <2>1. SafeInv'
    BY DEF RecInv
  <2> QED
    BY <1>1, <2>1 DEF SafeInv, Alone, Busy, Open, InFlight, Underway
<1>4. ASSUME NEW q \in Runs, resumed_from'[q] # NoRun
      PROVE  /\ store[resumed_from'[q]].state \in RunTerminal
             /\ store'[resumed_from'[q]] = store[resumed_from'[q]]
  <2>1. resumed_from'[q] \in Runs /\ store[resumed_from'[q]].state \in RunTerminal
    BY <1>1, <1>2, <1>4 DEF DataInv
  <2> QED
    BY <2>1, RecordStep
<1>5. ASSUME NEW q \in Runs, NEW n \in Nat, Claims(run'[q], n) \/ Claims(store'[q], n)
      PROVE  Accounted(q, n)'
  <2>1. CASE q = r
    BY <1>2, <1>4, <1>5, <2>1 DEF Accounted, Recorded
  <2>2. CASE q # r
    <3>1. Accounted(q, n)
      BY <1>2, <1>5, <2>2 DEF DataInv
    <3> QED
      BY <1>1, <1>2, <1>4, <2>2, <3>1 DEF Accounted, Recorded
  <2> QED
    BY <2>1, <2>2
<1>6. ASSUME NEW q \in Runs, q = current', resumed_from'[q] # NoRun
      PROVE  Kept(resumed_from[q], run[q])'
  <2>1. q = r
    BY <1>1, <1>6
  <2> QED
    BY <1>2, <1>4, <1>6, <2>1 DEF Kept, Recorded
<1>7. \A q \in Runs : run'[q].state = "absent" => resumed_from'[q] = NoRun
  BY <1>2 DEF DataInv
<1>8. \A q \in Runs : /\ Ids(run'[q].steps) /\ Ids(store'[q].steps)
                      /\ run'[q].recoverable => run'[q].state \in RunTerminal
                      /\ store'[q].recoverable => store'[q].state \in RunTerminal
  BY <1>2 DEF DataInv
<1> QED
  BY <1>3, <1>4, <1>5, <1>6, <1>7, <1>8 DEF DataInv

LEMMA DataStart ==
  ASSUME RecInv, DataInv, Serving, RecInv', NEW r \in Runs, StartPlan(r)
  PROVE  DataInv'
<1>1. PICK plan \in Plans : Launch(r, FreshRun(plan))
  BY DEF StartPlan
<1> DEFINE s == FreshRun(plan)
<1>2. /\ plan.steps \in Seq(Step) /\ plan.supervised \in BOOLEAN /\ plan.always \in BOOLEAN
      /\ \A k \in DOMAIN plan.steps : plan.steps[k].id = k /\ plan.steps[k].status = "pending"
      /\ DOMAIN plan.steps = 1..Len(plan.steps)
  BY ConstantsOK, LenProperties
<1>3. /\ s \in Run /\ s.steps = plan.steps /\ s.state = "running" /\ s.recoverable = FALSE
  BY <1>2 DEF FreshRun, Blank, Run, RunStates
<1> HIDE DEF s
<1>4. Ids(s.steps) /\ \A n \in Nat : ~Claims(s, n)
  BY <1>2, <1>3 DEF Ids, Claims
<1>5. resumed_from' = [resumed_from EXCEPT ![r] = NoRun]
  <2>1. run[r].state = "absent"
    BY <1>1 DEF Launch
  <2> QED
    BY <2>1 DEF DataInv, Serving, RecInv
<1>6. up' /\ Launch(r, s) /\ RecoveryNext
  BY <1>1 DEF Serving, RecoveryNext, s
<1> QED
  BY <1>3, <1>4, <1>5, <1>6, DataLaunch

LEMMA DataResume ==
  ASSUME RecInv, DataInv, RecInv', NEW r \in Runs, NEW p \in Runs, ResumeSaved(r, p)
  PROVE  DataInv'
<1> DEFINE s == Resumed(store[p])
<1>1. /\ up' /\ store[p].recoverable /\ Launch(r, s)
      /\ resumed_from' = [resumed_from EXCEPT ![r] = p] /\ RecoveryNext
      /\ store[p] \in Run /\ Ids(store[p].steps) /\ store[p].state \in RunTerminal
  BY DEF ResumeSaved, RecoveryNext, RecInv, StoreInv, TypeInv, TypeOK, DataInv
<1>2. /\ s \in Run /\ s.state = "running" /\ s.recoverable = FALSE
      /\ Len(s.steps) = Len(store[p].steps) /\ DOMAIN s.steps = DOMAIN store[p].steps
      /\ \A k \in DOMAIN store[p].steps :
           /\ s.steps[k].id = store[p].steps[k].id
           /\ s.steps[k].status \in {store[p].steps[k].status, "pending"}
           /\ store[p].steps[k].status = "skipped" => s.steps[k].status = "skipped"
  BY <1>1, ResumedType
<1>3. DOMAIN s.steps = 1..Len(s.steps) /\ Len(s.steps) \in Nat
  BY <1>2, LenProperties DEF Run
<1> HIDE DEF s
<1>4. Ids(s.steps)
  BY <1>1, <1>2, <1>3 DEF Ids
<1>5. \A n \in Nat : Claims(s, n) => Recorded(p, n, "done")
  BY <1>2 DEF Claims, Recorded
<1>6. Kept(p, s)
  <2>1. ASSUME NEW n \in Nat, Recorded(p, n, "skipped") PROVE SkippedIn(s, n)
    BY <1>1, <1>2, <1>3, <2>1 DEF Recorded, SkippedIn, Ids
  <2> QED
    BY <1>2, <1>3, <2>1 DEF Kept
<1>7. p # NoRun
  BY ConstantsOK
<1> QED
  BY <1>1, <1>2, <1>4, <1>5, <1>6, <1>7, DataLaunch

(* A pause, its end, a crash or a shutdown writes states only.                *)
LEMMA DataHandler ==
  ASSUME RecInv, DataInv, Serving, RecInv', NEW r \in Runs, Handler(r) \/ CreateTask(r)
  PROVE  DataInv'
<1>0. /\ RecoveryNext /\ resumed_from' = resumed_from
      /\ run \in [Runs -> Run] /\ store \in [Runs -> Run] /\ task \in [Runs -> Task]
  BY DEF Serving, RecoveryNext, RecInv, StoreInv, TypeInv, TypeOK
<1>1. CASE StartPlan(r)
  BY <1>1, DataStart
<1>2. CASE AbortRun(r) \/ ConfirmStep(r, "approve") \/ ConfirmStep(r, "reject") \/ CreateTask(r)
  <2>1. UNCHANGED <<run, store, ran, current>> /\ (task' = task \/ CreateTask(r))
    BY <1>2 DEF AbortRun, ConfirmStep, CreateTask, history
  <2>2. \A t \in Runs : task'[t] = task[t] \/ task'[t].pc \notin Underway
    BY <1>0, <2>1 DEF CreateTask, Underway, Task
  <2> QED
    BY <1>0, <2>1, <2>2, DataSilent
<1>3. ASSUME NEW state \in {"paused", "running"}, run[r].state \in {"paused", "running"},
             Emit(r, [run[r] EXCEPT !.state = state]),
             task' = task, ran' = ran, current' = current
      PROVE  DataInv'
  <2> DEFINE s == [run[r] EXCEPT !.state = state]
  <2>1. s.steps = run[r].steps /\ s.recoverable = run[r].recoverable /\ s.state # "absent"
    BY <1>0, <1>3 DEF Run
  <2>2. ~run[r].recoverable
    BY <1>3 DEF DataInv, RunTerminal
  <2>3. Emit(r, s)
    BY <1>3
  <2> HIDE DEF s
  <2>4. /\ run'[r] = s /\ store'[r] = s
        /\ \A q \in Runs : q # r => run'[q] = run[q] /\ store'[q] = store[q]
    BY <1>0, <2>3 DEF Emit
  <2>5. Settled
    <3>1. \A q \in Runs : run'[q].steps = run[q].steps
      BY <2>1, <2>4
    <3>2. \A t \in Runs : task[t].pc \in Underway => task[t].run \in Runs
      BY DEF RecInv, StoreInv, TypeInv, Placed, Live, Underway
    <3>3. \A t \in Runs : task'[t].pc \in Underway => Open(t)' /\ InFlight(t)'
      BY <1>3, <3>1, <3>2 DEF DataInv, Open, InFlight, MyStep, My
    <3> QED
      BY <1>3, <2>1, <2>4, <3>3 DEF Settled
  <2>6. \A q \in Runs : /\ run'[q].steps = run[q].steps
                        /\ run'[q].recoverable => run'[q].state \in RunTerminal
                        /\ store'[q].steps \in {run[q].steps, store[q].steps}
                        /\ store'[q].recoverable => store'[q].state \in RunTerminal
    BY <2>1, <2>2, <2>4 DEF DataInv
  <2> QED
    BY <1>0, <1>3, <2>5, <2>6, DataSame
<1>4. CASE PauseRun(r) \/ ResumeRun(r)
  <2>1. /\ run[r].state \in {"paused", "running"} /\ UNCHANGED <<task, ran, current>>
        /\ \/ Emit(r, [run[r] EXCEPT !.state = "paused"])
           \/ Emit(r, [run[r] EXCEPT !.state = "running"])
    BY <1>4 DEF PauseRun, ResumeRun, history
  <2> QED
    BY <1>3, <2>1
<1> QED
  BY <1>1, <1>2, <1>4 DEF Handler

(* A new process has no coroutine, and a run is its record.                   *)
LEMMA DataRestart ==
  ASSUME RecInv, DataInv, RecoveryNext, Restart,
         \A r \in Runs : /\ run'[r] = store'[r]
                         /\ run'[r].state = "absent" => run[r].state = "absent"
                         /\ run'[r].steps \in {run[r].steps, store[r].steps}
                         /\ run'[r].recoverable => run'[r].state \in RunTerminal
  PROVE  DataInv'
<1>1. /\ resumed_from' = resumed_from /\ ran' = ran /\ current' = NoRun
      /\ task \in [Runs -> Task] /\ NoRun \notin Runs
  BY ConstantsOK DEF Restart, history, RecInv, StoreInv, TypeInv, TypeOK
<1>2. \A t \in Runs : task'[t].pc \notin Underway
  <2> SUFFICES ASSUME NEW t \in Runs PROVE task'[t].pc \notin Underway
    OBVIOUS
  <2>1. task'[t].pc = IF task[t].pc = "none" THEN task[t].pc ELSE "done"
    BY <1>1 DEF Restart, Task, Labels
  <2> QED
    BY <2>1 DEF Underway
<1>3. Settled
  BY <1>1, <1>2 DEF Settled
<1>4. \A r \in Runs : Grown(run'[r], r) /\ Grown(store'[r], r)
  BY OldGrown, SameGrown
<1> QED
  BY <1>1, <1>3, <1>4, DataKept

LEMMA DataCrash ==
  ASSUME RecInv, DataInv, Crash \/ Shutdown
  PROVE  DataInv'
<1>0. /\ RecoveryNext /\ \A r \in Runs : Matched(r)
      /\ run \in [Runs -> Run] /\ store \in [Runs -> Run]
  BY DEF RecoveryNext, RecInv, StoreInv, TypeInv, TypeOK
<1>1. CASE Crash
  <2>1. Restart /\ run' = store /\ store' = store
    BY <1>1 DEF Crash
  <2> QED
    BY <1>0, <2>1, DataRestart DEF DataInv, Matched
<1>2. CASE Shutdown
  <2>1. Restart /\ run' = store'
    BY <1>2 DEF Shutdown
  <2>2. ASSUME NEW r \in Runs
        PROVE  /\ store'[r].state = "absent" => run[r].state = "absent"
               /\ store'[r].steps \in {run[r].steps, store[r].steps}
               /\ store'[r].recoverable => store'[r].state \in RunTerminal
    <3> DEFINE s == [run[r] EXCEPT !.state = "aborted"]
    <3>1. s.state = "aborted" /\ s.steps = run[r].steps
      BY <1>0 DEF Run
    <3>2. store'[r] \in {s, store[r]}
      BY <1>2 DEF Shutdown
    <3> HIDE DEF s
    <3> QED
      BY <1>0, <3>1, <3>2 DEF Matched, DataInv, RunTerminal
  <2> QED
    BY <1>0, <2>1, <2>2, DataRestart
<1> QED
  BY <1>1, <1>2

(* The repair of a record leaves what it says is done, or skipped.            *)
LEMMA DataRecover ==
  ASSUME RecInv, DataInv, NEW r \in Runs, Recover(r)
  PROVE  DataInv'
<1> DEFINE s == Interrupted(store[r])
<1>1. /\ ~up /\ Down /\ Emit(r, s) /\ UNCHANGED <<executor, task, history, resumed_from>>
      /\ store[r] \in Run /\ RecoveryNext /\ run[r] = store[r]
      /\ run \in [Runs -> Run] /\ store \in [Runs -> Run] /\ NoRun \notin Runs
  BY ConstantsOK DEF Recover, RecoveryNext, RecInv, Down, StoreInv, TypeInv, TypeOK
<1>2. /\ s \in Run /\ s.state = "aborted" /\ Len(s.steps) = Len(store[r].steps)
      /\ DOMAIN s.steps = DOMAIN store[r].steps /\ DOMAIN s.steps = 1..Len(s.steps)
      /\ \A k \in DOMAIN store[r].steps :
           /\ s.steps[k].id = store[r].steps[k].id
           /\ s.steps[k].status \in {store[r].steps[k].status, "pending"}
  <2>1. /\ s \in Run /\ s.state = "aborted" /\ Len(s.steps) = Len(store[r].steps)
        /\ DOMAIN s.steps = DOMAIN store[r].steps
        /\ \A k \in DOMAIN store[r].steps :
             /\ s.steps[k].id = store[r].steps[k].id
             /\ s.steps[k].status \in {store[r].steps[k].status, "pending"}
    BY <1>1, InterruptedType
  <2> HIDE DEF s
  <2> QED
    BY <2>1, LenProperties DEF Run
<1> HIDE DEF s
<1>3. Grown(s, r)
  <2>1. Ids(s.steps)
    BY <1>2, SMTT(20) DEF DataInv, Ids
  <2>2. \A n \in Nat : Claims(s, n) => Claims(store[r], n)
    BY <1>2 DEF Claims
  <2> QED
    BY <1>2, <2>1, <2>2 DEF Grown, DataInv, RunTerminal
<1>4. \A q \in Runs : Grown(run'[q], q) /\ Grown(store'[q], q)
  BY <1>1, <1>3, OldGrown DEF Emit
<1>5. Settled
  <2>1. \A q \in Runs : run'[q].state = "absent" => run[q].state = "absent"
    BY <1>1, <1>2 DEF Emit
  <2>2. \A t \in Runs : task'[t].pc \notin Underway
    BY <1>1 DEF Down, Busy, Underway
  <2> QED
    BY <1>1, <2>1, <2>2 DEF Settled, history
<1> QED
  BY <1>1, <1>4, <1>5, DataKept DEF executor, Down

LEMMA DataInit == ASSUME RecoveryInit PROVE DataInv
<1>1. /\ \A r \in Runs : run[r] = Blank /\ store[r] = Blank /\ resumed_from[r] = NoRun
      /\ \A t \in Runs : task[t].pc = "none"
  BY DEF RecoveryInit, Init
<1>2. Ids(Blank.steps) /\ ~Blank.recoverable /\ \A n \in Nat : ~Claims(Blank, n)
  BY DEF Blank, Ids, Claims
<1> QED
  BY <1>1, <1>2 DEF DataInv, Open, InFlight, Underway

LEMMA DataStep == ASSUME RecInv, DataInv, [RecoveryNext]_all PROVE DataInv'
<1>0. RecInv'
  BY RecStep
<1>1. CASE UNCHANGED all
  BY <1>1 DEF all, vars, executor, history, DataInv, Open, InFlight, MyStep, My, Accounted,
              Recorded, Kept
<1>2. CASE Serving
  <2>1. PICK r \in Runs : Handler(r) \/ CreateTask(r) \/ TaskStep(r)
    BY <1>2 DEF Serving, Next
  <2>2. CASE Begin(r)
    <3>1. /\ RecoveryNext /\ task \in [Runs -> Task]
          /\ UNCHANGED <<run, store, ran, current, resumed_from>>
      BY <1>2, <2>2 DEF RecoveryNext, Serving, Begin, executor, history, RecInv, StoreInv,
                        TypeInv, TypeOK
    <3>2. \A t \in Runs : task'[t] = task[t] \/ task'[t].pc \notin Underway
      BY <2>2, <3>1 DEF Begin, Underway, Task
    <3> QED
      BY <3>1, <3>2, DataSilent
  <2> QED
    BY <1>0, <1>2, <2>1, <2>2, DataHandler, DataTaskStep
<1>3. CASE ServerUp
  BY <1>3, DataSilent DEF ServerUp, RecoveryNext, vars, executor, history
<1>4. CASE \E r \in Runs : Recover(r) \/ \E s \in Runs : ResumeSaved(r, s)
  BY <1>0, <1>4, DataRecover, DataResume
<1> QED
  BY <1>1, <1>2, <1>3, <1>4, DataCrash DEF RecoveryNext

(* No record claims more than happened: of every step a record has as done,   *)
(* the tool was called, in that run or in the one it was resumed from, however *)
(* often the server died in between.                                          *)
THEOREM DoneWasCalled == RecoverySpec => []DoneWasRun
<1>1. RecoveryInit => RecInv /\ DataInv
  BY RecInit, DataInit
<1>2. RecInv /\ DataInv /\ [RecoveryNext]_all => RecInv' /\ DataInv'
  BY RecStep, DataStep
<1>3. RecInv /\ DataInv => DoneWasRun
  <2> SUFFICES ASSUME RecInv, DataInv, NEW r \in Runs, NEW k \in DOMAIN store[r].steps,
                      store[r].steps[k].status = "done"
               PROVE  Accounted(r, store[r].steps[k].id)
    BY DEF DoneWasRun, Accounted
  <2>1. store[r].steps \in Seq(Step)
    BY DEF RecInv, StoreInv, TypeInv, TypeOK, Run
  <2>2. store[r].steps[k].id \in Nat
    <3> DEFINE s == store[r].steps
    <3>1. k \in 1..Len(s) /\ s \in Seq(Step)
      BY <2>1, LenProperties
    <3> HIDE DEF s
    <3>2. s[k] \in Step
      BY <3>1, ElementOfSeq
    <3> QED
      BY <3>2 DEF Step, s
  <2>3. Claims(store[r], store[r].steps[k].id)
    BY DEF Claims
  <2> QED
    BY <2>2, <2>3 DEF DataInv
<1> QED
  BY <1>1, <1>2, <1>3, PTL DEF RecoverySpec

LEMMA CallNotSkipped ==
  ASSUME RecInv, DataInv, RecoveryNext, NEW t \in Runs, StartsTool(t),
         resumed_from[task[t].run] # NoRun
  PROVE  ~Recorded(resumed_from[task[t].run], MyStep(t).id, "skipped")
<1>0. task \in [Runs -> Task] /\ RecInv'
  BY RecStep DEF RecInv, StoreInv, TypeInv, TypeOK
<1>1. task'[t] # task[t] /\ task'[t].pc = "tool"
  BY DEF StartsTool
<1>2. Serving
  <2>1. ~Crash /\ ~Shutdown
    <3> SUFFICES ASSUME Restart PROVE FALSE
      BY DEF Crash, Shutdown
    <3>1. task'[t].pc = IF task[t].pc = "none" THEN task[t].pc ELSE "done"
      BY <1>0 DEF Restart, Task, Labels
    <3> QED
      BY <1>1, <3>1
  <2>2. ~ServerUp /\ \A r, s \in Runs : ~Recover(r) /\ ~ResumeSaved(r, s)
    BY <1>1 DEF ServerUp, vars, Recover, ResumeSaved, Launch
  <2> QED
    BY <2>1, <2>2 DEF RecoveryNext
<1>3. PICK r \in Runs : Handler(r) \/ CreateTask(r) \/ TaskStep(r)
  BY <1>2 DEF Serving, Next
<1>4. TaskStep(r)
  <2>1. ~Handler(r)
    BY <1>1 DEF Handler, StartPlan, Launch, PauseRun, ResumeRun, AbortRun, ConfirmStep
  <2>2. ~CreateTask(r)
    BY <1>0, <1>1 DEF CreateTask, Task
  <2> QED
    BY <1>3, <2>1, <2>2
<1>5. Shape(r) /\ SafeInv
  BY <1>2, <1>4, TaskStepShape DEF Serving, RecInv, StopInv
<1>6. r = t
  BY <1>1, <1>5 DEF Shape
<1>7. task[t].pc \in {"prepared", "confirmed"}
  BY <1>1, <1>5, <1>6 DEF Shape
<1>8. Live(t)
  BY <1>7 DEF Live
<1>9. task[t].run = current /\ current \in Runs /\ task[t].i \in DOMAIN My(t).steps
      /\ My(t) = run[current] /\ MyStep(t) \in Step
  <2>1. task[t].i \in 1..Len(My(t).steps) /\ My(t).steps \in Seq(Step)
    BY <1>5, <1>7, <1>8, LiveFacts DEF SafeInv, TypeInv, Placed, AtStep
  <2> QED
    BY <1>5, <1>8, <2>1, LiveSafe, ElementOfSeq, LenProperties DEF MyStep
<1>10. MyStep(t).status # "skipped"
  BY <1>7 DEF DataInv, Open, Underway, StepTerminal
<1>11. MyStep(t).id \in Nat /\ ~SkippedIn(run[current], MyStep(t).id)
  BY <1>9, <1>10 DEF SkippedIn, MyStep, Step
<1> QED
  BY <1>9, <1>11 DEF DataInv, Kept

(* A step that a record has as skipped, because the operator rejected it or   *)
(* the evaluator passed over it, is not executed by a run resumed from it.    *)
THEOREM SkipsSurvive == RecoverySpec => SkipSurvives
<1>1. RecoveryInit => RecInv /\ DataInv
  BY RecInit, DataInit
<1>2. RecInv /\ DataInv /\ [RecoveryNext]_all => RecInv' /\ DataInv'
  BY RecStep, DataStep
<1>3. RecInv /\ DataInv /\ [RecoveryNext]_all =>
        [\A t \in Runs : StartsTool(t) /\ resumed_from[task[t].run] # NoRun =>
           ~Recorded(resumed_from[task[t].run], MyStep(t).id, "skipped")]_all
  BY CallNotSkipped
<1> QED
  BY <1>1, <1>2, <1>3, PTL DEF RecoverySpec, SkipSurvives
=============================================================================
