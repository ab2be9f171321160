---------------------------- MODULE PlanLease_proofs ----------------------------
(* The plan executor implements the lease on the host, for any number of runs *)
(* and any plans, when no WebSocket client is connected.                     *)
EXTENDS PlanLease, PlanSafety_proofs

Active == {"running", "waiting_confirmation", "paused"}

(* The mapped variables, read off the invariant. *)
LEMMA HolderIs ==
  ASSUME SafeInv
  PROVE  /\ current = NoRun => Holder = NoRun
         /\ current # NoRun /\ run[current].state \in Active => Holder = current
         /\ current # NoRun /\ run[current].state \in RunTerminal => Holder = NoRun
BY DEF Holder, HasActiveRun, Active, RunTerminal

LEMMA InFlightIs ==
  ASSUME SafeInv, NEW t \in Runs, Busy(t)
  PROVE  /\ task[t].pc = "tool" =>
              InFlight = {<<task[t].run, MyStep(t).id, Verdict(t)>>}
         /\ task[t].pc # "tool" => InFlight = {}
<1>1. \A u \in Runs : task[u].pc = "tool" => u = t
  BY DEF SafeInv, Alone, Busy
<1> QED
  BY <1>1 DEF InFlight

LEMMA NothingInFlight ==
  ASSUME \A t \in Runs : ~Busy(t)
  PROVE  InFlight = {}
BY DEF InFlight, Busy

(* The run in progress is active, except while its end is being announced.   *)
LEMMA BusyActive ==
  ASSUME SafeInv, NEW t \in Runs, Busy(t)
  PROVE  /\ current \in Runs /\ current # NoRun
         /\ task[t].pc # "finishing" => run[current].state \in Active
         /\ task[t].pc = "finishing" => run[current].state \in RunTerminal
<1>1. Doing(t) /\ current \in Runs /\ current # NoRun
  BY DEF SafeInv, TypeInv, TypeOK, Doing
<1>2. task[t].pc \in {"asking", "waiting"} => run[current].state = "waiting_confirmation"
  <2>1. task[t].pc \in {"asking", "waiting"} => Live(t)
    BY DEF Live
  <2> QED
    BY <1>1, <2>1, LiveSafe DEF Doing
<1> QED
  BY <1>1, <1>2 DEF Doing, Active

LEMMA PhasesKept ==
  ASSUME NEW r \in Runs, \A q \in Runs : q # r => run'[q] = run[q],
         run[r].state \in Active, run'[r].state \in Active
  PROVE  Phases' = Phases
<1>1. \A q \in Runs : Phase(q)' = Phase(q)
  BY DEF Phase, Active, RunTerminal
<1> QED
  BY <1>1 DEF Phases

LEMMA PhaseSet ==
  ASSUME NEW r \in Runs, \A q \in Runs : q # r => run'[q] = run[q],
         NEW p, Phase(r)' = p
  PROVE  Phases' = [Phases EXCEPT ![r] = p]
<1>1. \A q \in Runs : q # r => Phase(q)' = Phase(q)
  BY DEF Phase
<1> QED
  BY <1>1 DEF Phases

-----------------------------------------------------------------------------
(* Steps of the coroutine. *)

LEMMA LeaseTaskStep ==
  ASSUME StepIds = Nat, EmitYields = FALSE, StopInv, SafeInv', NEW t \in Runs, TaskStep(t)
  PROVE  Lease!LeaseNext \/ UNCHANGED Lease!lease
<1>1. Shape(t) /\ Busy(t) /\ SafeInv
  BY TaskStepShape DEF Shape, StopInv
<1>2. UNCHANGED <<approved, aborting>>
  BY <1>1 DEF Shape
<1>3. CASE task[t].pc = "finishing"
  <2>1. Phases' = Phases
    BY <1>1, <1>3 DEF Shape, Phases, Phase
  <2>2. Holder = NoRun /\ Holder' = NoRun
    <3>1. current # NoRun /\ run[current].state \in RunTerminal /\ current' = NoRun
      BY <1>1, <1>3, BusyActive DEF Shape
    <3> QED
      BY <1>1, <3>1, HolderIs DEF Holder, HasActiveRun
  <2>3. InFlight = {} /\ InFlight' = {}
    <3>1. task'[t].pc = "done" /\ \A u \in Runs \ {t} : task'[u] = task[u]
      BY <1>1, <1>3 DEF Shape
    <3>2. \A u \in Runs : task[u].pc # "tool" /\ task'[u].pc # "tool"
      BY <1>1, <1>3, <3>1 DEF SafeInv, Alone, Busy
    <3> QED
      BY <3>2 DEF InFlight
  <2> QED
    BY <1>2, <2>1, <2>2, <2>3 DEF Lease!lease
<1>4. CASE task[t].pc # "finishing"
  <2>1. /\ UNCHANGED current /\ Busy(t)' /\ current \in Runs /\ current # NoRun
        /\ run[current].state \in Active
        /\ \A q \in Runs : q # current => run'[q] = run[q]
    BY <1>1, <1>4, BusyActive DEF Shape
  <2>2. Holder = current
    BY <1>1, <2>1, HolderIs
  <2>3. CASE task'[t].pc = "finishing"
    <3>1. run'[current].state \in RunTerminal
      <4>1. Doing(t)'
        BY <2>1 DEF SafeInv
      <4> QED
        BY <2>1, <2>3, <4>1 DEF Doing
    <3>2. Holder' = NoRun
      BY <2>1, <3>1 DEF Holder, HasActiveRun
    <3>3. Phase(current)' = "ended"
      BY <2>1, <3>1 DEF Phase, RunTerminal
    <3>4. Phases' = [Phases EXCEPT ![current] = "ended"]
      BY <2>1, <3>3, PhaseSet
    <3>5. InFlight' = {}
      <4>1. \A u \in Runs \ {t} : ~Busy(u)
        BY <1>1 DEF SafeInv, Alone
      <4>2. \A u \in Runs : task'[u].pc # "tool"
        BY <1>1, <2>3, <4>1 DEF Shape, Busy
      <4> QED
        BY <4>2 DEF InFlight
    <3>6. Lease!Release(current)
      BY <1>2, <2>2, <3>2, <3>4, <3>5 DEF Lease!Release
    <3> QED
      BY <2>1, <3>6 DEF Lease!LeaseNext
  <2>4. CASE task'[t].pc # "finishing"
    <3>1. Doing(t)' /\ run'[current].state \in Active
      <4>1. Doing(t)'
        BY <2>1 DEF SafeInv
      <4>2. task'[t].pc \in {"asking", "waiting"} =>
              run'[current].state = "waiting_confirmation"
        BY <2>1, <4>1 DEF Doing, Live, My
      <4> QED
        BY <2>1, <2>4, <4>1, <4>2 DEF Doing, Active
    <3>2. Phases' = Phases
      BY <2>1, <3>1, PhasesKept
    <3>3. Holder' = current
      BY <2>1, <3>1 DEF Holder, HasActiveRun, Active, RunTerminal
    <3>4. \A u \in Runs \ {t} : ~Busy(u) /\ ~Busy(u)'
      BY <1>1 DEF SafeInv, Alone, Shape, Busy
    <3>5. CASE task'[t].pc # "tool"
      <4>1. InFlight' = {}
        <5>1. \A u \in Runs : task'[u].pc # "tool"
          BY <3>4, <3>5 DEF Busy
        <5> QED
          BY <5>1 DEF InFlight
      <4>2. Lease!Return
        BY <1>2, <2>2, <3>2, <3>3, <4>1 DEF Lease!Return
      <4> QED
        BY <4>2 DEF Lease!LeaseNext
    <3>6. CASE task'[t].pc = "tool"
      <4>1. /\ StartTool(t) /\ task[t].run = current
            /\ current \in aborting => Approved(t)
        BY <1>1, <3>6, ToolInOrder DEF Unwatched
      <4>2. task[t].pc # "tool"
        BY <1>1, <3>6 DEF Shape
      <4>3. InFlight = {}
        BY <1>1, <4>2, InFlightIs
      <4>4. /\ task'[t].run = task[t].run /\ MyStep(t)' = MyStep(t)
            /\ My(t)' = My(t) /\ Approved(t)' = Approved(t)
        <5>1. GoTo(t, "tool") /\ run' = run /\ approved' = approved
          BY <4>1 DEF StartTool
        <5>2. task'[t].run = task[t].run /\ task'[t].i = task[t].i
          BY <1>1, <5>1, GoToCalm DEF SafeInv
        <5> QED
          BY <5>1, <5>2 DEF My, MyStep, Approved
      <4> DEFINE id == MyStep(t).id
      <4>5. id \in Nat
        <5>1. Live(t) /\ task[t].pc \in AtStep
          BY <1>1, <3>6 DEF Shape, Live, AtStep
        <5> QED
          BY <1>1, <5>1, AtStepFacts DEF SafeInv, Step
      <4>6. InFlight' = {<<current, id, Verdict(t)'>>}
        <5>1. \A u \in Runs : task'[u].pc = "tool" <=> u = t
          BY <3>4, <3>6 DEF Busy
        <5> QED
          BY <4>1, <4>4, <5>1 DEF InFlight
      <4>7. /\ Verdict(t)' \in {"free", "guarded"}
            /\ Verdict(t)' = "guarded" => <<current, id>> \in approved
        <5>1. MyStep(t)'.risk # "deny" /\ (Needs(My(t), MyStep(t))' => Approved(t)')
          BY <3>1, <3>6 DEF Doing
        <5> QED
          BY <4>1, <4>4, <5>1 DEF Verdict, Approved
      <4>8. current \in aborting => <<current, id>> \in approved
        BY <4>1 DEF Approved
      <4> HIDE DEF id
      <4>9. Lease!CallHost(current, id, Verdict(t)')
        BY <1>2, <2>2, <3>2, <3>3, <4>3, <4>6, <4>7, <4>8 DEF Lease!CallHost
      <4> QED
        BY <2>1, <4>5, <4>7, <4>9 DEF Lease!LeaseNext
    <3> QED
      BY <3>5, <3>6
  <2> QED
    BY <2>3, <2>4
<1> QED
  BY <1>3, <1>4

-----------------------------------------------------------------------------
(* Steps of the handlers. *)

(* A handler that leaves the step in flight alone leaves the call alone.     *)
LEMMA InFlightKept ==
  ASSUME UNCHANGED task,
         \A t \in Runs : task[t].pc = "tool" =>
           UNCHANGED <<MyStep(t), My(t).supervised>>
  PROVE  InFlight' = InFlight
<1>1. \A t \in Runs : task[t].pc = "tool" => Verdict(t)' = Verdict(t)
  BY DEF Verdict, Needs
<1> QED
  BY <1>1 DEF InFlight

(* A request that reaches the current run finds it active.                   *)
LEMMA ReachedActive ==
  ASSUME EmitYields = FALSE, SafeInv, NEW r \in Runs, current = r, LoopIdle
  PROVE  run[r].state \in Active /\ Holder = r
<1>1. r # NoRun
  BY ConstantsOK
<1>2. run[r].state \in Active
  <2>1. CASE \E t \in Runs : Busy(t)
    <3>1. PICK t \in Runs : Busy(t)
      BY <2>1
    <3>2. task[t].pc # "finishing"
      BY DEF LoopIdle, Holding, EmitLabels
    <3> QED
      BY <3>1, <3>2, BusyActive
  <2>2. CASE ~\E t \in Runs : Busy(t)
    BY <1>1, <2>2 DEF SafeInv, Alone, Active
  <2> QED
    BY <2>1, <2>2
<1> QED
  BY <1>1, <1>2, HolderIs

LEMMA LeaseHandler ==
  ASSUME StepIds = Nat, EmitYields = FALSE, StopInv, SafeInv', NEW r \in Runs,
         Handler(r) \/ CreateTask(r)
  PROVE  Lease!LeaseNext \/ UNCHANGED Lease!lease
<1>0. /\ SafeInv /\ run \in [Runs -> Run] /\ task \in [Runs -> Task] /\ r # NoRun
  BY ConstantsOK DEF StopInv, SafeInv, TypeInv, TypeOK
<1>1. CASE StartPlan(r)
  <2>1. PICK plan \in Plans : Launch(r, FreshRun(plan))
    BY <1>1 DEF StartPlan
  <2>2. /\ ~HasActiveRun /\ Emit(r, FreshRun(plan)) /\ run[r].state = "absent"
        /\ current' = r /\ starting' = r /\ UNCHANGED <<task, approved, aborting>>
    BY <2>1 DEF Launch, history
  <2>3. run'[r].state = "running" /\ \A q \in Runs : q # r => run'[q] = run[q]
    BY <1>0, <2>2 DEF Emit, FreshRun, Blank
  <2>4. Holder = NoRun /\ Holder' = r
    BY <1>0, <2>2, <2>3 DEF Holder, HasActiveRun, RunTerminal
  <2>5. Phases[r] = "idle" /\ Phases' = [Phases EXCEPT ![r] = "active"]
    <3>1. Phase(r) = "idle" /\ Phase(r)' = "active"
      BY <2>2, <2>3 DEF Phase, RunTerminal
    <3> QED
      BY <2>3, <3>1, PhaseSet DEF Phases
  <2>6. InFlight = {} /\ InFlight' = {}
    <3>1. \A t \in Runs : ~Busy(t)'
      BY <1>0, <2>2 DEF SafeInv, Alone
    <3>2. \A t \in Runs : task[t].pc # "tool" /\ task'[t].pc # "tool"
      BY <2>2, <3>1 DEF Busy
    <3> QED
      BY <3>2 DEF InFlight
  <2>7. Lease!Acquire(r)
    BY <2>2, <2>4, <2>5, <2>6 DEF Lease!Acquire
  <2> QED
    BY <2>7 DEF Lease!LeaseNext
<1>2. CASE PauseRun(r) \/ ResumeRun(r)
  <2>1. PICK state \in {"running", "paused"} : Emit(r, [run[r] EXCEPT !.state = state])
    BY <1>2 DEF PauseRun, ResumeRun
  <2>2. /\ LoopIdle /\ current = r /\ UNCHANGED <<current, task, approved, aborting>>
    BY <1>2 DEF PauseRun, ResumeRun, history
  <2>3. /\ run'[r].state \in Active /\ run'[r].steps = run[r].steps
        /\ run'[r].supervised = run[r].supervised
        /\ \A q \in Runs : q # r => run'[q] = run[q]
    BY <1>0, <2>1 DEF Emit, Run, Active
  <2>4. run[r].state \in Active /\ Holder = r
    BY <1>0, <2>2, ReachedActive
  <2>5. Phases' = Phases
    BY <2>3, <2>4, PhasesKept
  <2>6. Holder' = Holder
    BY <1>0, <2>2, <2>3, <2>4 DEF Holder, HasActiveRun, Active, RunTerminal
  <2>7. InFlight' = InFlight
    <3>1. ASSUME NEW t \in Runs, task[t].pc = "tool"
          PROVE  UNCHANGED <<MyStep(t), My(t).supervised>>
      <4>1. task[t].run = r
        BY <1>0, <2>2, <3>1, LiveSafe DEF Live
      <4> QED
        BY <2>2, <2>3, <4>1 DEF MyStep, My
    <3> QED
      BY <2>2, <3>1, InFlightKept
  <2> QED
    BY <2>2, <2>5, <2>6, <2>7 DEF Lease!lease
<1>3. CASE AbortRun(r)
  <2>1. /\ LoopIdle /\ current = r /\ aborting' = aborting \cup {r}
        /\ UNCHANGED <<run, current, task, approved>>
    BY <1>3 DEF AbortRun
  <2>2. Holder = r
    BY <1>0, <2>1, ReachedActive
  <2>3. Phases' = Phases /\ Holder' = Holder /\ InFlight' = InFlight
    BY <2>1, InFlightKept DEF Phases, Phase, Holder, HasActiveRun, MyStep, My
  <2>4. Lease!Tell(r)
    BY <2>1, <2>2, <2>3 DEF Lease!Tell
  <2> QED
    BY <2>4 DEF Lease!LeaseNext
<1>4. CASE \E answer \in {"approve", "reject"} : ConfirmStep(r, answer)
  <2>1. /\ LoopIdle /\ current = r /\ UNCHANGED <<run, current, task, aborting>>
        /\ approved' = approved \/ approved' = approved \cup {<<r, run[r].waiting>>}
    BY <1>4 DEF ConfirmStep
  <2>2. Holder = r /\ run[r].waiting \in Nat
    BY <1>0, <2>1, ReachedActive DEF Run
  <2>3. Phases' = Phases /\ Holder' = Holder /\ InFlight' = InFlight
    BY <2>1, InFlightKept DEF Phases, Phase, Holder, HasActiveRun, MyStep, My
  <2>4. CASE approved' = approved
    BY <2>1, <2>3, <2>4 DEF Lease!lease
  <2>5. CASE approved' = approved \cup {<<r, run[r].waiting>>}
    <3>1. Lease!Permit(r, run[r].waiting)
      BY <2>1, <2>2, <2>3, <2>5 DEF Lease!Permit
    <3> QED
      BY <2>2, <3>1 DEF Lease!LeaseNext
  <2> QED
    BY <2>1, <2>4, <2>5
<1>5. CASE CreateTask(r)
  <2>1. /\ task' = [task EXCEPT ![r].pc = "start"] /\ starting = r
        /\ UNCHANGED <<run, current, approved, aborting>>
    BY <1>5 DEF CreateTask, history
  <2>2. \A t \in Runs : task[t].pc # "tool" /\ task'[t].pc # "tool"
    <3>1. \A t \in Runs : ~Busy(t)
      BY <1>0, <2>1 DEF SafeInv, Alone
    <3>2. \A t \in Runs : task'[t].pc \in {task[t].pc, "start"}
      BY <1>0, <2>1 DEF Task
    <3> QED
      BY <3>1, <3>2 DEF Busy
  <2>3. Phases' = Phases /\ Holder' = Holder /\ InFlight' = InFlight
    BY <2>1, <2>2 DEF Phases, Phase, Holder, HasActiveRun, InFlight
  <2> QED
    BY <2>1, <2>3 DEF Lease!lease
<1> QED
  BY <1>1, <1>2, <1>3, <1>4, <1>5 DEF Handler

LEMMA LeaseStutter ==
  ASSUME UNCHANGED vars
  PROVE  UNCHANGED Lease!lease
<1>1. UNCHANGED <<run, current, task, approved, aborting>>
  BY DEF vars, executor, history
<1>2. Phases' = Phases /\ Holder' = Holder
  BY <1>1 DEF Phases, Phase, Holder, HasActiveRun
<1>3. InFlight' = InFlight
  BY <1>1, InFlightKept DEF MyStep, My
<1> QED
  BY <1>1, <1>2, <1>3 DEF Lease!lease

LEMMA LeaseStart == ASSUME Init PROVE Lease!LeaseInit
<1>1. Phases = [r \in Runs |-> "idle"]
  <2>1. \A r \in Runs : run[r].state = "absent"
    BY DEF Init, Blank
  <2>2. \A r \in Runs : Phase(r) = "idle"
    BY <2>1 DEF Phase, RunTerminal
  <2> QED
    BY <2>2 DEF Phases
<1>2. Holder = NoRun /\ InFlight = {}
  BY DEF Init, Holder, HasActiveRun, InFlight
<1> QED
  BY <1>1, <1>2 DEF Init, Lease!LeaseInit

(* The plan executor is a lease on the host: start_plan takes it, only the    *)
(* holder's coroutine calls tools, one at a time, a guarded call only with a  *)
(* permit, none after an abort but a permitted one, and none at all once the  *)
(* run has an outcome.                                                       *)
THEOREM PlanImplementsLease ==
  ASSUME EmitYields = FALSE, StepIds = Nat
  PROVE  Spec => IsLease
<1>1. Init => StopInv /\ Lease!LeaseInit
  BY StopInit, LeaseStart
<1>2. StopInv /\ [Next]_vars => StopInv'
  BY UnwatchedStop
<1>3. StopInv /\ StopInv' /\ [Next]_vars => [Lease!LeaseNext]_(Lease!lease)
  <2> SUFFICES ASSUME StopInv, StopInv', [Next]_vars
               PROVE  Lease!LeaseNext \/ UNCHANGED Lease!lease
    OBVIOUS
  <2>1. SafeInv'
    BY DEF StopInv
  <2>2. ASSUME NEW r \in Runs, Handler(r) \/ CreateTask(r)
        PROVE  Lease!LeaseNext \/ UNCHANGED Lease!lease
    BY <2>1, <2>2, LeaseHandler
  <2>3. ASSUME NEW r \in Runs, TaskStep(r)
        PROVE  Lease!LeaseNext \/ UNCHANGED Lease!lease
    BY <2>1, <2>3, LeaseTaskStep
  <2> QED
    BY <2>2, <2>3, LeaseStutter DEF Next
<1> QED
  BY <1>1, <1>2, <1>3, PTL DEF Spec, IsLease, Lease!LeaseSpec
=============================================================================
