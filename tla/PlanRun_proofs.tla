---------------------------- MODULE PlanRun_proofs ----------------------------
(* Theorems about PlanRun, for every value of its constants.                 *)
EXTENDS PlanRun, SequenceTheorems, TLAPS

(* What the operators on a run return. *)

(* Setting the status of one step keeps a run a run, of the same length.     *)
LEMMA MarkType ==
  ASSUME NEW status \in Run, NEW k \in 1..Len(status.steps), NEW s \in StepStates
  PROVE  /\ Mark(status, k, s) \in Run
         /\ Len(Mark(status, k, s).steps) = Len(status.steps)
         /\ Mark(status, k, s).state = status.state
         /\ Mark(status, k, s).waiting = status.waiting
         /\ Mark(status, k, s).at = status.at
         /\ Mark(status, k, s).supervised = status.supervised
         /\ Mark(status, k, s).steps[k] = [status.steps[k] EXCEPT !.status = s]
<1> DEFINE step == [status.steps[k] EXCEPT !.status = s]
           new  == [status.steps EXCEPT ![k] = step]
<1>1. status.steps \in Seq(Step) /\ status.steps[k] \in Step
  BY DEF Run
<1>2. step \in Step
  BY <1>1 DEF Step
<1>3. new \in Seq(Step) /\ Len(new) = Len(status.steps) /\ new[k] = step
  BY <1>1, <1>2
<1>4. Mark(status, k, s) = [status EXCEPT !.steps = new]
  BY <1>1 DEF Mark, Run
<1> HIDE DEF new
<1> QED
  BY <1>3, <1>4 DEF Run

(* Skipping a range of steps keeps a run a run, of the same length.          *)
LEMMA SkipType ==
  ASSUME NEW status \in Run, NEW from \in Int, NEW to \in Int
  PROVE  /\ Skip(status, from, to) \in Run
         /\ Len(Skip(status, from, to).steps) = Len(status.steps)
         /\ Skip(status, from, to).state = status.state
<1> DEFINE new == [k \in DOMAIN status.steps |->
                     IF k \in from..to THEN [status.steps[k] EXCEPT !.status = "skipped"]
                                       ELSE status.steps[k]]
<1>1. status.steps \in Seq(Step)
  BY DEF Run
<1>2. /\ DOMAIN status.steps = 1..Len(status.steps) /\ Len(status.steps) \in Nat
      /\ \A k \in DOMAIN status.steps : status.steps[k] \in Step
  BY <1>1, LenProperties, ElementOfSeq
<1>3. "skipped" \in StepStates
  BY DEF StepStates
<1>4. ASSUME NEW k \in DOMAIN status.steps
      PROVE  [status.steps[k] EXCEPT !.status = "skipped"] \in Step
  BY <1>2, <1>3 DEF Step
<1>5. new \in [1..Len(status.steps) -> Step]
  BY <1>2, <1>4
<1>6. new \in Seq(Step)
  BY <1>2, <1>5, SeqDef
<1>7. Len(new) = Len(status.steps)
  BY <1>2, <1>5, <1>6, LenProperties
<1>8. Skip(status, from, to) = [status EXCEPT !.steps = new]
  BY DEF Skip
<1> HIDE DEF new
<1> QED
  BY <1>6, <1>7, <1>8 DEF Run

(* Inserting a step after position k lengthens the plan by one.              *)
LEMMA InsertType ==
  ASSUME NEW s \in Seq(Step), NEW k \in 1..Len(s), NEW e \in Step
  PROVE  /\ InsertAt(s, k + 1, e) \in Seq(Step)
         /\ Len(InsertAt(s, k + 1, e)) = Len(s) + 1
<1> DEFINE left == SubSeq(s, 1, k)
           right == SubSeq(s, k + 1, Len(s))
<1>1. Len(s) \in Nat /\ \A i \in 1..Len(s) : s[i] \in Step
  BY LenProperties, ElementOfSeq
<1>2. left \in Seq(Step) /\ Len(left) = k
  BY <1>1, SubSeqProperties
<1>3. right \in Seq(Step) /\ Len(right) = Len(s) - k
  BY <1>1, SubSeqProperties
<1>4. <<e>> \in Seq(Step) /\ Len(<<e>>) = 1
  OBVIOUS
<1> DEFINE front == left \o <<e>>
           all   == front \o right
<1> HIDE DEF left, right
<1>5. front \in Seq(Step) /\ Len(front) = k + 1
  BY <1>2, <1>4, ConcatProperties
<1> HIDE DEF front
<1>6. all \in Seq(Step) /\ Len(all) = Len(front) + Len(right)
  BY <1>3, <1>5, ConcatProperties
<1>7. InsertAt(s, k + 1, e) = all
  <2>1. (k + 1) - 1 = k
    OBVIOUS
  <2> QED
    BY <2>1 DEF InsertAt, left, right, front
<1> HIDE DEF all
<1>8. (k + 1) + (Len(s) - k) = Len(s) + 1
  BY <1>1
<1> QED
  BY <1>3, <1>5, <1>6, <1>7, <1>8

-----------------------------------------------------------------------------
(* Type correctness.  TypeOK is not inductive: that a position stays inside  *)
(* the plan needs to know which run a coroutine captured, and at which       *)
(* awaits it stands on a step.                                               *)

AtStep == {"unpaused", "paused", "prepared", "asking", "waiting", "confirmed",
           "tool", "evaluating", "failing"}

Placed(t) ==
  /\ Live(t) => task[t].run \in Runs /\ My(t).state # "absent"
  /\ task[t].pc \in AtStep => task[t].i \in 1..Len(My(t).steps)

TypeInv ==
  /\ TypeOK
  /\ \A t \in Runs : Placed(t)
  /\ current # NoRun => run[current].state # "absent"

(* A step that only extends plans leaves every position valid.               *)
Extends ==
  /\ run' \in [Runs -> Run] /\ store' \in [Runs -> Run]
  /\ \A r \in Runs : run[r].state # "absent" =>
       run'[r].state # "absent" /\ Len(run'[r].steps) >= Len(run[r].steps)

(* The variables whose types do not depend on each other. *)
RestOK ==
  /\ current \in Runs \cup {NoRun} /\ starting \in Runs \cup {NoRun}
  /\ paused \in BOOLEAN /\ abort \in BOOLEAN
  /\ confirmation \in Runs \cup {NoRun}
  /\ future \in [Runs -> {"none", "pending", "approve", "reject", "abort"}]
  /\ approved \subseteq Runs \X Nat /\ aborting \subseteq Runs
  /\ ran \subseteq Runs \X Nat /\ late \subseteq ran
  /\ current # NoRun => run[current].state # "absent"

(* Where task t is allowed to be after a step. *)
Lands(t) ==
  /\ task' \in [Runs -> Task]
  /\ \A u \in Runs \ {t} : task'[u] = task[u]
  /\ Live(t)' => /\ task'[t].run \in Runs
                 /\ run'[task'[t].run].state # "absent"
                 /\ task'[t].i \in 1..Len(run'[task'[t].run].steps) + 1
  /\ task'[t].pc \in AtStep => task'[t].i \in 1..Len(run'[task'[t].run].steps)

(* An emit, or an assignment, that extends the plan it writes. *)
LEMMA WriteExtends ==
  ASSUME TypeInv, NEW r \in Runs, NEW s \in Run, s.state # "absent",
         run[r].state # "absent" => Len(s.steps) >= Len(run[r].steps),
         Emit(r, s) \/ Keep(r, s)
  PROVE  Extends /\ run'[r] = s
<1>1. run \in [Runs -> Run] /\ store \in [Runs -> Run]
  BY DEF TypeInv, TypeOK
<1>2. run' = [run EXCEPT ![r] = s]
  BY DEF Emit, Keep
<1>3. store' = [store EXCEPT ![r] = s] \/ store' = store
  BY DEF Emit, Keep
<1>4. \A q \in Runs : Len(run[q].steps) \in Nat
  BY <1>1, LenProperties DEF Run
<1> QED
  BY <1>1, <1>2, <1>3, <1>4 DEF Extends

(* The same when no run is written. *)
LEMMA NoWriteExtends ==
  ASSUME TypeInv, UNCHANGED <<run, store>>
  PROVE  Extends
<1>1. run \in [Runs -> Run] /\ store \in [Runs -> Run]
  BY DEF TypeInv, TypeOK
<1>2. \A q \in Runs : Len(run[q].steps) \in Nat
  BY <1>1, LenProperties DEF Run
<1> QED
  BY <1>1, <1>2 DEF Extends

(* Every action preserves TypeInv by showing these three facts. *)
LEMMA StepPreserves ==
  ASSUME TypeInv, NEW t \in Runs, Extends, Lands(t), RestOK'
  PROVE  TypeInv'
<1>1. run \in [Runs -> Run] /\ run' \in [Runs -> Run] /\ store' \in [Runs -> Run]
  BY DEF TypeInv, TypeOK, Extends
<1>2. \A q \in Runs : Len(run[q].steps) \in Nat /\ Len(run'[q].steps) \in Nat
  BY <1>1, LenProperties DEF Run
<1>3. ASSUME NEW u \in Runs
      PROVE  Placed(u)' /\ (Live(u)' => task'[u].i \in 1..Len(My(u)'.steps) + 1)
  <2>1. CASE u = t
    BY <2>1 DEF Lands, Placed, My, Live
  <2>2. CASE u # t
    <3>1. task'[u] = task[u]
      BY <2>2 DEF Lands
    <3>2. Placed(u) /\ (Live(u) => task[u].i \in 1..Len(My(u).steps) + 1)
      BY DEF TypeInv, TypeOK
    <3>3. task[u].pc \in AtStep => Live(u)
      BY DEF AtStep, Live
    <3>4. CASE ~Live(u)
      BY <3>1, <3>3, <3>4 DEF Placed, Live
    <3>5. CASE Live(u)
      <4> DEFINE r == task[u].run
      <4>1. r \in Runs /\ run[r].state # "absent" /\ task[u].i \in 1..Len(run[r].steps) + 1
            /\ (task[u].pc \in AtStep => task[u].i \in 1..Len(run[r].steps))
        BY <3>2, <3>5 DEF Placed, My
      <4>2. run'[r].state # "absent" /\ Len(run'[r].steps) >= Len(run[r].steps)
        BY <4>1 DEF Extends
      <4>3. task'[u].i \in 1..Len(run'[r].steps) + 1
            /\ (task[u].pc \in AtStep => task'[u].i \in 1..Len(run'[r].steps))
        <5>1. Len(run[r].steps) \in Nat /\ Len(run'[r].steps) \in Nat
          BY <1>2, <4>1
        <5> DEFINE m == Len(run[r].steps)  n == Len(run'[r].steps)
        <5>2. n >= m /\ task'[u].i = task[u].i
          BY <3>1, <4>2
        <5> HIDE DEF r, m, n
        <5>3. task'[u].i \in 1..n + 1
          BY <4>1, <5>1, <5>2 DEF m, n
        <5>4. task[u].pc \in AtStep => task'[u].i \in 1..n
          BY <4>1, <5>1, <5>2 DEF m, n
        <5> QED
          BY <5>3, <5>4 DEF n
      <4> QED
        BY <3>1, <4>1, <4>2, <4>3 DEF Placed, My
    <3> QED
      BY <3>4, <3>5
  <2> QED
    BY <2>1, <2>2
<1> QED
  BY <1>1, <1>3 DEF TypeInv, TypeOK, RestOK, Lands, Placed

(* What TypeInv says of a task that is executing a run. *)
LEMMA LiveFacts ==
  ASSUME TypeInv, NEW t \in Runs, Live(t)
  PROVE  /\ task[t].run \in Runs /\ task[t] \in Task
         /\ My(t) \in Run /\ My(t).state # "absent"
         /\ My(t).steps \in Seq(Step) /\ Len(My(t).steps) \in Nat
         /\ task[t].i \in 1..Len(My(t).steps) + 1
         /\ task[t].i \in 1..Len(My(t).steps) => MyStep(t) \in Step
<1>1. task[t].run \in Runs /\ My(t).state # "absent"
  BY DEF TypeInv, Placed
<1>2. My(t) \in Run /\ task[t] \in Task /\ task[t].i \in 1..Len(My(t).steps) + 1
  BY <1>1 DEF TypeInv, TypeOK, My
<1>3. My(t).steps \in Seq(Step) /\ Len(My(t).steps) \in Nat
  BY <1>2, LenProperties DEF Run
<1>4. task[t].i \in 1..Len(My(t).steps) => MyStep(t) \in Step
  BY <1>3, ElementOfSeq DEF MyStep
<1> QED
  BY <1>1, <1>2, <1>3, <1>4

(* A step of a coroutine that writes s to its run and moves to another await. *)
Moves(t, s) ==
  /\ task' \in [Runs -> Task]
  /\ \A u \in Runs \ {t} : task'[u] = task[u]
  /\ task'[t].run = task[t].run
  /\ task'[t].i \in 1..Len(s.steps) + 1
  /\ task'[t].pc \in AtStep => task'[t].i \in 1..Len(s.steps)

RestTyped ==
  /\ starting \in Runs \cup {NoRun} /\ confirmation \in Runs \cup {NoRun}
  /\ paused \in BOOLEAN /\ abort \in BOOLEAN
  /\ future \in [Runs -> {"none", "pending", "approve", "reject", "abort"}]
  /\ approved \subseteq Runs \X Nat /\ aborting \subseteq Runs
  /\ ran \subseteq Runs \X Nat /\ late \subseteq ran

LEMMA RestUnchanged ==
  ASSUME TypeInv, UNCHANGED <<executor, history>>
  PROVE  RestTyped' /\ current' = current
BY DEF TypeInv, TypeOK, RestTyped, executor, history

LEMMA CoroutineStep ==
  ASSUME TypeInv, NEW t \in Runs, Live(t), NEW s \in Run, s.state # "absent",
         Len(s.steps) >= Len(My(t).steps),
         Emit(task[t].run, s) \/ Keep(task[t].run, s),
         Moves(t, s), RestTyped', current' \in {current, NoRun}
  PROVE  TypeInv'
<1>1. task[t].run \in Runs
  BY LiveFacts
<1>2. Extends /\ run'[task[t].run] = s
  BY <1>1, WriteExtends DEF My
<1>3. Lands(t)
  BY <1>1, <1>2 DEF Lands, Moves
<1>4. RestOK'
  BY <1>2 DEF RestTyped, RestOK, TypeInv, TypeOK, Extends
<1> QED
  BY <1>2, <1>3, <1>4, StepPreserves

(* A step of a coroutine that writes nothing. *)
LEMMA SilentStep ==
  ASSUME TypeInv, NEW t \in Runs, Live(t), UNCHANGED <<run, store>>,
         Moves(t, My(t)), RestTyped', current' \in {current, NoRun}
  PROVE  TypeInv'
<1>1. task[t].run \in Runs /\ My(t).state # "absent"
  BY LiveFacts
<1>2. Extends
  BY NoWriteExtends
<1>3. Lands(t)
  BY <1>1 DEF Lands, Moves, My
<1>4. RestOK'
  BY <1>2 DEF RestTyped, RestOK, TypeInv, TypeOK, Extends
<1> QED
  BY <1>2, <1>3, <1>4, StepPreserves

LEMMA GoToMoves ==
  ASSUME TypeInv, NEW t \in Runs, Live(t), NEW s \in Run,
         Len(s.steps) >= Len(My(t).steps),
         NEW label \in Labels, GoTo(t, label),
         label \in AtStep => task[t].i \in 1..Len(s.steps)
  PROVE  Moves(t, s)
<1>1. task \in [Runs -> Task] /\ Len(My(t).steps) \in Nat
      /\ task[t].i \in 1..Len(My(t).steps) + 1
  BY LiveFacts DEF TypeInv, TypeOK
<1>2. Len(s.steps) \in Nat
  BY LenProperties DEF Run
<1>3. task' = [task EXCEPT ![t] = [task[t] EXCEPT !.pc = label]]
  BY <1>1 DEF GoTo, Task
<1>4. [task[t] EXCEPT !.pc = label] \in Task
  BY <1>1 DEF Task
<1>5. /\ task' \in [Runs -> Task] /\ task'[t] = [task[t] EXCEPT !.pc = label]
      /\ \A u \in Runs \ {t} : task'[u] = task[u]
  BY <1>1, <1>3, <1>4
<1>6. task'[t].run = task[t].run /\ task'[t].i = task[t].i /\ task'[t].pc = label
  BY <1>1, <1>5 DEF Task
<1>7. task[t].i \in 1..Len(s.steps) + 1
  BY <1>1, <1>2
<1> QED
  BY <1>5, <1>6, <1>7 DEF Moves

LEMMA MoveToMoves ==
  ASSUME TypeInv, NEW t \in Runs, Live(t), NEW s \in Run,
         NEW k \in 1..Len(s.steps) + 1, MoveTo(t, k)
  PROVE  Moves(t, s)
<1>1. task \in [Runs -> Task]
  BY DEF TypeInv, TypeOK
<1>2. Len(s.steps) \in Nat
  BY LenProperties DEF Run
<1>3. k \in Nat
  BY <1>2
<1>4. task' = [task EXCEPT ![t] = [task[t] EXCEPT !.pc = "advance", !.i = k]]
  BY <1>1 DEF MoveTo, Task
<1>5. [task[t] EXCEPT !.pc = "advance", !.i = k] \in Task
  BY <1>1, <1>3 DEF Task, Labels, EmitLabels
<1>6. /\ task' \in [Runs -> Task]
      /\ task'[t] = [task[t] EXCEPT !.pc = "advance", !.i = k]
      /\ \A u \in Runs \ {t} : task'[u] = task[u]
  BY <1>1, <1>4, <1>5
<1>7. task'[t].run = task[t].run /\ task'[t].i = k /\ task'[t].pc = "advance"
  BY <1>1, <1>6 DEF Task
<1> QED
  BY <1>6, <1>7 DEF Moves, AtStep

LEMMA FinishPreserves ==
  ASSUME TypeInv, NEW t \in Runs, Live(t), NEW s \in Run,
         Len(s.steps) >= Len(My(t).steps),
         NEW outcome \in RunTerminal, Finish(t, s, outcome)
  PROVE  TypeInv'
<1> DEFINE w == [s EXCEPT !.state = outcome]
<1>1. w \in Run /\ w.steps = s.steps /\ w.state # "absent"
  BY DEF Run, RunTerminal, RunStates
<1>2. Emit(task[t].run, w) /\ GoTo(t, "finishing") /\ UNCHANGED <<executor, history>>
  BY DEF Finish
<1> HIDE DEF w
<1>3. Moves(t, w)
  BY <1>1, <1>2, GoToMoves DEF Labels, EmitLabels, AtStep
<1> QED
  BY <1>1, <1>2, <1>3, RestUnchanged, CoroutineStep

LEMMA StartToolPreserves ==
  ASSUME TypeInv, NEW t \in Runs, Live(t),
         task[t].i \in 1..Len(My(t).steps), StartTool(t)
  PROVE  TypeInv'
<1> DEFINE call == <<task[t].run, MyStep(t).id>>
<1>1. GoTo(t, "tool") /\ UNCHANGED <<run, store, executor, approved, aborting>>
      /\ ran' = ran \cup {call} /\ (late' = late \cup {call} \/ late' = late)
  BY DEF StartTool
<1>2. call \in Runs \X Nat /\ My(t) \in Run
  BY LiveFacts DEF Step
<1> HIDE DEF call
<1>3. Moves(t, My(t))
  <2>1. Len(My(t).steps) \in Nat
    BY LiveFacts
  <2> QED
    BY <1>1, <1>2, <2>1, GoToMoves DEF Labels
<1>4. RestTyped' /\ current' = current
  BY <1>1, <1>2 DEF TypeInv, TypeOK, RestTyped, executor
<1> QED
  BY <1>1, <1>3, <1>4, SilentStep

LEMMA DispatchPreserves ==
  ASSUME TypeInv, NEW t \in Runs, Live(t),
         task[t].i \in 1..Len(My(t).steps), Dispatch(t)
  PROVE  TypeInv'
<1> DEFINE here == [My(t) EXCEPT !.at = task[t].i]
           next == [Mark(here, task[t].i, "running")
                      EXCEPT !.state = "running", !.waiting = 0]
<1>1. /\ My(t) \in Run /\ My(t).state # "absent" /\ Len(My(t).steps) \in Nat
      /\ task \in [Runs -> Task] /\ task[t].i \in Nat
  BY LiveFacts DEF TypeInv, TypeOK
<1>2. here \in Run /\ here.steps = My(t).steps /\ here.state # "absent"
  BY <1>1 DEF Run
<1>3. UNCHANGED <<executor, history>>
  BY DEF Dispatch
<1>4. CASE MyStep(t).status \in StepTerminal
  <2>1. Keep(task[t].run, here)
        /\ task' = [task EXCEPT ![t].pc = "head", ![t].i = @ + 1]
    BY <1>4 DEF Dispatch
  <2> HIDE DEF here
  <2>2. task' = [task EXCEPT ![t] = [task[t] EXCEPT !.pc = "head", !.i = task[t].i + 1]]
    BY <1>1, <2>1 DEF Task
  <2>3. [task[t] EXCEPT !.pc = "head", !.i = task[t].i + 1] \in Task
    <3>1. task[t] \in Task /\ task[t].i + 1 \in Nat
      BY <1>1
    <3> QED
      BY <3>1 DEF Task, Labels
  <2>4. /\ task' \in [Runs -> Task]
        /\ task'[t] = [task[t] EXCEPT !.pc = "head", !.i = task[t].i + 1]
        /\ \A u \in Runs \ {t} : task'[u] = task[u]
    BY <1>1, <2>2, <2>3
  <2>5. task'[t].run = task[t].run /\ task'[t].i = task[t].i + 1 /\ task'[t].pc = "head"
    BY <1>1, <2>4 DEF Task
  <2>6. Moves(t, here)
    BY <1>1, <1>2, <2>4, <2>5 DEF Moves, AtStep
  <2> QED
    BY <1>1, <1>2, <1>3, <2>1, <2>6, RestUnchanged, CoroutineStep
<1>5. CASE MyStep(t).status \notin StepTerminal
  <2>1. Emit(task[t].run, next) /\ GoTo(t, "prepared")
    BY <1>5 DEF Dispatch
  <2> HIDE DEF here
  <2>2. Mark(here, task[t].i, "running") \in Run
        /\ Len(Mark(here, task[t].i, "running").steps) = Len(here.steps)
    BY <1>2, MarkType DEF StepStates
  <2>3. next \in Run /\ Len(next.steps) = Len(My(t).steps) /\ next.state # "absent"
    BY <1>2, <2>2 DEF Run, RunStates
  <2> HIDE DEF next
  <2>4. Moves(t, next)
    BY <1>1, <2>1, <2>3, GoToMoves DEF Labels, EmitLabels
  <2> QED
    BY <1>1, <1>3, <2>1, <2>3, <2>4, RestUnchanged, CoroutineStep
<1> QED
  BY <1>4, <1>5

LEMMA PauseGatePreserves ==
  ASSUME TypeInv, NEW t \in Runs, Live(t),
         task[t].i \in 1..Len(My(t).steps), PauseGate(t)
  PROVE  TypeInv'
<1>1. My(t) \in Run /\ My(t).state # "absent" /\ Len(My(t).steps) \in Nat
  BY LiveFacts
<1>2. CASE Finish(t, My(t), "aborted")
  BY <1>1, <1>2, FinishPreserves DEF RunTerminal
<1>3. ASSUME NEW state \in {"paused", "running"}, NEW label \in {"paused", "unpaused"},
             Emit(task[t].run, [My(t) EXCEPT !.state = state]), GoTo(t, label),
             UNCHANGED <<executor, history>>
      PROVE  TypeInv'
  <2> DEFINE s == [My(t) EXCEPT !.state = state]
  <2>1. s \in Run /\ s.steps = My(t).steps /\ s.state # "absent"
    BY <1>1 DEF Run, RunStates
  <2> HIDE DEF s
  <2>2. Emit(task[t].run, s)
    BY <1>3 DEF s
  <2>3. Moves(t, s)
    BY <1>1, <1>3, <2>1, GoToMoves DEF Labels, EmitLabels
  <2> QED
    BY <1>1, <1>3, <2>1, <2>2, <2>3, RestUnchanged, CoroutineStep
<1>4. CASE Dispatch(t)
  BY <1>4, DispatchPreserves
<1> QED
  BY <1>2, <1>3, <1>4 DEF PauseGate

LEMMA BeginPreserves ==
  ASSUME TypeInv, NEW t \in Runs, Begin(t)
  PROVE  TypeInv'
<1> DEFINE new == [task[t] EXCEPT !.pc  = IF current = NoRun THEN "done" ELSE "head",
                                  !.run = current, !.i = 1]
<1>1. task \in [Runs -> Task] /\ current \in Runs \cup {NoRun}
      /\ run \in [Runs -> Run]
  BY DEF TypeInv, TypeOK
<1>2. UNCHANGED <<run, store, executor, history>> /\ task' = [task EXCEPT ![t] = new]
  BY <1>1 DEF Begin, Task
<1>3. new \in Task /\ new.run = current /\ new.i = 1
      /\ new.pc = (IF current = NoRun THEN "done" ELSE "head")
  BY <1>1 DEF Task, Labels
<1> HIDE DEF new
<1>4. Extends
  BY <1>2, NoWriteExtends
<1>5. Lands(t)
  <2>1. task' \in [Runs -> Task] /\ task'[t] = new
        /\ \A u \in Runs \ {t} : task'[u] = task[u]
    BY <1>1, <1>2, <1>3
  <2>2. new.pc \notin AtStep
    BY <1>3 DEF AtStep
  <2>3. ASSUME current # NoRun
        PROVE  /\ current \in Runs /\ run'[current].state # "absent"
               /\ 1 \in 1..Len(run'[current].steps) + 1
    <3>1. current \in Runs /\ run[current].state # "absent" /\ run[current] \in Run
      BY <1>1, <2>3 DEF TypeInv
    <3>2. Len(run[current].steps) \in Nat
      BY <3>1, LenProperties DEF Run
    <3> QED
      BY <1>2, <3>1, <3>2
  <2>4. CASE current = NoRun
    BY <1>3, <2>1, <2>2, <2>4 DEF Lands, Live
  <2>5. CASE current # NoRun
    BY <1>3, <2>1, <2>2, <2>3, <2>5 DEF Lands
  <2> QED
    BY <2>4, <2>5
<1>6. RestOK'
  BY <1>2 DEF TypeInv, TypeOK, RestOK, executor, history
<1> QED
  BY <1>4, <1>5, <1>6, StepPreserves

LEMMA LoopHeadPreserves ==
  ASSUME TypeInv, NEW t \in Runs, LoopHead(t)
  PROVE  TypeInv'
<1>1. Live(t)
  BY DEF LoopHead, Live
<1>2. /\ My(t) \in Run /\ Len(My(t).steps) \in Nat
      /\ task[t].i \in 1..Len(My(t).steps) + 1
  BY <1>1, LiveFacts
<1>3. CASE Finish(t, [My(t) EXCEPT !.at = Len(My(t).steps) + 1], "completed")
  <2> DEFINE s == [My(t) EXCEPT !.at = Len(My(t).steps) + 1]
  <2>1. s \in Run /\ s.steps = My(t).steps
    BY <1>2 DEF Run
  <2>2. Finish(t, s, "completed")
    BY <1>3
  <2> HIDE DEF s
  <2> QED
    BY <1>1, <1>2, <2>1, <2>2, FinishPreserves DEF RunTerminal
<1>4. CASE task[t].i <= Len(My(t).steps) /\ PauseGate(t)
  BY <1>1, <1>2, <1>4, PauseGatePreserves
<1> QED
  BY <1>3, <1>4 DEF LoopHead

(* The awaits at which a task stands on a step of its plan. *)
LEMMA AtStepFacts ==
  ASSUME TypeInv, NEW t \in Runs, task[t].pc \in AtStep
  PROVE  /\ Live(t) /\ task[t].run \in Runs
         /\ task[t].i \in 1..Len(My(t).steps) /\ Len(My(t).steps) \in Nat
         /\ My(t) \in Run /\ My(t).state # "absent" /\ MyStep(t) \in Step
<1>1. Live(t)
  BY DEF AtStep, Live
<1>2. task[t].i \in 1..Len(My(t).steps)
  BY DEF TypeInv, Placed
<1> QED
  BY <1>1, <1>2, LiveFacts

LEMMA PreparedPreserves ==
  ASSUME TypeInv, NEW t \in Runs, Prepared(t)
  PROVE  TypeInv'
<1>1. task[t].pc \in AtStep
  BY DEF Prepared, AtStep
<1>2. /\ Live(t) /\ task[t].i \in 1..Len(My(t).steps) /\ Len(My(t).steps) \in Nat
      /\ My(t) \in Run /\ MyStep(t) \in Step
  BY <1>1, AtStepFacts
<1>3. CASE Finish(t, Mark(My(t), task[t].i, "failed"), "failed")
  <2> DEFINE s == Mark(My(t), task[t].i, "failed")
  <2>1. s \in Run /\ Len(s.steps) = Len(My(t).steps)
    BY <1>2, MarkType DEF StepStates
  <2>2. Finish(t, s, "failed")
    BY <1>3
  <2> HIDE DEF s
  <2> QED
    BY <1>2, <2>1, <2>2, FinishPreserves DEF RunTerminal
<1>4. CASE /\ Emit(task[t].run, [Mark(My(t), task[t].i, "waiting_confirmation")
                                   EXCEPT !.state = "waiting_confirmation",
                                          !.waiting = MyStep(t).id])
           /\ confirmation' = t
           /\ future' = [future EXCEPT ![t] = "pending"]
           /\ GoTo(t, "asking")
           /\ UNCHANGED <<current, starting, paused, abort, history>>
  <2> DEFINE m == Mark(My(t), task[t].i, "waiting_confirmation")
             s == [m EXCEPT !.state = "waiting_confirmation", !.waiting = MyStep(t).id]
  <2>1. m \in Run /\ Len(m.steps) = Len(My(t).steps)
    BY <1>2, MarkType DEF StepStates
  <2>2. Emit(task[t].run, s)
    BY <1>4
  <2> HIDE DEF m
  <2>3. MyStep(t).id \in Nat
    BY <1>2 DEF Step
  <2>4. s \in Run /\ Len(s.steps) = Len(My(t).steps) /\ s.state # "absent"
    BY <2>1, <2>3 DEF Run, RunStates
  <2> HIDE DEF s
  <2>5. Moves(t, s)
    BY <1>2, <1>4, <2>4, GoToMoves DEF Labels, EmitLabels
  <2>6. RestTyped' /\ current' = current
    BY <1>4 DEF TypeInv, TypeOK, RestTyped, history
  <2> QED
    BY <1>2, <2>2, <2>4, <2>5, <2>6, CoroutineStep
<1>5. CASE StartTool(t)
  BY <1>2, <1>5, StartToolPreserves
<1> QED
  BY <1>3, <1>4, <1>5 DEF Prepared

LEMMA AskingPreserves ==
  ASSUME TypeInv, NEW t \in Runs, Asking(t)
  PROVE  TypeInv'
<1>1. task[t].pc \in AtStep
  BY DEF Asking, AtStep
<1>2. /\ Live(t) /\ task[t].i \in 1..Len(My(t).steps) /\ Len(My(t).steps) \in Nat
      /\ My(t) \in Run
  BY <1>1, AtStepFacts
<1>3. CASE Finish(t, My(t), "failed")
  BY <1>2, <1>3, FinishPreserves DEF RunTerminal
<1>4. CASE /\ task' = [task EXCEPT ![t].pc = "waiting", ![t].future = confirmation]
           /\ UNCHANGED <<run, store, executor, history>>
  <2> DEFINE new == [task[t] EXCEPT !.pc = "waiting", !.future = confirmation]
  <2>1. task \in [Runs -> Task] /\ confirmation \in Runs \cup {NoRun}
    BY DEF TypeInv, TypeOK
  <2>2. task' = [task EXCEPT ![t] = new]
    BY <1>4, <2>1 DEF Task
  <2>3. new \in Task /\ new.run = task[t].run /\ new.i = task[t].i /\ new.pc = "waiting"
    BY <2>1 DEF Task, Labels
  <2> HIDE DEF new
  <2>4. Moves(t, My(t))
    BY <1>2, <2>1, <2>2, <2>3 DEF Moves
  <2>5. RestTyped' /\ current' = current
    BY <1>4, RestUnchanged
  <2> QED
    BY <1>2, <1>4, <2>4, <2>5, SilentStep
<1> QED
  BY <1>3, <1>4 DEF Asking

LEMMA AnsweredPreserves ==
  ASSUME TypeInv, NEW t \in Runs, Answered(t)
  PROVE  TypeInv'
<1> DEFINE answer == future[task[t].future]
           heard  == [My(t) EXCEPT !.waiting = 0]
<1>1. task[t].pc \in AtStep
  BY DEF Answered, AtStep
<1>2. /\ Live(t) /\ task[t].i \in 1..Len(My(t).steps) /\ Len(My(t).steps) \in Nat
      /\ My(t) \in Run
  BY <1>1, AtStepFacts
<1>3. heard \in Run /\ heard.steps = My(t).steps
  BY <1>2 DEF Run
<1>4. RestTyped' /\ current' = current
  BY DEF Answered, TypeInv, TypeOK, RestTyped, history
<1>5. CASE /\ Emit(task[t].run, [heard EXCEPT !.state = "aborted"])
           /\ GoTo(t, "finishing")
  <2> DEFINE s == [heard EXCEPT !.state = "aborted"]
  <2> HIDE DEF heard
  <2>1. s \in Run /\ s.steps = My(t).steps /\ s.state # "absent"
    BY <1>3 DEF Run, RunStates
  <2>2. Emit(task[t].run, s)
    BY <1>5
  <2> HIDE DEF s
  <2>3. Moves(t, s)
    BY <1>2, <1>5, <2>1, GoToMoves DEF Labels, EmitLabels, AtStep
  <2> QED
    BY <1>2, <1>4, <2>1, <2>2, <2>3, CoroutineStep
<1>6. CASE /\ Emit(task[t].run, [Mark(heard, task[t].i, "running")
                                    EXCEPT !.state = "running"])
           /\ task' = [task EXCEPT ![t].pc = "confirmed",
                                   ![t].ok = (answer = "approve")]
  <2> HIDE DEF heard
  <2> DEFINE m == Mark(heard, task[t].i, "running")
             s == [m EXCEPT !.state = "running"]
             new == [task[t] EXCEPT !.pc = "confirmed", !.ok = (answer = "approve")]
  <2>1. m \in Run /\ Len(m.steps) = Len(My(t).steps)
    <3>1. heard \in Run /\ task[t].i \in 1..Len(heard.steps)
      BY <1>2, <1>3
    <3>2. "running" \in StepStates
      BY DEF StepStates
    <3>3. m \in Run /\ Len(m.steps) = Len(heard.steps)
      BY <3>1, <3>2, MarkType
    <3> QED
      BY <1>3, <3>3
  <2>2. Emit(task[t].run, s)
    BY <1>6
  <2> HIDE DEF m
  <2>3. s \in Run /\ Len(s.steps) = Len(My(t).steps) /\ s.state # "absent"
    BY <2>1 DEF Run, RunStates
  <2> HIDE DEF s
  <2>4. task \in [Runs -> Task]
    BY DEF TypeInv, TypeOK
  <2>5. task' = [task EXCEPT ![t] = new]
    BY <1>6, <2>4 DEF Task
  <2>6. new \in Task /\ new.run = task[t].run /\ new.i = task[t].i
    BY <2>4 DEF Task, Labels, EmitLabels
  <2> HIDE DEF new
  <2>7. Moves(t, s)
    BY <1>2, <2>3, <2>4, <2>5, <2>6 DEF Moves
  <2> QED
    BY <1>2, <1>4, <2>2, <2>3, <2>7, CoroutineStep
<1> QED
  BY <1>5, <1>6 DEF Answered

LEMMA ConfirmedPreserves ==
  ASSUME TypeInv, NEW t \in Runs, Confirmed(t)
  PROVE  TypeInv'
<1>1. task[t].pc \in AtStep
  BY DEF Confirmed, AtStep
<1>2. /\ Live(t) /\ task[t].i \in 1..Len(My(t).steps) /\ Len(My(t).steps) \in Nat
      /\ My(t) \in Run
  BY <1>1, AtStepFacts
<1>3. CASE StartTool(t)
  BY <1>2, <1>3, StartToolPreserves
<1>4. CASE /\ Emit(task[t].run, [Mark(My(t), task[t].i, "skipped")
                                   EXCEPT !.state = "running", !.waiting = 0])
           /\ MoveTo(t, task[t].i + 1)
           /\ UNCHANGED <<executor, history>>
  <2> DEFINE m == Mark(My(t), task[t].i, "skipped")
             s == [m EXCEPT !.state = "running", !.waiting = 0]
  <2>1. m \in Run /\ Len(m.steps) = Len(My(t).steps)
    BY <1>2, MarkType DEF StepStates
  <2>2. Emit(task[t].run, s)
    BY <1>4
  <2> HIDE DEF m
  <2>3. s \in Run /\ Len(s.steps) = Len(My(t).steps) /\ s.state # "absent"
    BY <2>1 DEF Run, RunStates
  <2> HIDE DEF s
  <2>4. task[t].i + 1 \in 1..Len(s.steps) + 1
    BY <1>2, <2>3
  <2>5. Moves(t, s)
    BY <1>2, <1>4, <2>3, <2>4, MoveToMoves
  <2> QED
    BY <1>2, <1>4, <2>2, <2>3, <2>5, RestUnchanged, CoroutineStep
<1> QED
  BY <1>3, <1>4 DEF Confirmed

LEMMA ToolReturnsPreserves ==
  ASSUME TypeInv, NEW t \in Runs, NEW success \in BOOLEAN, ToolReturns(t, success)
  PROVE  TypeInv'
<1> DEFINE s == Mark(My(t), task[t].i, IF success THEN "done" ELSE "failed")
<1>1. task[t].pc \in AtStep
  BY DEF ToolReturns, AtStep
<1>2. /\ Live(t) /\ task[t].i \in 1..Len(My(t).steps) /\ Len(My(t).steps) \in Nat
      /\ My(t) \in Run /\ My(t).state # "absent"
  BY <1>1, AtStepFacts
<1>3. s \in Run /\ Len(s.steps) = Len(My(t).steps) /\ s.state # "absent"
  <2>1. (IF success THEN "done" ELSE "failed") \in StepStates
    BY DEF StepStates
  <2> QED
    BY <1>2, <2>1, MarkType
<1>4. UNCHANGED <<executor, history>>
  BY DEF ToolReturns
<1>5. /\ Emit(task[t].run, s) \/ Keep(task[t].run, s)
      /\ \/ GoTo(t, "evaluating")
         \/ MoveTo(t, task[t].i + 1)
         \/ GoTo(t, "failing")
  BY DEF ToolReturns
<1> HIDE DEF s
<1>6. Moves(t, s)
  <2>1. CASE GoTo(t, "evaluating")
    BY <1>2, <1>3, <2>1, GoToMoves DEF Labels
  <2>2. CASE GoTo(t, "failing")
    BY <1>2, <1>3, <2>2, GoToMoves DEF Labels, EmitLabels
  <2>3. CASE MoveTo(t, task[t].i + 1)
    <3>1. task[t].i + 1 \in 1..Len(s.steps) + 1
      BY <1>2, <1>3
    <3> QED
      BY <1>2, <1>3, <2>3, <3>1, MoveToMoves
  <2> QED
    BY <1>5, <2>1, <2>2, <2>3
<1> QED
  BY <1>2, <1>3, <1>4, <1>5, <1>6, RestUnchanged, CoroutineStep

LEMMA RevisePreserves ==
  ASSUME TypeInv, NEW t \in Runs, Judging(t), NEW s \in Run, s.state # "absent",
         Len(s.steps) >= Len(My(t).steps),
         NEW k \in 1..Len(s.steps) + 1, Revise(t, s, k)
  PROVE  TypeInv'
<1>1. Live(t)
  BY DEF Judging, Live
<1>2. Emit(task[t].run, s) /\ MoveTo(t, k) /\ UNCHANGED <<executor, history>>
  BY DEF Revise
<1>3. Moves(t, s)
  BY <1>1, <1>2, MoveToMoves
<1> QED
  BY <1>1, <1>2, <1>3, RestUnchanged, CoroutineStep

LEMMA EvaluatePreserves ==
  ASSUME TypeInv, NEW t \in Runs, Evaluate(t)
  PROVE  TypeInv'
<1>0. Judging(t)
  BY DEF Evaluate, EvaluateContinue, EvaluateAbort, EvaluateModify, EvaluateAddStep,
         EvaluateSkip
<1>1. task[t].pc \in AtStep
  BY <1>0 DEF Judging, AtStep
<1>2. /\ Live(t) /\ task[t].i \in 1..Len(My(t).steps) /\ Len(My(t).steps) \in Nat
      /\ My(t) \in Run /\ My(t).state # "absent" /\ My(t).steps \in Seq(Step)
  BY <1>1, AtStepFacts, LiveFacts
<1>3. CASE EvaluateContinue(t)
  <2>1. task[t].i + 1 \in 1..Len(My(t).steps) + 1
    BY <1>2
  <2> QED
    BY <1>0, <1>2, <1>3, <2>1, RevisePreserves DEF EvaluateContinue
<1>4. CASE EvaluateAbort(t)
  BY <1>2, <1>4, FinishPreserves DEF EvaluateAbort, RunTerminal
<1>5. CASE EvaluateModify(t)
  <2>1. PICK k \in DOMAIN My(t).steps, risk \in Risks :
           Revise(t, [My(t) EXCEPT !.steps[k].risk = risk], task[t].i + 1)
    BY <1>5 DEF EvaluateModify
  <2> DEFINE step == [My(t).steps[k] EXCEPT !.risk = risk]
             new  == [My(t).steps EXCEPT ![k] = step]
             s    == [My(t) EXCEPT !.steps = new]
  <2>2. k \in 1..Len(My(t).steps) /\ My(t).steps[k] \in Step
    BY <1>2, LenProperties, ElementOfSeq
  <2>3. step \in Step
    BY <2>2 DEF Step
  <2>4. Revise(t, s, task[t].i + 1)
    BY <1>2, <2>1 DEF Run
  <2> HIDE DEF step
  <2>5. new \in Seq(Step) /\ Len(new) = Len(My(t).steps)
    BY <1>2, <2>2, <2>3, ExceptSeq
  <2> HIDE DEF new
  <2>6. s \in Run /\ Len(s.steps) = Len(My(t).steps) /\ s.state # "absent"
    BY <1>2, <2>5 DEF Run
  <2> HIDE DEF s
  <2>7. task[t].i + 1 \in 1..Len(s.steps) + 1
    BY <1>2, <2>6
  <2> QED
    BY <1>0, <1>2, <2>4, <2>6, <2>7, RevisePreserves
<1>6. CASE EvaluateAddStep(t)
  <2>1. PICK risk \in Risks, dangerous \in BOOLEAN :
           Revise(t, [My(t) EXCEPT !.steps = InsertAt(@, task[t].i + 1,
                        [id |-> Len(My(t).steps) + 1, risk |-> risk,
                         dangerous |-> dangerous, status |-> "pending"])],
                  task[t].i + 1)
    BY <1>6 DEF EvaluateAddStep
  <2> DEFINE step == [id |-> Len(My(t).steps) + 1, risk |-> risk,
                      dangerous |-> dangerous, status |-> "pending"]
             new  == InsertAt(My(t).steps, task[t].i + 1, step)
             s    == [My(t) EXCEPT !.steps = new]
  <2>2. Revise(t, s, task[t].i + 1)
    BY <2>1
  <2>3. step \in Step
    BY <1>2 DEF Step, StepStates
  <2> HIDE DEF step
  <2>4. new \in Seq(Step) /\ Len(new) = Len(My(t).steps) + 1
    BY <1>2, <2>3, InsertType
  <2> HIDE DEF new
  <2>5. s \in Run /\ s.steps = new /\ s.state # "absent"
    BY <1>2, <2>4 DEF Run
  <2> HIDE DEF s
  <2>6. task[t].i + 1 \in 1..Len(s.steps) + 1 /\ Len(s.steps) >= Len(My(t).steps)
    BY <1>2, <2>4, <2>5
  <2> QED
    BY <1>0, <1>2, <2>2, <2>5, <2>6, RevisePreserves
<1>7. CASE EvaluateSkip(t)
  <2>1. ASSUME NEW to \in Int, NEW k \in 1..Len(My(t).steps) + 1,
               Revise(t, Skip(My(t), task[t].i + 1, to), k)
        PROVE  TypeInv'
    <3> DEFINE s == Skip(My(t), task[t].i + 1, to)
    <3>1. s \in Run /\ Len(s.steps) = Len(My(t).steps) /\ s.state # "absent"
      BY <1>2, SkipType
    <3>2. Revise(t, s, k)
      BY <2>1
    <3> HIDE DEF s
    <3> QED
      BY <1>0, <1>2, <3>1, <3>2, RevisePreserves
  <2>2. CASE \E k \in DOMAIN My(t).steps :
               /\ k > task[t].i + 1
               /\ Revise(t, Skip(My(t), task[t].i + 1, k - 1), k)
    <3>1. PICK k \in DOMAIN My(t).steps :
             Revise(t, Skip(My(t), task[t].i + 1, k - 1), k)
      BY <2>2
    <3>2. k - 1 \in Int /\ k \in 1..Len(My(t).steps) + 1
      BY <1>2, LenProperties
    <3> QED
      BY <2>1, <3>1, <3>2
  <2>3. CASE /\ task[t].i < Len(My(t).steps)
             /\ Revise(t, Skip(My(t), task[t].i + 1, task[t].i + 1), task[t].i + 2)
    <3>1. task[t].i + 1 \in Int /\ task[t].i + 2 \in 1..Len(My(t).steps) + 1
      BY <1>2, <2>3
    <3> QED
      BY <2>1, <2>3, <3>1
  <2> QED
    BY <1>7, <2>2, <2>3 DEF EvaluateSkip
<1> QED
  BY <1>3, <1>4, <1>5, <1>6, <1>7 DEF Evaluate

LEMMA AdvancePreserves ==
  ASSUME TypeInv, NEW t \in Runs, Advance(t)
  PROVE  TypeInv'
<1>1. Live(t)
  BY DEF Advance, Live
<1>2. My(t) \in Run /\ Len(My(t).steps) \in Nat
  BY <1>1, LiveFacts
<1>3. GoTo(t, "head") /\ UNCHANGED <<run, store, executor, history>>
  BY DEF Advance
<1>4. Moves(t, My(t))
  BY <1>1, <1>2, <1>3, GoToMoves DEF Labels, AtStep
<1> QED
  BY <1>1, <1>3, <1>4, RestUnchanged, SilentStep

LEMMA FinallyPreserves ==
  ASSUME TypeInv, NEW t \in Runs, Finally(t)
  PROVE  TypeInv'
<1>1. Live(t)
  BY DEF Finally, Live
<1>2. My(t) \in Run /\ Len(My(t).steps) \in Nat
  BY <1>1, LiveFacts
<1>3. GoTo(t, "done") /\ UNCHANGED <<run, store>> /\ current' = NoRun
  BY DEF Finally
<1>4. Moves(t, My(t))
  BY <1>1, <1>2, <1>3, GoToMoves DEF Labels, AtStep
<1>5. RestTyped'
  BY DEF Finally, TypeInv, TypeOK, RestTyped, history
<1> QED
  BY <1>1, <1>3, <1>4, <1>5, SilentStep

LEMMA TaskStepPreserves ==
  ASSUME TypeInv, NEW t \in Runs, TaskStep(t)
  PROVE  TypeInv'
<1>1. CASE WakePaused(t)
  <2>1. task[t].pc \in AtStep /\ PauseGate(t)
    BY <1>1 DEF WakePaused, AtStep
  <2> QED
    BY <2>1, AtStepFacts, PauseGatePreserves
<1>2. CASE Unpaused(t)
  <2>1. task[t].pc \in AtStep /\ Dispatch(t)
    BY <1>2 DEF Unpaused, AtStep
  <2> QED
    BY <2>1, AtStepFacts, DispatchPreserves
<1>3. CASE ToolRaises(t) \/ Failing(t)
  <2>1. task[t].pc \in AtStep /\ Finish(t, My(t), "failed")
    BY <1>3 DEF ToolRaises, Failing, AtStep
  <2>2. Live(t) /\ My(t) \in Run /\ Len(My(t).steps) \in Nat
    BY <2>1, AtStepFacts
  <2> QED
    BY <2>1, <2>2, FinishPreserves DEF RunTerminal
<1>4. CASE ToolReturns(t, TRUE) \/ ToolReturns(t, FALSE)
  BY <1>4, ToolReturnsPreserves
<1> QED
  BY <1>1, <1>2, <1>3, <1>4, BeginPreserves, LoopHeadPreserves, PreparedPreserves,
     AskingPreserves, AnsweredPreserves, ConfirmedPreserves, EvaluatePreserves,
     AdvancePreserves, FinallyPreserves DEF TaskStep

(* A handler that moves no coroutine leaves each where TypeInv put it.       *)
LEMMA HandlerStep ==
  ASSUME TypeInv, NEW r \in Runs, Extends, task' = task, RestOK'
  PROVE  TypeInv'
<1>1. Lands(r)
  <2>1. run \in [Runs -> Run] /\ run' \in [Runs -> Run] /\ task \in [Runs -> Task]
    BY DEF TypeInv, TypeOK, Extends
  <2>2. task[r].pc \in AtStep => Live(r)
    BY DEF AtStep, Live
  <2>3. CASE ~Live(r)
    BY <2>1, <2>2, <2>3 DEF Lands, Live
  <2>4. CASE Live(r)
    <3> DEFINE q == task[r].run
    <3>1. /\ q \in Runs /\ run[q].state # "absent" /\ task[r].i \in 1..Len(run[q].steps) + 1
          /\ (task[r].pc \in AtStep => task[r].i \in 1..Len(run[q].steps))
      BY <2>4, LiveFacts DEF My, TypeInv, Placed
    <3>2. run'[q].state # "absent" /\ Len(run'[q].steps) >= Len(run[q].steps)
      BY <3>1 DEF Extends
    <3>3. Len(run[q].steps) \in Nat /\ Len(run'[q].steps) \in Nat
      BY <2>1, <3>1, LenProperties DEF Run
    <3>4. /\ task[r].i \in 1..Len(run'[q].steps) + 1
          /\ (task[r].pc \in AtStep => task[r].i \in 1..Len(run'[q].steps))
      <4> DEFINE m == Len(run[q].steps)  n == Len(run'[q].steps)
      <4> HIDE DEF q
      <4>1. m \in Nat /\ n \in Nat /\ n >= m /\ task[r].i \in 1..m + 1
        BY <3>1, <3>2, <3>3
      <4>2. task[r].pc \in AtStep => task[r].i \in 1..m
        BY <3>1
      <4> HIDE DEF m, n
      <4>3. task[r].i \in 1..n + 1 /\ (task[r].i \in 1..m => task[r].i \in 1..n)
        BY <4>1
      <4> QED
        BY <4>2, <4>3 DEF n
    <3> QED
      BY <2>1, <3>1, <3>2, <3>4 DEF Lands
  <2> QED
    BY <2>3, <2>4
<1> QED
  BY <1>1, StepPreserves

(* A run becomes current: a new one, or the copy of a saved one. *)
LEMMA LaunchPreserves ==
  ASSUME TypeInv, NEW r \in Runs, NEW s \in Run, s.state # "absent", Launch(r, s)
  PROVE  TypeInv'
<1>1. /\ Emit(r, s) /\ run[r].state = "absent" /\ current' = r /\ starting' = r
      /\ paused' = FALSE /\ abort' = FALSE
      /\ UNCHANGED <<confirmation, future, task, history>>
  BY DEF Launch
<1>2. Extends /\ run'[r] = s
  BY <1>1, WriteExtends
<1>3. RestOK'
  BY <1>1, <1>2 DEF TypeInv, TypeOK, RestOK, history
<1> QED
  BY <1>1, <1>2, <1>3, HandlerStep

LEMMA FreshType ==
  ASSUME NEW plan \in Plans
  PROVE  FreshRun(plan) \in Run /\ FreshRun(plan).state = "running"
BY ConstantsOK DEF FreshRun, Blank, Run, RunStates

LEMMA StartPlanPreserves ==
  ASSUME TypeInv, NEW r \in Runs, StartPlan(r)
  PROVE  TypeInv'
<1>1. PICK plan \in Plans : Launch(r, FreshRun(plan))
  BY DEF StartPlan
<1>2. FreshRun(plan) \in Run /\ FreshRun(plan).state # "absent"
  BY FreshType
<1> QED
  BY <1>1, <1>2, LaunchPreserves

LEMMA CreateTaskPreserves ==
  ASSUME TypeInv, NEW r \in Runs, CreateTask(r)
  PROVE  TypeInv'
<1> DEFINE new == [task[r] EXCEPT !.pc = "start"]
<1>1. task \in [Runs -> Task]
  BY DEF TypeInv, TypeOK
<1>2. /\ task' = [task EXCEPT ![r] = new] /\ starting' = NoRun
      /\ UNCHANGED <<run, store, current, paused, abort, confirmation, future, history>>
  BY <1>1 DEF CreateTask, Task
<1>3. new \in Task /\ new.pc = "start"
  BY <1>1 DEF Task, Labels
<1> HIDE DEF new
<1>4. Lands(r)
  BY <1>1, <1>2, <1>3 DEF Lands, Live, AtStep
<1>5. Extends
  BY <1>2, NoWriteExtends
<1>6. RestOK'
  BY <1>2 DEF TypeInv, TypeOK, RestOK, history
<1> QED
  BY <1>4, <1>5, <1>6, StepPreserves

LEMMA PauseResumePreserves ==
  ASSUME TypeInv, NEW r \in Runs, PauseRun(r) \/ ResumeRun(r)
  PROVE  TypeInv'
<1>1. PICK state \in {"paused", "running"} :
         Emit(r, [run[r] EXCEPT !.state = state])
  BY DEF PauseRun, ResumeRun
<1> DEFINE s == [run[r] EXCEPT !.state = state]
<1>2. run[r] \in Run
  BY DEF TypeInv, TypeOK
<1>3. s \in Run /\ s.steps = run[r].steps /\ s.state # "absent"
  BY <1>2 DEF Run, RunStates
<1>4. Len(run[r].steps) \in Nat
  BY <1>2, LenProperties DEF Run
<1>5. Emit(r, s)
  BY <1>1
<1> HIDE DEF s
<1>6. Extends /\ run'[r] = s
  BY <1>3, <1>4, <1>5, WriteExtends
<1>7. /\ current = r /\ paused' \in BOOLEAN
      /\ UNCHANGED <<current, starting, abort, confirmation, future, task, history>>
  BY DEF PauseRun, ResumeRun
<1>8. RestOK'
  BY <1>3, <1>6, <1>7 DEF TypeInv, TypeOK, RestOK, history
<1> QED
  BY <1>6, <1>7, <1>8, HandlerStep

(* An answer changes only the future that is awaited. *)
LEMMA ResolveType ==
  ASSUME TypeInv, NEW result \in {"approve", "reject", "abort"}, Resolve(result)
  PROVE  future' \in [Runs -> {"none", "pending", "approve", "reject", "abort"}]
BY DEF TypeInv, TypeOK, Resolve

LEMMA AbortRunPreserves ==
  ASSUME TypeInv, NEW r \in Runs, AbortRun(r)
  PROVE  TypeInv'
<1>1. Extends /\ task' = task
  BY NoWriteExtends DEF AbortRun
<1>2. future' \in [Runs -> {"none", "pending", "approve", "reject", "abort"}]
  BY ResolveType DEF AbortRun
<1>3. RestOK'
  BY <1>2 DEF AbortRun, TypeInv, TypeOK, RestOK
<1> QED
  BY <1>1, <1>3, HandlerStep

LEMMA ConfirmStepPreserves ==
  ASSUME TypeInv, NEW r \in Runs, NEW answer \in {"approve", "reject"},
         ConfirmStep(r, answer)
  PROVE  TypeInv'
<1>1. Extends /\ task' = task
  BY NoWriteExtends DEF ConfirmStep
<1>2. future' \in [Runs -> {"none", "pending", "approve", "reject", "abort"}]
  BY ResolveType DEF ConfirmStep
<1>3. run[r].waiting \in Nat
  BY DEF TypeInv, TypeOK, Run
<1>4. approved' \subseteq Runs \X Nat
  BY <1>3 DEF ConfirmStep, TypeInv, TypeOK
<1>5. RestOK'
  BY <1>2, <1>4 DEF ConfirmStep, TypeInv, TypeOK, RestOK
<1> QED
  BY <1>1, <1>5, HandlerStep

LEMMA StutterPreserves ==
  ASSUME TypeInv, UNCHANGED vars
  PROVE  TypeInv'
BY DEF vars, executor, history, TypeInv, TypeOK, Placed, Live, My

LEMMA TypeInit == ASSUME Init PROVE TypeInv
<1>1. Blank \in Run
  BY DEF Blank, Run, RunStates
<1>2. [pc |-> "none", run |-> NoRun, i |-> 1, ok |-> FALSE, future |-> NoRun] \in Task
  BY DEF Task, Labels
<1>3. \A t \in Runs : ~Live(t) /\ task[t].pc \notin AtStep
  BY DEF Init, Live, AtStep
<1> QED
  BY <1>1, <1>2, <1>3 DEF Init, TypeInv, TypeOK, Placed

LEMMA TypeStep == ASSUME TypeInv, [Next]_vars PROVE TypeInv'
<1>1. ASSUME NEW r \in Runs, Handler(r) PROVE TypeInv'
  BY <1>1, StartPlanPreserves, PauseResumePreserves, AbortRunPreserves,
     ConfirmStepPreserves DEF Handler
<1> QED
  BY <1>1, CreateTaskPreserves, TaskStepPreserves, StutterPreserves DEF Next

(* Every variable keeps its type, and the position a coroutine holds never   *)
(* leaves its plan, whatever the evaluator inserts or skips: run.steps[index] *)
(* in _run_current_plan cannot raise.                                        *)
THEOREM TypeCorrect == Spec => []TypeOK
<1>1. Init => TypeInv
  BY TypeInit
<1>2. TypeInv /\ [Next]_vars => TypeInv'
  BY TypeStep
<1>3. TypeInv => TypeOK
  BY DEF TypeInv
<1> QED
  BY <1>1, <1>2, <1>3, PTL DEF Spec
=============================================================================
