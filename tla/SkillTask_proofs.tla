-------------------------- MODULE SkillTask_proofs --------------------------
(* Theorems about SkillTask, for every number of tasks, every skill, every     *)
(* size of the loop window and of the recovery, and with or without a          *)
(* WebSocket client.                                                          *)
EXTENDS SkillLease, TLAPS

Over == {"ended", "done", "lost"}

(* A task with an outcome is over, or is a guided one that gave up: it looks   *)
(* at the screen once more, with the loop detector still firing.               *)
GaveUp(j) ==
  /\ j.mode = "guided"
  /\ \/ j.pc \in {"resting", "step"}
     \/ j.pc = "seeing" /\ j.looping

(* What is left of the budget of a guided task at each of its awaits.          *)
Budget(j) ==
  /\ j.pc \notin {"retrying", "noting"}
  /\ j.recovered <= RecoveryLimit
  /\ j.recorded <= j.steps + RecoveryActions - 1
  /\ j.pc \in {"tool", "seeing"} => j.recorded < j.steps
  /\ j.pc = "recovering" => /\ j.recorded + j.left <= j.steps + RecoveryActions - 1
                            /\ j.recovered < RecoveryLimit

(* What a call in flight has behind it.                                        *)
Licensed(j) ==
  /\ j.pc = "tool" => j.verdict = "free"
  /\ j.pc = "recovering" => j.verdict = "unasked" /\ j.left \in 1..RecoveryActions

JobInv(j) == /\ j.complete => j.pc \in Over \/ GaveUp(j)
             /\ j.mode = "guided" => Budget(j)
             /\ Licensed(j)

Inv ==
  /\ TypeOK
  /\ \A t \in Tasks : JobInv(job[t])
  /\ handle # NoTask => job[handle].pc # "none"
  /\ \A t \in cut : /\ job[t].pc # "none"
                    /\ job[t].cancelled \/ job[t].pc \in Over

(* What a coroutine that is resumed, and not cancelled, can rely on.           *)
LEMMA AwakeFacts ==
  ASSUME Inv, NEW t \in Tasks, NEW label \in Labels \ Over, label # "none", At(t, label)
  PROVE  /\ job[t] \in Job /\ JobInv(job[t]) /\ job[t].pc = label /\ t \notin cut
         /\ LoopWindow \in Nat /\ RecoveryLimit \in Nat /\ RecoveryActions \in Nat \ {0}
BY SkillConstantsOK DEF Inv, TypeOK, At

(* A coroutine goes on as j.                                                   *)
LEMMA GoesInv ==
  ASSUME Inv, NEW t \in Tasks, NEW j \in Job, JobInv(j), j.pc # "none",
         t \in cut => j.pc \in Over, Goes(t, j)
  PROVE  Inv'
<1>1. /\ job \in [Tasks -> Job] /\ job' = [job EXCEPT ![t] = j]
      /\ UNCHANGED <<current, context, handle, abort, told, cut, early>>
  BY DEF Inv, TypeOK, Goes, Executor
<1>2. job' \in [Tasks -> Job] /\ job'[t] = j /\ \A u \in Tasks : u # t => job'[u] = job[u]
  BY <1>1
<1>3. TypeOK'
  BY <1>1, <1>2 DEF Inv, TypeOK
<1>4. \A u \in Tasks : JobInv(job'[u])
  BY <1>2 DEF Inv
<1>5. handle' # NoTask => job'[handle'].pc # "none"
  BY <1>1, <1>2 DEF Inv, TypeOK
<1>6. \A u \in cut' : job'[u].pc # "none" /\ (job'[u].cancelled \/ job'[u].pc \in Over)
  BY <1>1, <1>2 DEF Inv, TypeOK
<1> QED
  BY <1>3, <1>4, <1>5, <1>6 DEF Inv

LEMMA EndedFacts ==
  ASSUME NEW j \in Job, NEW outcome \in States
  PROVE  /\ Ended(j, outcome) \in Job /\ Ended(j, outcome).pc = "ended"
         /\ Ended(j, outcome).complete /\ Ended(j, outcome).mode = j.mode
         /\ Ended(j, outcome).recorded = j.recorded /\ Ended(j, outcome).steps = j.steps
         /\ Ended(j, outcome).recovered = j.recovered /\ Ended(j, outcome).left = j.left
BY DEF Ended, Job, Labels, NotifyLabels

LEMMA EndsInv ==
  ASSUME Inv, NEW t \in Tasks, NEW outcome \in States, Ends(t, outcome)
  PROVE  Inv'
<1> DEFINE j == Ended(job[t], outcome)
<1>1. job[t] \in Job /\ JobInv(job[t]) /\ Goes(t, j)
  BY DEF Inv, TypeOK, Ends
<1>2. /\ j \in Job /\ j.pc = "ended" /\ j.mode = job[t].mode /\ j.recorded = job[t].recorded
      /\ j.steps = job[t].steps /\ j.recovered = job[t].recovered
  BY <1>1, EndedFacts
<1> HIDE DEF j
<1>3. JobInv(j)
  BY <1>1, <1>2 DEF JobInv, Budget, Over, Licensed
<1> QED
  BY <1>1, <1>2, <1>3, GoesInv DEF Over

(* It goes on at another await with nothing else changed.                      *)
LEMMA MovesInv ==
  ASSUME Inv, NEW t \in Tasks, NEW label \in Labels \ ({"none"} \cup CallLabels),
         Goes(t, [job[t] EXCEPT !.pc = label]), t \in cut => label \in Over,
         job[t].complete =>
           label \in Over \/ (job[t].mode = "guided" /\ label \in {"resting", "step"}),
         job[t].mode = "guided" =>
           /\ label \notin {"retrying", "noting"}
           /\ label = "seeing" => job[t].recorded < job[t].steps
  PROVE  Inv'
<1> DEFINE j == [job[t] EXCEPT !.pc = label]
<1>1. job[t] \in Job /\ JobInv(job[t]) /\ Goes(t, j)
  BY DEF Inv, TypeOK
<1>2. /\ j \in Job /\ j.pc = label /\ j.mode = job[t].mode /\ j.recorded = job[t].recorded
      /\ j.steps = job[t].steps /\ j.recovered = job[t].recovered /\ j.complete = job[t].complete
  BY <1>1 DEF Job
<1> HIDE DEF j
<1>3. JobInv(j)
  BY <1>1, <1>2 DEF JobInv, Budget, GaveUp, Licensed, CallLabels
<1> QED
  BY <1>1, <1>2, <1>3, GoesInv

(* The policy was asked, and its answer is what the call has behind it.        *)
LEMMA AskedInv ==
  ASSUME Inv, NEW t \in Tasks, t \notin cut, ~job[t].complete,
         job[t].mode = "guided" => job[t].recorded < job[t].steps, Asked(t)
  PROVE  Inv'
<1>1. CASE Ends(t, "failed")
  BY <1>1, EndsInv DEF States
<1>2. CASE Goes(t, [job[t] EXCEPT !.pc = "tool", !.verdict = "free"])
  <2> DEFINE j == [job[t] EXCEPT !.pc = "tool", !.verdict = "free"]
  <2>1. job[t] \in Job /\ JobInv(job[t]) /\ Goes(t, j)
    BY <1>2 DEF Inv, TypeOK
  <2>2. /\ j \in Job /\ j.pc = "tool" /\ j.mode = job[t].mode /\ j.recorded = job[t].recorded
        /\ j.steps = job[t].steps /\ j.recovered = job[t].recovered /\ ~j.complete
        /\ j.verdict = "free"
    BY <2>1 DEF Job, Labels, CallLabels, Verdicts
  <2> HIDE DEF j
  <2>3. JobInv(j)
    BY <2>1, <2>2 DEF JobInv, Budget, Licensed
  <2> QED
    BY <2>1, <2>2, <2>3, GoesInv
<1> QED
  BY <1>1, <1>2 DEF Asked

-----------------------------------------------------------------------------
(* Scripts. *)

LEMMA AttemptInv ==
  ASSUME Inv, NEW t \in Tasks, t \notin cut, ~job[t].complete, job[t].mode = "scripted",
         Attempt(t)
  PROVE  Inv'
BY EndsInv, AskedInv DEF Attempt, States

LEMMA ScriptInv ==
  ASSUME Inv, NEW t \in Tasks, Script(t)
  PROVE  Inv'
<1>1. CASE ScriptHead(t)
  <2>1. /\ JobInv(job[t]) /\ job[t].pc = "step" /\ t \notin cut /\ job[t].mode = "scripted"
    BY <1>1, AwakeFacts DEF ScriptHead, Labels, Over
  <2>2. ~job[t].complete
    BY <2>1 DEF JobInv, Over, GaveUp
  <2>3. CASE \E outcome \in States : Ends(t, outcome)
    BY <2>3, EndsInv
  <2>4. CASE Goes(t, [job[t] EXCEPT !.pc = "paused"])
    BY <2>1, <2>2, <2>4, MovesInv DEF Labels, CallLabels, SleepLabels
  <2>5. CASE Attempt(t)
    BY <2>1, <2>2, <2>5, AttemptInv
  <2> QED
    BY <1>1, <2>3, <2>4, <2>5 DEF ScriptHead, States
<1>2. CASE ScriptWakes(t)
  <2>1. /\ JobInv(job[t]) /\ job[t].pc = "paused" /\ t \notin cut /\ job[t].mode = "scripted"
        /\ Attempt(t)
    BY <1>2, AwakeFacts DEF ScriptWakes, Labels, SleepLabels, Over
  <2> QED
    BY <2>1, AttemptInv DEF JobInv, Over, GaveUp
<1>3. CASE Retries(t)
  <2>1. JobInv(job[t]) /\ job[t].pc = "retrying" /\ t \notin cut /\ Attempt(t) /\ job[t] \in Job
    BY <1>3, AwakeFacts DEF Retries, Labels, SleepLabels, Over
  <2>2. ~job[t].complete /\ job[t].mode = "scripted"
    BY <2>1 DEF JobInv, Over, GaveUp, Budget, Job
  <2> QED
    BY <2>1, <2>2, AttemptInv
<1>4. CASE ScriptToolReturns(t)
  <2>1. /\ JobInv(job[t]) /\ job[t].pc = "tool" /\ t \notin cut /\ job[t].mode = "scripted"
        /\ job[t] \in Job
    BY <1>4, AwakeFacts DEF ScriptToolReturns, Labels, CallLabels, Over
  <2>2. ~job[t].complete
    BY <2>1 DEF JobInv, Over, GaveUp
  <2>3. CASE Goes(t, [job[t] EXCEPT !.pc = "noting"])
    BY <2>1, <2>2, <2>3, MovesInv DEF Labels, CallLabels, NotifyLabels
  <2>4. CASE job[t].left > 1 /\ Goes(t, [job[t] EXCEPT !.pc = "retrying", !.left = @ - 1])
    <3> DEFINE j == [job[t] EXCEPT !.pc = "retrying", !.left = job[t].left - 1]
    <3>1. job[t].left - 1 \in Nat \ {0}
      BY <2>1, <2>4 DEF Job
    <3>2. Goes(t, j)
      BY <2>4
    <3>3. /\ j \in Job /\ j.pc = "retrying" /\ j.complete = job[t].complete
          /\ j.mode = "scripted"
      BY <2>1, <3>1 DEF Job, Labels, SleepLabels
    <3> HIDE DEF j
    <3>4. JobInv(j)
      BY <2>2, <3>3 DEF JobInv, Licensed
    <3> QED
      BY <2>1, <3>2, <3>3, <3>4, GoesInv
  <2>5. CASE Ends(t, "failed")
    BY <2>5, EndsInv DEF States
  <2> QED
    BY <1>4, <2>3, <2>4, <2>5 DEF ScriptToolReturns
<1>5. CASE Noted(t)
  <2> DEFINE j == [job[t] EXCEPT !.pc = "step", !.i = job[t].i + 1, !.left = job[t].tries]
  <2>1. /\ JobInv(job[t]) /\ job[t].pc = "noting" /\ t \notin cut /\ job[t] \in Job
        /\ Goes(t, j)
    BY <1>5, AwakeFacts DEF Noted, Labels, NotifyLabels, Over
  <2>2. ~job[t].complete /\ job[t].mode = "scripted"
    BY <2>1 DEF JobInv, Over, GaveUp, Budget, Job
  <2>3. job[t].i + 1 \in Nat /\ job[t].tries \in Nat \ {0}
    BY <2>1 DEF Job
  <2>4. j \in Job /\ j.pc = "step" /\ j.complete = job[t].complete /\ j.mode = job[t].mode
    BY <2>1, <2>3 DEF Job, Labels
  <2> HIDE DEF j
  <2>5. JobInv(j)
    BY <2>2, <2>4 DEF JobInv, Licensed
  <2> QED
    BY <2>1, <2>4, <2>5, GoesInv
<1> QED
  BY <1>1, <1>2, <1>3, <1>4, <1>5 DEF Script

-----------------------------------------------------------------------------
(* The guided loop. *)

LEMMA GuidedGoesOnInv ==
  ASSUME Inv, NEW t \in Tasks, job[t] \in Job, t \notin cut, ~job[t].complete,
         job[t].mode = "guided", JobInv(job[t]), GuidedGoesOn(t)
  PROVE  Inv'
<1>0. RecoveryLimit \in Nat /\ RecoveryActions \in Nat \ {0}
  BY SkillConstantsOK
<1>1. CASE Ends(t, "failed")
  BY <1>1, EndsInv DEF States
<1>2. CASE /\ job[t].recorded < job[t].steps
           /\ Goes(t, [job[t] EXCEPT !.pc = "seeing", !.looping = FALSE])
  <2> DEFINE j == [job[t] EXCEPT !.pc = "seeing", !.looping = FALSE]
  <2>1. /\ j \in Job /\ j.pc = "seeing" /\ j.mode = job[t].mode /\ j.recorded = job[t].recorded
        /\ j.steps = job[t].steps /\ j.recovered = job[t].recovered
        /\ j.complete = job[t].complete
    BY DEF Job, Labels
  <2>2. Goes(t, j)
    BY <1>2
  <2> HIDE DEF j
  <2>3. JobInv(j)
    BY <1>2, <2>1 DEF JobInv, Budget, Licensed
  <2> QED
    BY <2>1, <2>2, <2>3, GoesInv
<1>3. CASE /\ job[t].recorded < job[t].steps /\ job[t].recovered < RecoveryLimit
           /\ Goes(t, [job[t] EXCEPT !.pc = "recovering", !.left = RecoveryActions,
                                     !.verdict = "unasked"])
  <2> DEFINE j == [job[t] EXCEPT !.pc = "recovering", !.left = RecoveryActions,
                                 !.verdict = "unasked"]
  <2>1. /\ j \in Job /\ j.pc = "recovering" /\ j.mode = job[t].mode
        /\ j.recorded = job[t].recorded /\ j.steps = job[t].steps /\ j.left = RecoveryActions
        /\ j.verdict = "unasked" /\ j.recovered = job[t].recovered /\ j.complete = job[t].complete
    BY <1>0 DEF Job, Labels, CallLabels
  <2>2. Goes(t, j)
    BY <1>3
  <2> HIDE DEF j
  <2>3. job[t].recorded \in Nat /\ job[t].steps \in Nat /\ job[t].recovered \in Nat
    BY DEF Job
  <2>4. JobInv(j)
    BY <1>0, <1>3, <2>1, <2>3 DEF JobInv, Budget, Licensed
  <2> QED
    BY <2>1, <2>2, <2>4, GoesInv
<1>4. CASE /\ job[t].recorded < job[t].steps
           /\ Goes(t, [Ended(job[t], "failed") EXCEPT !.pc = "seeing", !.looping = TRUE])
  <2> DEFINE e == Ended(job[t], "failed")
             j == [e EXCEPT !.pc = "seeing", !.looping = TRUE]
  <2>1. /\ e \in Job /\ e.mode = job[t].mode /\ e.recorded = job[t].recorded
        /\ e.steps = job[t].steps /\ e.recovered = job[t].recovered
    BY EndedFacts DEF States
  <2>2. Goes(t, j)
    BY <1>4
  <2> HIDE DEF e
  <2>3. /\ j \in Job /\ j.pc = "seeing" /\ j.mode = job[t].mode /\ j.recorded = job[t].recorded
        /\ j.steps = job[t].steps /\ j.recovered = job[t].recovered /\ j.looping
    BY <2>1 DEF Job, Labels
  <2> HIDE DEF j
  <2>4. JobInv(j)
    BY <1>4, <2>3 DEF JobInv, Budget, GaveUp, Licensed
  <2> QED
    BY <2>2, <2>3, <2>4, GoesInv
<1> QED
  BY <1>1, <1>2, <1>3, <1>4 DEF GuidedGoesOn

LEMMA RecoveredInv ==
  ASSUME Inv, NEW t \in Tasks, Recovered(t)
  PROVE  Inv'
<1> DEFINE j == [job[t] EXCEPT !.recorded = job[t].recorded + 1]
<1>0. /\ JobInv(job[t]) /\ job[t].pc = "recovering" /\ t \notin cut /\ job[t] \in Job
      /\ RecoveryLimit \in Nat /\ RecoveryActions \in Nat \ {0}
  BY AwakeFacts DEF Recovered, Labels, CallLabels, Over
<1>1. /\ ~job[t].complete /\ job[t].recorded \in Nat /\ job[t].steps \in Nat
      /\ job[t].left \in Nat \ {0} /\ job[t].recovered \in Nat
  BY <1>0 DEF JobInv, Over, GaveUp, Job
<1>2. /\ j \in Job /\ j.recorded = job[t].recorded + 1 /\ j.mode = job[t].mode
      /\ j.left = job[t].left /\ j.steps = job[t].steps /\ j.recovered = job[t].recovered
      /\ j.complete = FALSE /\ j.pc = "recovering" /\ j.verdict = job[t].verdict
  BY <1>0, <1>1 DEF Job
<1>3. \/ j.left > 1 /\ Goes(t, [j EXCEPT !.left = j.left - 1])
      \/ j.left = 1 /\ Goes(t, [j EXCEPT !.pc = "resting", !.recovered = j.recovered + 1])
      \/ Goes(t, Ended(j, "failed"))
  BY DEF Recovered
<1> HIDE DEF j
<1>4. CASE j.left > 1 /\ Goes(t, [j EXCEPT !.left = j.left - 1])
  <2> DEFINE k == [j EXCEPT !.left = j.left - 1]
  <2>1. /\ k \in Job /\ k.pc = "recovering" /\ k.mode = job[t].mode /\ k.complete = FALSE
        /\ k.recorded = j.recorded /\ k.left = j.left - 1 /\ k.steps = j.steps
        /\ k.recovered = j.recovered /\ k.verdict = job[t].verdict
    BY <1>1, <1>2, <1>4 DEF Job
  <2>2. Goes(t, k)
    BY <1>4
  <2> HIDE DEF k
  <2>3. JobInv(k)
    BY <1>0, <1>1, <1>2, <1>4, <2>1 DEF JobInv, Budget, Licensed
  <2> QED
    BY <1>0, <2>1, <2>2, <2>3, GoesInv
<1>5. CASE j.left = 1 /\ Goes(t, [j EXCEPT !.pc = "resting", !.recovered = j.recovered + 1])
  <2> DEFINE k == [j EXCEPT !.pc = "resting", !.recovered = j.recovered + 1]
  <2>1. /\ k \in Job /\ k.pc = "resting" /\ k.mode = job[t].mode /\ k.complete = FALSE
        /\ k.recorded = j.recorded /\ k.steps = j.steps /\ k.recovered = j.recovered + 1
    <3>1. "resting" \in Labels /\ j.recovered + 1 \in Nat
      BY <1>1, <1>2 DEF Labels, SleepLabels
    <3> QED
      BY <1>2, <3>1 DEF Job
  <2>2. Goes(t, k)
    BY <1>5
  <2> HIDE DEF k
  <2>3. JobInv(k)
    BY <1>0, <1>1, <1>2, <1>5, <2>1 DEF JobInv, Budget, Licensed
  <2> QED
    BY <1>0, <2>1, <2>2, <2>3, GoesInv
<1>6. CASE Goes(t, Ended(j, "failed"))
  <2> DEFINE k == Ended(j, "failed")
  <2>1. /\ k \in Job /\ k.pc = "ended" /\ k.mode = job[t].mode
        /\ k.recorded = j.recorded /\ k.steps = j.steps /\ k.recovered = j.recovered
    BY <1>2, EndedFacts DEF States
  <2>2. Goes(t, k)
    BY <1>6
  <2> HIDE DEF k
  <2>3. JobInv(k)
    BY <1>0, <1>1, <1>2, <2>1 DEF JobInv, Budget, Over, Licensed
  <2> QED
    BY <1>0, <2>1, <2>2, <2>3, GoesInv
<1> QED
  BY <1>3, <1>4, <1>5, <1>6

LEMMA GuidedToolInv ==
  ASSUME Inv, NEW t \in Tasks, GuidedToolReturns(t)
  PROVE  Inv'
<1>0. /\ JobInv(job[t]) /\ job[t].pc = "tool" /\ t \notin cut /\ job[t] \in Job
      /\ job[t].mode = "guided" /\ RecoveryActions \in Nat \ {0}
  BY AwakeFacts DEF GuidedToolReturns, Labels, CallLabels, Over
<1>1. /\ ~job[t].complete /\ job[t].recorded \in Nat /\ job[t].steps \in Nat
      /\ job[t].recorded < job[t].steps
  BY <1>0 DEF JobInv, Over, GaveUp, Job, Budget
<1>2. CASE Goes(t, [job[t] EXCEPT !.pc = "resting", !.recorded = job[t].recorded + 1])
  <2> DEFINE k == [job[t] EXCEPT !.pc = "resting", !.recorded = job[t].recorded + 1]
  <2>1. /\ k \in Job /\ k.pc = "resting" /\ k.complete = job[t].complete /\ k.steps = job[t].steps
        /\ k.recorded = job[t].recorded + 1 /\ k.recovered = job[t].recovered
    <3>1. "resting" \in Labels /\ job[t].recorded + 1 \in Nat
      BY <1>1 DEF Labels, SleepLabels
    <3> QED
      BY <1>0, <3>1 DEF Job
  <2>2. Goes(t, k)
    BY <1>2
  <2> HIDE DEF k
  <2>3. JobInv(k)
    BY <1>0, <1>1, <2>1 DEF JobInv, Budget, Licensed
  <2> QED
    BY <1>0, <2>1, <2>2, <2>3, GoesInv
<1>3. CASE Goes(t, [Ended(job[t], "failed") EXCEPT !.recorded = job[t].recorded + 1])
  <2> DEFINE e == Ended(job[t], "failed")
             k == [e EXCEPT !.recorded = job[t].recorded + 1]
  <2>1. /\ e \in Job /\ e.pc = "ended" /\ e.steps = job[t].steps /\ e.recovered = job[t].recovered
    BY <1>0, EndedFacts DEF States
  <2>2. Goes(t, k)
    BY <1>3
  <2> HIDE DEF e
  <2>3. /\ k \in Job /\ k.pc = "ended" /\ k.steps = job[t].steps
        /\ k.recorded = job[t].recorded + 1 /\ k.recovered = job[t].recovered
    BY <1>1, <2>1 DEF Job
  <2> HIDE DEF k
  <2>4. JobInv(k)
    BY <1>0, <1>1, <2>3 DEF JobInv, Budget, Over, Licensed
  <2> QED
    BY <1>0, <2>2, <2>3, <2>4, GoesInv
<1>4. (Ended(job[t], "failed")).recorded = job[t].recorded
  BY <1>0, EndedFacts DEF States
<1> QED
  BY <1>2, <1>3, <1>4 DEF GuidedToolReturns

LEMMA GuidedInv ==
  ASSUME Inv, NEW t \in Tasks, Guided(t)
  PROVE  Inv'
<1>1. CASE GuidedHead(t)
  <2>1. /\ JobInv(job[t]) /\ job[t].pc = "step" /\ t \notin cut /\ job[t].mode = "guided"
        /\ job[t] \in Job
    BY <1>1, AwakeFacts DEF GuidedHead, Labels, Over
  <2>2. CASE Leaves(t)
    <3>1. "ended" \in Labels \ ({"none"} \cup CallLabels) /\ "ended" \in Over
      BY DEF Labels, NotifyLabels, CallLabels, Over
    <3>2. Goes(t, [job[t] EXCEPT !.pc = "ended"])
      BY <2>2 DEF Leaves
    <3> QED
      BY <3>1, <3>2, MovesInv
  <2>3. CASE Ends(t, "aborted")
    BY <2>3, EndsInv DEF States
  <2>4. CASE ~job[t].complete /\ Goes(t, [job[t] EXCEPT !.pc = "paused"])
    BY <2>1, <2>4, MovesInv DEF Labels, CallLabels, SleepLabels
  <2>5. CASE ~job[t].complete /\ GuidedGoesOn(t)
    BY <2>1, <2>5, GuidedGoesOnInv
  <2> QED
    BY <1>1, <2>2, <2>3, <2>4, <2>5 DEF GuidedHead
<1>2. CASE GuidedWakes(t)
  <2>1. /\ JobInv(job[t]) /\ job[t].pc = "paused" /\ t \notin cut /\ job[t].mode = "guided"
        /\ job[t] \in Job /\ GuidedGoesOn(t)
    BY <1>2, AwakeFacts DEF GuidedWakes, Labels, SleepLabels, Over
  <2>2. ~job[t].complete
    BY <2>1 DEF JobInv, Over, GaveUp
  <2> QED
    BY <2>1, <2>2, GuidedGoesOnInv
<1>3. CASE Seen(t)
  <2>1. JobInv(job[t]) /\ job[t].pc = "seeing" /\ t \notin cut /\ job[t] \in Job
    BY <1>3, AwakeFacts DEF Seen, Labels, Over
  <2>2. /\ job[t].mode = "guided" => job[t].recorded < job[t].steps
        /\ job[t].complete => job[t].mode = "guided" /\ job[t].looping
    BY <2>1 DEF JobInv, Budget, GaveUp, Over
  <2>3. CASE Ends(t, "completed") \/ Ends(t, "failed")
    BY <2>3, EndsInv DEF States
  <2>4. CASE Goes(t, [job[t] EXCEPT !.pc = "resting"])
    BY <2>1, <2>2, <2>4, MovesInv DEF Labels, CallLabels, SleepLabels
  <2>5. CASE ~job[t].looping /\ Asked(t)
    BY <2>1, <2>2, <2>5, AskedInv
  <2> QED
    BY <1>3, <2>3, <2>4, <2>5 DEF Seen
<1>4. CASE Rested(t)
  <2>1. JobInv(job[t]) /\ job[t].pc = "resting" /\ t \notin cut
    BY <1>4, AwakeFacts DEF Rested, Labels, SleepLabels, Over
  <2>2. job[t].complete => job[t].mode = "guided"
    BY <2>1 DEF JobInv, GaveUp, Over
  <2> QED
    BY <1>4, <2>1, <2>2, MovesInv DEF Rested, Labels, CallLabels
<1> QED
  BY <1>1, <1>2, <1>3, <1>4, RecoveredInv, GuidedToolInv DEF Guided

-----------------------------------------------------------------------------
(* The callers, and the frame of every task. *)

LEMMA FreshFacts ==
  ASSUME NEW skill \in Skills, NEW label \in {"starting", "created"}
  PROVE  /\ Fresh(skill, label) \in Job /\ Fresh(skill, label).pc = label
         /\ JobInv(Fresh(skill, label))
<1> DEFINE j == Fresh(skill, label)
<1>1. /\ skill.mode \in {"scripted", "guided"} /\ skill.steps \in Nat
      /\ skill.tries \in Nat \ {0} /\ RecoveryLimit \in Nat /\ RecoveryActions \in Nat \ {0}
  BY SkillConstantsOK
<1>2. label \in Labels
  BY DEF Labels, NotifyLabels
<1>3. /\ j \in Job /\ j.pc = label /\ j.complete = FALSE /\ j.recorded = 0
      /\ j.recovered = 0 /\ j.steps = skill.steps
  BY <1>1, <1>2 DEF Fresh, Job, States
<1> HIDE DEF j
<1>4. JobInv(j)
  BY <1>1, <1>3 DEF JobInv, Licensed, Budget
<1> QED
  BY <1>3, <1>4 DEF j

LEMMA CallerInv ==
  ASSUME Inv, NEW t \in Tasks, RunSkill(t) \/ RunSkillAsync(t)
  PROVE  Inv'
<1>1. PICK skill \in Skills, label \in {"starting", "created"} :
        job' = [job EXCEPT ![t] = Fresh(skill, label)]
  BY DEF RunSkill, RunSkillAsync
<1> DEFINE j == Fresh(skill, label)
<1>2. j \in Job /\ j.pc = label /\ JobInv(j)
  BY FreshFacts
<1> HIDE DEF j
<1>3. /\ job \in [Tasks -> Job] /\ job' = [job EXCEPT ![t] = j] /\ job[t].pc = "none"
      /\ current' = t /\ context' \in {t, context} /\ handle' \in {t, handle}
      /\ abort' \in {FALSE, abort} /\ told' = told /\ cut' = cut
      /\ early' \in BOOLEAN
  BY <1>1 DEF j, RunSkill, RunSkillAsync, Starts, Inv, TypeOK
<1>4. job' \in [Tasks -> Job] /\ job'[t] = j /\ \A u \in Tasks : u # t => job'[u] = job[u]
  BY <1>2, <1>3
<1>5. TypeOK'
  BY <1>3, <1>4 DEF Inv, TypeOK
<1>6. \A u \in Tasks : JobInv(job'[u])
  BY <1>2, <1>4 DEF Inv
<1>7. handle' # NoTask => job'[handle'].pc # "none"
  BY <1>2, <1>3, <1>4 DEF Inv, TypeOK
<1>8. \A u \in cut' : job'[u].pc # "none" /\ (job'[u].cancelled \/ job'[u].pc \in Over)
  BY <1>3, <1>4 DEF Inv, TypeOK
<1> QED
  BY <1>5, <1>6, <1>7, <1>8 DEF Inv

LEMMA FlagsInv ==
  ASSUME NEW j \in Job, NEW k \in Job, JobInv(j),
         k.pc = j.pc, k.mode = j.mode, k.complete = j.complete, k.looping = j.looping,
         k.steps = j.steps, k.left = j.left, k.recorded = j.recorded, k.recovered = j.recovered,
         k.verdict = j.verdict
  PROVE  JobInv(k)
BY DEF JobInv, Licensed, Budget, GaveUp

LEMMA AbortInv ==
  ASSUME Inv, AbortCurrent
  PROVE  Inv'
<1> DEFINE hit == {t \in {handle} \ {NoTask} : job[t].pc \notin {"done", "lost"}}
<1>1. /\ job \in [Tasks -> Job] /\ told \subseteq Tasks /\ cut \subseteq Tasks
      /\ {current, context, handle} \subseteq Tasks \cup {NoTask}
      /\ early \in BOOLEAN
  BY DEF Inv, TypeOK
<1>2. /\ abort' = TRUE
      /\ job' = [t \in Tasks |-> IF t \in hit THEN [job[t] EXCEPT !.cancelled = TRUE]
                                               ELSE job[t]]
      /\ cut' = cut \cup hit /\ told' = told \cup ({current} \ {NoTask})
      /\ UNCHANGED <<current, context, handle, early>>
  BY DEF AbortCurrent
<1>3. hit \subseteq Tasks /\ \A t \in hit : job[t].pc # "none"
  BY <1>1 DEF Inv
<1> HIDE DEF hit
<1>4. ASSUME NEW t \in Tasks
      PROVE  /\ job'[t] \in Job /\ JobInv(job'[t]) /\ job'[t].pc = job[t].pc
             /\ t \in hit => job'[t].cancelled
             /\ job[t].cancelled => job'[t].cancelled
  <2> DEFINE k == [job[t] EXCEPT !.cancelled = TRUE]
  <2>1. job[t] \in Job /\ JobInv(job[t])
    BY <1>1 DEF Inv
  <2>2. /\ k \in Job /\ k.pc = job[t].pc /\ k.mode = job[t].mode /\ k.complete = job[t].complete
        /\ k.looping = job[t].looping /\ k.steps = job[t].steps /\ k.left = job[t].left
        /\ k.recorded = job[t].recorded /\ k.recovered = job[t].recovered /\ k.cancelled
        /\ k.verdict = job[t].verdict
    BY <2>1 DEF Job
  <2>3. job'[t] = IF t \in hit THEN k ELSE job[t]
    BY <1>2
  <2> HIDE DEF k
  <2>4. JobInv(k)
    BY <2>1, <2>2, FlagsInv
  <2> QED
    BY <2>1, <2>2, <2>3, <2>4
<1>5. TypeOK'
  BY <1>1, <1>2, <1>3, <1>4 DEF TypeOK
<1>6. handle' # NoTask => job'[handle'].pc # "none"
  BY <1>1, <1>2, <1>4 DEF Inv
<1>7. \A u \in cut' : job'[u].pc # "none" /\ (job'[u].cancelled \/ job'[u].pc \in Over)
  BY <1>1, <1>2, <1>3, <1>4 DEF Inv
<1> QED
  BY <1>4, <1>5, <1>6, <1>7 DEF Inv

LEMMA PauseInv ==
  ASSUME Inv, PauseCurrent \/ ResumeCurrent
  PROVE  Inv'
<1>1. /\ job \in [Tasks -> Job] /\ context \in Tasks
      /\ UNCHANGED <<current, context, handle, abort, told, cut, early>>
  BY DEF PauseCurrent, ResumeCurrent, Executor, Inv, TypeOK
<1>2. PICK paused \in BOOLEAN, state \in {"paused", "running"} :
        job' = [job EXCEPT ![context] = [job[context] EXCEPT !.paused = paused, !.state = state]]
  <2>1. CASE PauseCurrent
    <3> WITNESS TRUE \in BOOLEAN, "paused" \in {"paused", "running"}
    <3> QED
      BY <1>1, <2>1 DEF PauseCurrent
  <2>2. CASE ResumeCurrent
    <3> WITNESS FALSE \in BOOLEAN, "running" \in {"paused", "running"}
    <3> QED
      BY <1>1, <2>2 DEF ResumeCurrent
  <2> QED
    BY <2>1, <2>2
<1> DEFINE k == [job[context] EXCEPT !.paused = paused, !.state = state]
<1>3. job[context] \in Job /\ JobInv(job[context])
  BY <1>1 DEF Inv
<1>4. /\ k \in Job /\ k.pc = job[context].pc /\ k.mode = job[context].mode
      /\ k.complete = job[context].complete /\ k.looping = job[context].looping
      /\ k.steps = job[context].steps /\ k.left = job[context].left
      /\ k.recorded = job[context].recorded /\ k.recovered = job[context].recovered
      /\ k.cancelled = job[context].cancelled /\ k.verdict = job[context].verdict
  BY <1>3 DEF Job, States
<1>5. job' = [job EXCEPT ![context] = k]
  BY <1>2
<1> HIDE DEF k
<1>6. JobInv(k)
  BY <1>3, <1>4, FlagsInv
<1>7. /\ job' \in [Tasks -> Job] /\ job'[context] = k
      /\ \A u \in Tasks : u # context => job'[u] = job[u]
  BY <1>1, <1>4, <1>5
<1>8. TypeOK'
  BY <1>1, <1>7 DEF Inv, TypeOK
<1>9. \A u \in Tasks : JobInv(job'[u])
  BY <1>6, <1>7 DEF Inv
<1>10. handle' # NoTask => job'[handle'].pc # "none"
  BY <1>1, <1>4, <1>7 DEF Inv, TypeOK
<1>11. \A u \in cut' : job'[u].pc # "none" /\ (job'[u].cancelled \/ job'[u].pc \in Over)
  BY <1>1, <1>4, <1>7 DEF Inv, TypeOK
<1> QED
  BY <1>8, <1>9, <1>10, <1>11 DEF Inv

(* A step that empties or takes the executor, and moves its own task.          *)
LEMMA FrameInv ==
  ASSUME Inv, NEW t \in Tasks, Begin(t) \/ Finished(t)
  PROVE  Inv'
<1>1. PICK label \in {"starting", "done"} :
        /\ job' = [job EXCEPT ![t] = [job[t] EXCEPT !.pc = label]]
        /\ label = "starting" => At(t, "created")
        /\ label = "done" => At(t, "ended")
  BY DEF Begin, Finished, Inv, TypeOK
<1> DEFINE j == [job[t] EXCEPT !.pc = label]
<1>2. /\ job \in [Tasks -> Job] /\ current' \in {t, NoTask} /\ context' \in {t, NoTask}
      /\ handle' = handle /\ abort' \in {FALSE, abort} /\ told' = told /\ cut' = cut
      /\ early' \in BOOLEAN /\ job[t] \in Job /\ JobInv(job[t])
  BY DEF Begin, Finished, Inv, TypeOK
<1>3. /\ j \in Job /\ j.pc = label /\ j.mode = job[t].mode /\ j.complete = job[t].complete
      /\ j.steps = job[t].steps /\ j.recorded = job[t].recorded
      /\ j.recovered = job[t].recovered /\ j.cancelled = job[t].cancelled
  BY <1>2 DEF Job, Labels, NotifyLabels
<1>4. job' = [job EXCEPT ![t] = j]
  BY <1>1
<1> HIDE DEF j
<1>5. JobInv(j)
  BY <1>1, <1>2, <1>3 DEF JobInv, Licensed, Budget, GaveUp, Over, At
<1>6. job' \in [Tasks -> Job] /\ job'[t] = j /\ \A u \in Tasks : u # t => job'[u] = job[u]
  BY <1>2, <1>3, <1>4
<1>7. TypeOK'
  BY <1>2, <1>6 DEF Inv, TypeOK
<1>8. \A u \in Tasks : JobInv(job'[u])
  BY <1>5, <1>6 DEF Inv
<1>9. handle' # NoTask => job'[handle'].pc # "none"
  BY <1>2, <1>3, <1>6 DEF Inv, TypeOK
<1>10. t \in cut => label = "done"
  BY <1>1 DEF Inv, At, Over
<1>11. \A u \in cut' : job'[u].pc # "none" /\ (job'[u].cancelled \/ job'[u].pc \in Over)
  BY <1>2, <1>3, <1>6, <1>10 DEF Inv, TypeOK, Over
<1> QED
  BY <1>7, <1>8, <1>9, <1>11 DEF Inv

LEMMA TaskStepInv ==
  ASSUME Inv, NEW t \in Tasks, TaskStep(t)
  PROVE  Inv'
<1>1. CASE Started(t)
  <2>1. JobInv(job[t]) /\ job[t].pc = "starting" /\ t \notin cut
    BY <1>1, AwakeFacts DEF Started, Labels, NotifyLabels, Over
  <2>2. ~job[t].complete
    BY <2>1 DEF JobInv, GaveUp, Over
  <2> QED
    BY <1>1, <2>1, <2>2, MovesInv DEF Started, Labels, CallLabels
<1>2. CASE Cancelled(t)
  <2>1. CASE Ends(t, "aborted")
    BY <2>1, EndsInv DEF States
  <2>2. CASE Goes(t, [job[t] EXCEPT !.pc = "lost", !.cancelled = FALSE])
    <3> DEFINE j == [job[t] EXCEPT !.pc = "lost", !.cancelled = FALSE]
    <3>1. job[t] \in Job /\ JobInv(job[t]) /\ Goes(t, j)
      BY <2>2 DEF Inv, TypeOK
    <3>2. /\ j \in Job /\ j.pc = "lost" /\ j.mode = job[t].mode /\ j.steps = job[t].steps
          /\ j.recorded = job[t].recorded /\ j.recovered = job[t].recovered
      BY <3>1 DEF Job, Labels
    <3> HIDE DEF j
    <3>3. JobInv(j)
      BY <3>1, <3>2 DEF JobInv, Licensed, Budget, Over
    <3> QED
      BY <3>1, <3>2, <3>3, GoesInv DEF Over
  <2> QED
    BY <1>2, <2>1, <2>2 DEF Cancelled
<1>3. CASE Raises(t)
  BY <1>3, EndsInv DEF Raises, States
<1> QED
  BY <1>1, <1>2, <1>3, FrameInv, ScriptInv, GuidedInv DEF TaskStep

LEMMA InvInit == ASSUME Init PROVE Inv
<1> DEFINE skill == [mode |-> "scripted", steps |-> 0, tries |-> 1]
           j == [Fresh(skill, "none") EXCEPT !.state = "pending"]
<1>1. j \in Job /\ j.pc = "none" /\ j.mode = "scripted" /\ ~j.complete
  <2> DEFINE f == Fresh(skill, "none")
  <2>1. f \in Job /\ f.pc = "none" /\ f.mode = "scripted" /\ f.complete = FALSE
    BY DEF Fresh, Job, States, Labels
  <2>2. j = [f EXCEPT !.state = "pending"]
    OBVIOUS
  <2> HIDE DEF f, j
  <2> QED
    BY <2>1, <2>2 DEF Job, States
<1>2. \A t \in Tasks : job[t] = j
  BY DEF Init
<1>3. job = [t \in Tasks |-> j]
  BY DEF Init
<1> HIDE DEF j
<1>4. JobInv(j)
  BY <1>1 DEF JobInv, Licensed
<1> QED
  BY <1>1, <1>2, <1>3, <1>4 DEF Init, Inv, TypeOK

LEMMA InvStep == ASSUME Inv, [Next]_vars PROVE Inv'
<1>1. CASE UNCHANGED vars
  BY <1>1 DEF vars, Inv, TypeOK
<1> QED
  BY <1>1, AbortInv, PauseInv, CallerInv, TaskStepInv DEF Next

-----------------------------------------------------------------------------
(* The variables keep their types.                                            *)
THEOREM TypeCorrect == Spec => []TypeOK
<1>1. Init => Inv
  BY InvInit
<1>2. Inv /\ [Next]_vars => Inv'
  BY InvStep
<1>3. Inv => TypeOK
  BY DEF Inv
<1> QED
  BY <1>1, <1>2, <1>3, PTL DEF Spec

(* The budget of a guided task: max_steps actions, but for the rest of a       *)
(* recovery attempt that was begun before the limit, and no more attempts than *)
(* the skill allows.                                                          *)
THEOREM GuidedBounded == Spec => []GuidedIsBounded
<1>1. Init => Inv
  BY InvInit
<1>2. Inv /\ [Next]_vars => Inv'
  BY InvStep
<1>3. Inv => GuidedIsBounded
  BY DEF Inv, JobInv, Budget, GuidedIsBounded
<1> QED
  BY <1>1, <1>2, <1>3, PTL DEF Spec

(* A call is made by a coroutine that is resumed, is not cancelled, and whose  *)
(* task has no outcome.                                                       *)
LEMMA CallsAwake ==
  ASSUME Inv, Next, NEW t \in Tasks, Calls(t)
  PROVE  ~job[t].complete /\ t \notin cut
<1>0. job \in [Tasks -> Job] /\ job[t] \in Job /\ JobInv(job[t])
  BY DEF Inv, TypeOK
<1>1. ASSUME NEW k, k.pc = job[t].pc, k.recorded = job[t].recorded, job'[t] = k PROVE FALSE
  BY <1>0, <1>1 DEF Calls, Job
<1>2. job'[t] # job[t]
  BY <1>1
<1>3. ~AbortCurrent
  <2> SUFFICES ASSUME AbortCurrent PROVE FALSE
    OBVIOUS
  <2> DEFINE k == [job[t] EXCEPT !.cancelled = TRUE]
  <2>1. k.pc = job[t].pc /\ k.recorded = job[t].recorded
    BY <1>0 DEF Job
  <2>2. job'[t] \in {k, job[t]}
    BY DEF AbortCurrent
  <2> HIDE DEF k
  <2> QED
    BY <1>1, <2>1, <2>2
<1>4. ~PauseCurrent /\ ~ResumeCurrent
  <2> SUFFICES ASSUME PauseCurrent \/ ResumeCurrent PROVE FALSE
    OBVIOUS
  <2>1. context = t /\ context \in Tasks
    BY <1>0, <1>2 DEF PauseCurrent, ResumeCurrent, Inv, TypeOK
  <2>2. /\ job'[t].pc = job[t].pc /\ job'[t].recorded = job[t].recorded
    BY <1>0, <2>1 DEF PauseCurrent, ResumeCurrent, Job
  <2> QED
    BY <1>1, <2>2
<1>5. PICK u \in Tasks : RunSkill(u) \/ RunSkillAsync(u) \/ TaskStep(u)
  BY <1>3, <1>4 DEF Next
<1>6. u = t
  <2> SUFFICES ASSUME u # t PROVE job'[t] = job[t]
    BY <1>2
  <2> QED
    BY <1>0, <1>5 DEF RunSkill, RunSkillAsync, TaskStep, Begin, Started, Cancelled, Finished,
      Raises, Script, Guided, ScriptHead, ScriptWakes, ScriptToolReturns, Retries, Noted,
      GuidedHead, GuidedWakes, Recovered, Seen, GuidedToolReturns, Rested, GuidedGoesOn,
      Attempt, Asked, Ends, Leaves, Goes
<1>7. ASSUME NEW outcome, Ends(t, outcome) PROVE FALSE
  <2> DEFINE k == Ended(job[t], outcome)
  <2>1. k.pc = "ended"
    BY <1>0 DEF Ended, Job
  <2>2. job'[t] = k
    BY <1>0, <1>7 DEF Ends, Goes
  <2> HIDE DEF k
  <2> QED
    BY <2>1, <2>2 DEF Calls, CallLabels
<1>8. ASSUME NEW label, label \notin CallLabels, Goes(t, [job[t] EXCEPT !.pc = label])
      PROVE  FALSE
  <2>1. job'[t].pc = label
    BY <1>0, <1>8 DEF Goes, Job
  <2> QED
    BY <1>8, <2>1 DEF Calls
<1>9. ~RunSkill(t) /\ ~RunSkillAsync(t) /\ ~Begin(t) /\ ~Finished(t)
  <2>1. ASSUME NEW skill, NEW label \in {"starting", "created"},
               job' = [job EXCEPT ![t] = Fresh(skill, label)]
        PROVE  FALSE
    BY <1>0, <2>1 DEF Fresh, Calls, CallLabels
  <2>2. ~Begin(t) /\ ~Finished(t)
    BY <1>0 DEF Begin, Finished, Calls, CallLabels, Job
  <2> QED
    BY <2>1, <2>2 DEF RunSkill, RunSkillAsync
<1>10. ~Started(t) /\ ~Cancelled(t) /\ ~Raises(t)
  <2>1. ~Goes(t, [job[t] EXCEPT !.pc = "lost", !.cancelled = FALSE])
    <3> DEFINE k == [job[t] EXCEPT !.pc = "lost", !.cancelled = FALSE]
    <3>1. k.pc = "lost"
      BY <1>0 DEF Job
    <3> HIDE DEF k
    <3>2. Goes(t, k) => job'[t] = k
      BY <1>0 DEF Goes
    <3>3. "lost" \notin CallLabels
      BY DEF CallLabels
    <3> QED
      BY <3>1, <3>2, <3>3 DEF Calls, k
  <2> QED
    BY <1>7, <1>8, <2>1 DEF Started, Cancelled, Raises, CallLabels
<1>11. CASE Script(t)
  <2>1. ~Noted(t)
    <3> DEFINE k == [job[t] EXCEPT !.pc = "step", !.i = @ + 1, !.left = job[t].tries]
    <3>1. k.pc = "step" /\ (Noted(t) => Goes(t, k))
      BY <1>0 DEF Noted, Job
    <3> HIDE DEF k
    <3>2. Goes(t, k) => job'[t] = k
      BY <1>0 DEF Goes
    <3>3. "step" \notin CallLabels
      BY DEF CallLabels
    <3> QED
      BY <3>1, <3>2, <3>3 DEF Calls
  <2>2. ~ScriptToolReturns(t)
    <3>1. ~Goes(t, [job[t] EXCEPT !.pc = "retrying", !.left = @ - 1])
      <4> DEFINE k == [job[t] EXCEPT !.pc = "retrying", !.left = @ - 1]
      <4>1. k.pc = "retrying"
        BY <1>0 DEF Job
      <4> HIDE DEF k
      <4>2. Goes(t, k) => job'[t] = k
        BY <1>0 DEF Goes
      <4>3. "retrying" \notin CallLabels
        BY DEF CallLabels
      <4> QED
        BY <4>1, <4>2, <4>3 DEF Calls, k
    <3> QED
      BY <1>7, <1>8, <3>1 DEF ScriptToolReturns, CallLabels
  <2>3. PICK label \in {"step", "paused", "retrying"} : At(t, label)
    BY <1>11, <2>1, <2>2 DEF Script, ScriptHead, ScriptWakes, Retries
  <2>4. job[t].mode = "scripted"
    BY <1>0, <1>11, <2>1, <2>2 DEF Script, ScriptHead, ScriptWakes, Retries, At, JobInv,
                                   Budget, Job
  <2> QED
    BY <1>0, <2>3, <2>4 DEF At, Inv, JobInv, GaveUp, Over
<1>12. CASE Guided(t)
  <2>1. ~Rested(t)
    BY <1>8 DEF Rested, CallLabels
  <2>2. PICK label \in {"step", "paused", "recovering", "seeing", "tool"} : At(t, label)
    BY <1>12, <2>1 DEF Guided, GuidedHead, GuidedWakes, Recovered, Seen, GuidedToolReturns
  <2>3. t \notin cut
    BY <2>2 DEF At, Inv, Over
  <2>4. SUFFICES ASSUME job[t].complete PROVE FALSE
    BY <2>3
  <2>5. job[t].pc = "step" \/ (job[t].pc = "seeing" /\ job[t].looping)
    BY <1>0, <2>2, <2>4 DEF At, JobInv, GaveUp, Over
  <2>6. GuidedHead(t) \/ Seen(t)
    BY <1>12, <2>1, <2>5 DEF Guided, GuidedWakes, Recovered, GuidedToolReturns, At
  <2>7. CASE GuidedHead(t)
    BY <1>8, <2>4, <2>7 DEF GuidedHead, Leaves, CallLabels
  <2>8. CASE Seen(t)
    BY <1>7, <1>8, <2>5, <2>8 DEF Seen, At, CallLabels
  <2> QED
    BY <2>6, <2>7, <2>8
<1> QED
  BY <1>5, <1>6, <1>9, <1>10, <1>11, <1>12 DEF TaskStep

(* A task that has its outcome acts on the host no more, nor does a background *)
(* task that abort_current has cancelled.                                     *)
THEOREM CallsWanted == Spec => CallsAreWanted
<1>1. Init => Inv
  BY InvInit
<1>2. Inv /\ [Next]_vars => Inv'
  BY InvStep
<1>3. Inv /\ [Next]_vars => [\A t \in Tasks : Calls(t) => ~job[t].complete /\ t \notin cut]_vars
  BY CallsAwake
<1> QED
  BY <1>1, <1>2, <1>3, PTL DEF Spec, CallsAreWanted

-----------------------------------------------------------------------------
(* One task at a time.                                                        *)

Gone == {"none", "done"}

(* Unless a task was started early, _current_task is the task that has not    *)
(* left the executor, and _current_context its own.                           *)
Alone ==
  ~early => \A t \in Tasks :
    /\ job[t].pc \notin Gone <=> current = t
    /\ job[t].pc \notin {"none", "created", "done", "lost"} => context = t

(* What a step of the coroutine of t does, other than the first and the last: *)
(* it moves t, and leaves the executor as it is.                              *)
Walks(t) ==
  /\ UNCHANGED Executor
  /\ \A u \in Tasks : u # t => job'[u] = job[u]
  /\ job[t].pc \notin {"none", "done", "lost"} /\ job'[t].pc \notin {"none", "created", "done"}
  /\ job[t].pc = "created" => job'[t].pc = "lost"

LEMMA GoesWalks ==
  ASSUME Inv, NEW t \in Tasks, NEW j, Goes(t, j), job[t].pc \notin {"none", "done", "lost"},
         j.pc \notin {"none", "created", "done"}, job[t].pc = "created" => j.pc = "lost"
  PROVE  Walks(t)
BY DEF Inv, TypeOK, Goes, Walks

LEMMA MovesWalks ==
  ASSUME Inv, NEW t \in Tasks, NEW label \in Labels \ {"none", "created", "done"},
         Goes(t, [job[t] EXCEPT !.pc = label]), job[t].pc \notin {"none", "created", "done", "lost"}
  PROVE  Walks(t)
<1> DEFINE j == [job[t] EXCEPT !.pc = label]
<1>1. j.pc = label /\ Goes(t, j)
  BY DEF Inv, TypeOK, Job
<1> HIDE DEF j
<1> QED
  BY <1>1, GoesWalks

LEMMA EndsWalks ==
  ASSUME Inv, NEW t \in Tasks, NEW outcome \in States, Ends(t, outcome),
         job[t].pc \notin {"none", "created", "done", "lost"}
  PROVE  Walks(t)
<1> DEFINE j == Ended(job[t], outcome)
<1>1. j.pc = "ended" /\ Goes(t, j)
  BY EndedFacts DEF Inv, TypeOK, Ends
<1> HIDE DEF j
<1> QED
  BY <1>1, GoesWalks

LEMMA AskedWalks ==
  ASSUME Inv, NEW t \in Tasks, Asked(t), job[t].pc \notin {"none", "created", "done", "lost"}
  PROVE  Walks(t)
<1>1. CASE Ends(t, "failed")
  BY <1>1, EndsWalks DEF States
<1>2. CASE Goes(t, [job[t] EXCEPT !.pc = "tool", !.verdict = "free"])
  <2> DEFINE j == [job[t] EXCEPT !.pc = "tool", !.verdict = "free"]
  <2>1. j.pc = "tool" /\ Goes(t, j)
    BY <1>2 DEF Inv, TypeOK, Job
  <2> HIDE DEF j
  <2> QED
    BY <2>1, GoesWalks
<1> QED
  BY <1>1, <1>2 DEF Asked

LEMMA AttemptWalks ==
  ASSUME Inv, NEW t \in Tasks, Attempt(t), job[t].pc \notin {"none", "created", "done", "lost"}
  PROVE  Walks(t)
BY EndsWalks, AskedWalks DEF Attempt, States

LEMMA ScriptWalks ==
  ASSUME Inv, NEW t \in Tasks, Script(t)
  PROVE  Walks(t)
<1>1. job[t].pc \in {"step", "paused", "tool", "retrying", "noting"} /\ job[t] \in Job
  BY DEF Script, ScriptHead, ScriptWakes, ScriptToolReturns, Retries, Noted, At, Inv, TypeOK
<1>2. ASSUME NEW outcome \in States, Ends(t, outcome) PROVE Walks(t)
  BY <1>1, <1>2, EndsWalks
<1>3. ASSUME NEW label \in Labels \ {"none", "created", "done"},
             Goes(t, [job[t] EXCEPT !.pc = label])
      PROVE  Walks(t)
  BY <1>1, <1>3, MovesWalks
<1>4. ASSUME Attempt(t) PROVE Walks(t)
  BY <1>1, <1>4, AttemptWalks
<1>5. CASE ScriptToolReturns(t)
  <2>1. CASE Goes(t, [job[t] EXCEPT !.pc = "retrying", !.left = @ - 1])
    <3> DEFINE j == [job[t] EXCEPT !.pc = "retrying", !.left = @ - 1]
    <3>1. j.pc = "retrying" /\ Goes(t, j)
      BY <1>1, <2>1 DEF Job
    <3> HIDE DEF j
    <3> QED
      BY <1>1, <3>1, GoesWalks
  <2> QED
    BY <1>2, <1>3, <1>5, <2>1 DEF ScriptToolReturns, States, Labels, NotifyLabels
<1>6. CASE Noted(t)
  <2> DEFINE j == [job[t] EXCEPT !.pc = "step", !.i = @ + 1, !.left = job[t].tries]
  <2>1. j.pc = "step" /\ Goes(t, j)
    BY <1>1, <1>6 DEF Job, Noted
  <2> HIDE DEF j
  <2> QED
    BY <1>1, <2>1, GoesWalks
<1>7. CASE ScriptHead(t)
  BY <1>2, <1>3, <1>4, <1>7 DEF ScriptHead, States, Labels, SleepLabels
<1> QED
  BY <1>4, <1>5, <1>6, <1>7 DEF Script, ScriptWakes, Retries

LEMMA GoesOnWalks ==
  ASSUME Inv, NEW t \in Tasks, GuidedGoesOn(t), job[t].pc \in {"step", "paused"}
  PROVE  Walks(t)
<1>1. job[t] \in Job
  BY DEF Inv, TypeOK
<1>2. CASE Goes(t, [job[t] EXCEPT !.pc = "seeing", !.looping = FALSE])
  <2> DEFINE j == [job[t] EXCEPT !.pc = "seeing", !.looping = FALSE]
  <2>1. j.pc = "seeing" /\ Goes(t, j)
    BY <1>1, <1>2 DEF Job
  <2> HIDE DEF j
  <2> QED
    BY <2>1, GoesWalks
<1>3. CASE Goes(t, [job[t] EXCEPT !.pc = "recovering", !.left = RecoveryActions,
                                  !.verdict = "unasked"])
  <2> DEFINE j == [job[t] EXCEPT !.pc = "recovering", !.left = RecoveryActions,
                                 !.verdict = "unasked"]
  <2>1. j.pc = "recovering" /\ Goes(t, j)
    BY <1>1, <1>3 DEF Job
  <2> HIDE DEF j
  <2> QED
    BY <2>1, GoesWalks
<1>4. CASE Goes(t, [Ended(job[t], "failed") EXCEPT !.pc = "seeing", !.looping = TRUE])
  <2> DEFINE e == Ended(job[t], "failed")
             j == [e EXCEPT !.pc = "seeing", !.looping = TRUE]
  <2>1. e \in Job /\ Goes(t, j)
    BY <1>1, <1>4, EndedFacts DEF States
  <2> HIDE DEF e
  <2>2. j.pc = "seeing"
    BY <2>1 DEF Job
  <2> HIDE DEF j
  <2> QED
    BY <2>1, <2>2, GoesWalks
<1>5. CASE Ends(t, "failed")
  BY <1>5, EndsWalks DEF States
<1> QED
  BY <1>2, <1>3, <1>4, <1>5 DEF GuidedGoesOn

LEMMA RecoveredWalks ==
  ASSUME Inv, NEW t \in Tasks, Recovered(t)
  PROVE  Walks(t)
<1>1. job[t] \in Job /\ job[t].pc = "recovering"
  BY DEF Inv, TypeOK, Recovered, At
<1> DEFINE j == [job[t] EXCEPT !.recorded = @ + 1]
<1>2. j.pc = "recovering" /\ j \in Job
  BY <1>1 DEF Job
<1>3. \/ Goes(t, [j EXCEPT !.left = @ - 1])
      \/ Goes(t, [j EXCEPT !.pc = "resting", !.recovered = @ + 1])
      \/ Goes(t, Ended(j, "failed"))
  BY DEF Recovered
<1> HIDE DEF j
<1>4. CASE Goes(t, [j EXCEPT !.left = @ - 1])
  <2> DEFINE k == [j EXCEPT !.left = @ - 1]
  <2>1. k.pc = "recovering" /\ Goes(t, k)
    BY <1>2, <1>4 DEF Job
  <2> HIDE DEF k
  <2> QED
    BY <1>1, <2>1, GoesWalks
<1>5. CASE Goes(t, [j EXCEPT !.pc = "resting", !.recovered = @ + 1])
  <2> DEFINE k == [j EXCEPT !.pc = "resting", !.recovered = @ + 1]
  <2>1. k.pc = "resting" /\ Goes(t, k)
    BY <1>2, <1>5 DEF Job
  <2> HIDE DEF k
  <2> QED
    BY <1>1, <2>1, GoesWalks
<1>6. CASE Goes(t, Ended(j, "failed"))
  <2>1. Ended(j, "failed").pc = "ended"
    BY <1>2, EndedFacts DEF States
  <2> QED
    BY <1>1, <1>6, <2>1, GoesWalks
<1> QED
  BY <1>3, <1>4, <1>5, <1>6

LEMMA GuidedToolWalks ==
  ASSUME Inv, NEW t \in Tasks, GuidedToolReturns(t)
  PROVE  Walks(t)
<1>1. job[t] \in Job /\ job[t].pc = "tool"
  BY DEF Inv, TypeOK, GuidedToolReturns, At
<1>2. CASE Goes(t, [job[t] EXCEPT !.pc = "resting", !.recorded = @ + 1])
  <2> DEFINE k == [job[t] EXCEPT !.pc = "resting", !.recorded = @ + 1]
  <2>1. k.pc = "resting" /\ Goes(t, k)
    BY <1>1, <1>2 DEF Job
  <2> HIDE DEF k
  <2> QED
    BY <1>1, <2>1, GoesWalks
<1>3. CASE Goes(t, [Ended(job[t], "failed") EXCEPT !.recorded = @ + 1])
  <2> DEFINE e == Ended(job[t], "failed")
             k == [e EXCEPT !.recorded = @ + 1]
  <2>1. e \in Job /\ e.pc = "ended" /\ Goes(t, k)
    BY <1>1, <1>3, EndedFacts DEF States
  <2> HIDE DEF e
  <2>2. k.pc = "ended"
    BY <2>1 DEF Job
  <2> HIDE DEF k
  <2> QED
    BY <1>1, <2>1, <2>2, GoesWalks
<1> QED
  BY <1>2, <1>3 DEF GuidedToolReturns

LEMMA GuidedWalks ==
  ASSUME Inv, NEW t \in Tasks, Guided(t)
  PROVE  Walks(t)
<1>1. CASE GuidedHead(t)
  <2>1. job[t].pc = "step"
    BY <1>1 DEF GuidedHead, At
  <2>2. CASE Leaves(t)
    BY <2>1, <2>2, MovesWalks DEF Leaves, Labels, NotifyLabels
  <2>3. CASE Ends(t, "aborted")
    BY <2>1, <2>3, EndsWalks DEF States
  <2>4. CASE Goes(t, [job[t] EXCEPT !.pc = "paused"])
    BY <2>1, <2>4, MovesWalks DEF Labels, SleepLabels
  <2> QED
    BY <1>1, <2>1, <2>2, <2>3, <2>4, GoesOnWalks DEF GuidedHead
<1>2. CASE GuidedWakes(t)
  BY <1>2, GoesOnWalks DEF GuidedWakes, At
<1>3. CASE Seen(t)
  <2>1. job[t].pc = "seeing"
    BY <1>3 DEF Seen, At
  <2> QED
    BY <1>3, <2>1, EndsWalks, MovesWalks, AskedWalks DEF Seen, States, Labels, SleepLabels, CallLabels
<1>4. CASE Rested(t)
  BY <1>4, MovesWalks DEF Rested, At, Labels
<1> QED
  BY <1>1, <1>2, <1>3, <1>4, RecoveredWalks, GuidedToolWalks DEF Guided

LEMMA TaskWalks ==
  ASSUME Inv, NEW t \in Tasks, TaskStep(t)
  PROVE  Begin(t) \/ Finished(t) \/ Walks(t)
<1>1. CASE Started(t)
  BY <1>1, MovesWalks DEF Started, At, Labels
<1>2. CASE Cancelled(t)
  <2>1. CASE /\ job[t].pc \in {"created", "starting", "ended"}
             /\ Goes(t, [job[t] EXCEPT !.pc = "lost", !.cancelled = FALSE])
    <3> DEFINE j == [job[t] EXCEPT !.pc = "lost", !.cancelled = FALSE]
    <3>1. j.pc = "lost" /\ Goes(t, j)
      BY <2>1 DEF Inv, TypeOK, Job
    <3> HIDE DEF j
    <3> QED
      BY <2>1, <3>1, GoesWalks
  <2>2. CASE /\ job[t].pc \in SleepLabels \cup CallLabels \cup {"noting", "seeing"}
             /\ Ends(t, "aborted")
    BY <2>2, EndsWalks DEF States, SleepLabels, CallLabels
  <2> QED
    BY <1>2, <2>1, <2>2 DEF Cancelled
<1>3. CASE Raises(t)
  BY <1>3, EndsWalks DEF Raises, At, CallLabels, States
<1> QED
  BY <1>1, <1>2, <1>3, ScriptWalks, GuidedWalks DEF TaskStep

(* The handlers other than those that start a task leave every coroutine       *)
(* where it is suspended.                                                     *)
Rests ==
  /\ \A t \in Tasks : job'[t].pc = job[t].pc
  /\ UNCHANGED <<current, context, early>>

LEMMA AbortRests == ASSUME Inv, AbortCurrent PROVE Rests
<1>1. ASSUME NEW t \in Tasks PROVE job'[t].pc = job[t].pc
  <2> DEFINE k == [job[t] EXCEPT !.cancelled = TRUE]
  <2>1. k.pc = job[t].pc
    BY DEF Inv, TypeOK, Job
  <2>2. job'[t] \in {k, job[t]}
    BY DEF AbortCurrent
  <2> HIDE DEF k
  <2> QED
    BY <2>1, <2>2
<1> QED
  BY <1>1 DEF Rests, AbortCurrent

LEMMA PauseRests == ASSUME Inv, PauseCurrent \/ ResumeCurrent PROVE Rests /\ cut' = cut
<1>1. ASSUME NEW t \in Tasks PROVE job'[t].pc = job[t].pc
  BY DEF PauseCurrent, ResumeCurrent, Inv, TypeOK, Job
<1> QED
  BY <1>1 DEF Rests, PauseCurrent, ResumeCurrent, Executor

(* The three steps that take or leave the executor.                           *)
LEMMA StartsTask ==
  ASSUME Inv, NEW t \in Tasks, RunSkill(t) \/ RunSkillAsync(t)
  PROVE  /\ job[t].pc = "none" /\ job'[t].pc \in {"starting", "created"}
         /\ \A u \in Tasks : u # t => job'[u] = job[u]
         /\ current' = t /\ (job'[t].pc = "starting" => context' = t)
         /\ early' = (early \/ current # NoTask) /\ cut' = cut
<1>1. PICK skill \in Skills, label \in {"starting", "created"} :
        /\ job' = [job EXCEPT ![t] = Fresh(skill, label)]
        /\ label = "starting" => context' = t
  BY DEF RunSkill, RunSkillAsync
<1>2. Fresh(skill, label).pc = label
  BY FreshFacts
<1>3. job'[t].pc = label /\ \A u \in Tasks : u # t => job'[u] = job[u]
  BY <1>1, <1>2 DEF Inv, TypeOK
<1> QED
  BY <1>1, <1>3 DEF RunSkill, RunSkillAsync, Starts

LEMMA TakesExecutor ==
  ASSUME Inv, NEW t \in Tasks, Begin(t) \/ Finished(t)
  PROVE  /\ \/ /\ job[t].pc = "created" /\ job'[t].pc = "starting"
               /\ current' = t /\ context' = t
            \/ /\ job[t].pc = "ended" /\ job'[t].pc = "done"
               /\ current' = NoTask /\ context' = NoTask
         /\ \A u \in Tasks : u # t => job'[u] = job[u]
         /\ early' = early /\ cut' = cut
BY DEF Begin, Finished, At, Inv, TypeOK, Job

LEMMA AloneStep == ASSUME Inv, Alone, [Next]_vars PROVE Alone'
<1> SUFFICES ASSUME ~early'
             PROVE  \A t \in Tasks :
                      /\ job'[t].pc \notin Gone <=> current' = t
                      /\ job'[t].pc \notin {"none", "created", "done", "lost"} => context' = t
  BY DEF Alone
<1>0. NoTask \notin Tasks
  BY SkillConstantsOK
<1>1. CASE UNCHANGED vars
  BY <1>1 DEF vars, Alone
<1>2. CASE Rests
  BY <1>2 DEF Rests, Alone
<1>3. ASSUME NEW t \in Tasks, RunSkill(t) \/ RunSkillAsync(t) PROVE Alone'
  <2>1. early = FALSE /\ current = NoTask
    BY <1>3, StartsTask DEF Inv, TypeOK
  <2>2. \A u \in Tasks : job[u].pc \in Gone
    BY <1>0, <2>1 DEF Alone
  <2> QED
    BY <1>0, <1>3, <2>2, StartsTask DEF Alone, Gone
<1>4. ASSUME NEW t \in Tasks, Begin(t) \/ Finished(t) PROVE Alone'
  <2>1. ~early
    BY <1>4, TakesExecutor
  <2>2. current = t
    BY <1>4, <2>1, TakesExecutor DEF Alone, Gone
  <2>3. \A u \in Tasks : u # t => job[u].pc \in Gone
    BY <2>1, <2>2 DEF Alone
  <2> QED
    BY <1>0, <1>4, <2>2, <2>3, TakesExecutor DEF Alone, Gone
<1>5. ASSUME NEW t \in Tasks, Walks(t) PROVE Alone'
  <2>1. ~early /\ UNCHANGED <<current, context, early>>
    BY <1>5 DEF Walks, Executor
  <2>2. current = t /\ \A u \in Tasks : u # t => job[u].pc \in Gone
    BY <1>5, <2>1 DEF Alone, Gone, Walks
  <2> QED
    BY <1>5, <2>1, <2>2 DEF Alone, Gone, Walks
<1> QED
  BY <1>1, <1>2, <1>3, <1>4, <1>5, AbortRests, PauseRests, TaskWalks DEF Next, Alone

LEMMA AloneInit == ASSUME Init PROVE Alone
<1>1. NoTask \notin Tasks /\ current = NoTask
  BY SkillConstantsOK DEF Init
<1>2. \A t \in Tasks : job[t].pc = "none"
  BY DEF Init, Fresh
<1> QED
  BY <1>1, <1>2 DEF Alone, Gone

(* Unless a task was started early, one task at a time runs, and the executor  *)
(* points to it.                                                              *)
THEOREM TasksAlone == Spec => []TaskIsAlone
<1>1. Init => Inv /\ Alone
  BY InvInit, AloneInit
<1>2. Inv /\ Alone /\ [Next]_vars => (Inv /\ Alone)'
  BY InvStep, AloneStep
<1>3. Alone => TaskIsAlone
  BY DEF Alone, TaskIsAlone, Gone
<1> QED
  BY <1>1, <1>2, <1>3, PTL DEF Spec

-----------------------------------------------------------------------------
(* The lease on the host.                                                     *)

LEMMA PhaseKept ==
  ASSUME NEW t \in Tasks, \A u \in Tasks : u # t => job'[u].pc = job[u].pc,
         job[t].pc \notin Gone, job'[t].pc \notin Gone
  PROVE  Phases' = Phases
<1>1. \A u \in Tasks : Phase(u)' = Phase(u)
  BY DEF Phase, Gone
<1> QED
  BY <1>1 DEF Phases

LEMMA PhaseMoves ==
  ASSUME NEW t \in Tasks, \A u \in Tasks : u # t => job'[u].pc = job[u].pc, NEW p, Phase(t)' = p
  PROVE  Phases' = [Phases EXCEPT ![t] = p]
<1>1. \A u \in Tasks : u # t => Phase(u)' = Phase(u)
  BY DEF Phase
<1> QED
  BY <1>1 DEF Phases

LEMMA InFlightIs ==
  ASSUME Alone, ~early, NEW t \in Tasks, current = t
  PROVE  /\ job[t].pc \in CallLabels => InFlight = {<<t, CallOf(t), job[t].verdict>>}
         /\ job[t].pc \notin CallLabels => InFlight = {}
<1>1. \A u \in Tasks : job[u].pc \in CallLabels => u = t
  BY DEF Alone, Gone, CallLabels
<1> QED
  BY <1>1 DEF InFlight

(* A task that was cancelled goes on to no call.                               *)
LEMMA CutStops ==
  ASSUME Inv, NEW t \in cut, TaskStep(t)
  PROVE  job'[t].pc \notin CallLabels
<1>1. /\ t \in Tasks /\ job \in [Tasks -> Job] /\ job[t] \in Job
      /\ job[t].cancelled \/ job[t].pc \in Over
  BY DEF Inv, TypeOK
<1>2. CASE Cancelled(t)
  <2>1. CASE Goes(t, [job[t] EXCEPT !.pc = "lost", !.cancelled = FALSE])
    <3> DEFINE j == [job[t] EXCEPT !.pc = "lost", !.cancelled = FALSE]
    <3>1. j.pc = "lost"
      BY <1>1 DEF Job
    <3>2. job'[t] = j
      BY <1>1, <2>1 DEF Goes
    <3> HIDE DEF j
    <3> QED
      BY <3>1, <3>2 DEF CallLabels
  <2>2. CASE Ends(t, "aborted")
    <3> DEFINE j == Ended(job[t], "aborted")
    <3>1. j.pc = "ended"
      BY <1>1, EndedFacts DEF States
    <3>2. job'[t] = j
      BY <1>1, <2>2 DEF Ends, Goes
    <3> HIDE DEF j
    <3> QED
      BY <3>1, <3>2 DEF CallLabels
  <2> QED
    BY <1>2, <2>1, <2>2 DEF Cancelled
<1>3. CASE Finished(t)
  BY <1>1, <1>3 DEF Finished, CallLabels, Job
<1>4. CASE ~Cancelled(t) /\ ~Finished(t)
  <2>1. PICK label \in {"created", "starting", "step", "paused", "tool", "retrying", "noting",
                        "recovering", "seeing", "resting"} : At(t, label)
    BY <1>4 DEF TaskStep, Begin, Started, Raises, CallLabels, Script, Guided, ScriptHead,
      ScriptWakes, ScriptToolReturns, Retries, Noted, GuidedHead, GuidedWakes, Recovered, Seen,
      GuidedToolReturns, Rested
  <2> QED
    BY <1>1, <2>1 DEF At, Over
<1> QED
  BY <1>2, <1>3, <1>4

LEMMA NothingInFlight ==
  ASSUME Alone, ~early, current = NoTask
  PROVE  InFlight = {}
<1>1. \A u \in Tasks : job[u].pc \notin CallLabels
  BY SkillConstantsOK DEF Alone, Gone, CallLabels
<1> QED
  BY <1>1 DEF InFlight

(* Those handlers leave the call in flight what it is, too.                   *)
Same == \A t \in Tasks : /\ job'[t].pc = job[t].pc /\ job'[t].left = job[t].left
                         /\ job'[t].verdict = job[t].verdict

LEMMA AbortSame == ASSUME Inv, AbortCurrent PROVE Same
<1>1. ASSUME NEW t \in Tasks
      PROVE  /\ job'[t].pc = job[t].pc /\ job'[t].left = job[t].left
             /\ job'[t].verdict = job[t].verdict
  <2> DEFINE k == [job[t] EXCEPT !.cancelled = TRUE]
  <2>1. k.pc = job[t].pc /\ k.left = job[t].left /\ k.verdict = job[t].verdict
    BY DEF Inv, TypeOK, Job
  <2>2. job'[t] \in {k, job[t]}
    BY DEF AbortCurrent
  <2> HIDE DEF k
  <2> QED
    BY <2>1, <2>2
<1> QED
  BY <1>1 DEF Same

LEMMA PauseSame == ASSUME Inv, PauseCurrent \/ ResumeCurrent PROVE Same
<1>1. ASSUME NEW t \in Tasks
      PROVE  /\ job'[t].pc = job[t].pc /\ job'[t].left = job[t].left
             /\ job'[t].verdict = job[t].verdict
  BY DEF PauseCurrent, ResumeCurrent, Inv, TypeOK, Job
<1> QED
  BY <1>1 DEF Same

LEMMA RestsLease == ASSUME Same PROVE Phases' = Phases /\ InFlight' = InFlight
<1>1. \A t \in Tasks : Phase(t)' = Phase(t) /\ CallOf(t)' = CallOf(t)
  BY DEF Same, Phase, CallOf
<1>2. Phases' = Phases
  BY <1>1 DEF Phases
<1>3. \A t \in Tasks : job'[t].pc = job[t].pc /\ job'[t].verdict = job[t].verdict
  BY DEF Same
<1> HIDE DEF CallOf
<1>4. InFlight' = InFlight
  BY <1>1, <1>3 DEF InFlight
<1> QED
  BY <1>2, <1>4

LEMMA LeaseAbort ==
  ASSUME Inv, Alone, ~early, AbortCurrent
  PROVE  Lease!LeaseNext \/ UNCHANGED Lease!lease
<1>1. Rests
  BY AbortRests
<1>2. Phases' = Phases /\ InFlight' = InFlight /\ current' = current
  BY <1>1, AbortSame, RestsLease DEF Rests
<1>3. PICK hit : /\ cut' = cut \cup hit
                 /\ hit = {t \in {handle} \ {NoTask} : job[t].pc \notin {"done", "lost"}}
  BY DEF AbortCurrent
<1>4. CASE hit = {}
  BY <1>2, <1>3, <1>4 DEF Lease!lease
<1>5. CASE hit # {}
  <2>1. handle \in Tasks /\ job[handle].pc \notin Gone /\ hit = {handle}
    BY <1>3, <1>5 DEF Inv, TypeOK, Gone
  <2>2. current = handle
    BY <2>1 DEF Alone
  <2>3. Lease!Tell(handle)
    BY <1>2, <1>3, <2>1, <2>2 DEF Lease!Tell
  <2> QED
    BY <2>1, <2>3 DEF Lease!LeaseNext
<1> QED
  BY <1>4, <1>5

LEMMA LeaseStart ==
  ASSUME Inv, Alone, ~early, Alone', ~early', NEW t \in Tasks, RunSkill(t) \/ RunSkillAsync(t)
  PROVE  Lease!LeaseNext
<1>1. /\ job[t].pc = "none" /\ job'[t].pc \in {"starting", "created"}
      /\ \A u \in Tasks : u # t => job'[u] = job[u]
      /\ current' = t /\ early' = (early \/ current # NoTask) /\ cut' = cut
  BY StartsTask
<1>2. current = NoTask
  BY <1>1
<1>3. InFlight = {}
  BY <1>2, NothingInFlight
<1>4. InFlight' = {}
  <2>1. \A u \in Tasks : job'[u].pc \notin CallLabels
    BY <1>1, <1>2, SkillConstantsOK DEF Alone, Gone, CallLabels
  <2> QED
    BY <2>1 DEF InFlight
<1>5. Phases[t] = "idle" /\ Phases' = [Phases EXCEPT ![t] = "active"]
  BY <1>1, PhaseMoves DEF Phases, Phase
<1>6. Lease!Acquire(t)
  BY <1>1, <1>2, <1>3, <1>4, <1>5 DEF Lease!Acquire
<1> QED
  BY <1>6 DEF Lease!LeaseNext

LEMMA LeaseTakes ==
  ASSUME Inv, Alone, ~early, NEW t \in Tasks, Begin(t) \/ Finished(t)
  PROVE  Lease!LeaseNext \/ UNCHANGED Lease!lease
<1>1. current = t /\ job[t].pc \in {"created", "ended"}
  BY TakesExecutor DEF Alone, Gone
<1>2. InFlight = {}
  BY <1>1, InFlightIs DEF CallLabels
<1>3. \A u \in Tasks : job'[u].pc \notin CallLabels
  BY <1>1, TakesExecutor DEF Alone, Gone, CallLabels
<1>4. InFlight' = {}
  BY <1>3 DEF InFlight
<1>5. CASE job[t].pc = "created"
  <2>1. job'[t].pc = "starting" /\ current' = t /\ cut' = cut
    BY <1>5, TakesExecutor
  <2>2. Phases' = Phases
    BY <1>5, <2>1, TakesExecutor, PhaseKept DEF Gone
  <2> QED
    BY <1>1, <1>2, <1>4, <2>1, <2>2 DEF Lease!lease
<1>6. CASE job[t].pc = "ended"
  <2>1. job'[t].pc = "done" /\ current' = NoTask /\ cut' = cut
    BY <1>6, TakesExecutor
  <2>2. Phase(t)' = "ended"
    BY <2>1 DEF Phase
  <2>3. Phases' = [Phases EXCEPT ![t] = "ended"]
    BY <2>2, TakesExecutor, PhaseMoves
  <2>4. Lease!Release(t)
    BY <1>1, <1>4, <2>1, <2>3 DEF Lease!Release
  <2> QED
    BY <2>4 DEF Lease!LeaseNext
<1> QED
  BY <1>1, <1>5, <1>6

LEMMA LeaseWalk ==
  ASSUME Inv, Inv', Alone, ~early, Alone', ~early', NEW t \in Tasks, TaskStep(t), Walks(t)
  PROVE  Lease!LeaseNext \/ UNCHANGED Lease!lease
<1>1. current = t /\ current' = t /\ cut' = cut
  BY DEF Walks, Executor, Alone, Gone
<1>2. Phases' = Phases
  BY PhaseKept DEF Walks, Gone
<1>3. \A u \in Tasks : u # t => job'[u].pc \notin CallLabels
  BY <1>1 DEF Walks, Alone, Gone, CallLabels
<1>4. job'[t].pc \notin CallLabels => InFlight' = {}
  BY <1>3 DEF InFlight
<1>5. job'[t].pc \in CallLabels => InFlight' = {<<t, CallOf(t)', job'[t].verdict>>}
  BY <1>3 DEF InFlight
<1>6. CASE job'[t].pc \notin CallLabels
  <2>1. Lease!Return
    BY <1>1, <1>2, <1>4, <1>6 DEF Lease!Return
  <2> QED
    BY <2>1 DEF Lease!LeaseNext
<1>7. CASE job'[t].pc \in CallLabels
  <2>1. \A c \in InFlight : c[1] = t
    BY <1>1, InFlightIs
  <2>2. (job[t].pc \in CallLabels)' /\ JobInv(job[t])'
    BY <1>7 DEF Inv
  <2>3. \/ CallOf(t)' \in Recovery /\ job'[t].verdict = "unasked"
        \/ CallOf(t)' = <<"step", 0>> /\ job'[t].verdict = "free"
    <3>1. CASE job'[t].pc = "recovering"
      BY <2>2, <3>1 DEF JobInv, Licensed, CallOf, Recovery
    <3>2. CASE job'[t].pc = "tool"
      BY <2>2, <3>2 DEF JobInv, Licensed, CallOf
    <3> QED
      BY <2>2, <3>1, <3>2 DEF CallLabels
  <2>4. t \notin cut
    BY <1>7, CutStops
  <2>5. Lease!CallHost(t, CallOf(t)', job'[t].verdict)
    BY <1>1, <1>2, <1>5, <1>7, <2>1, <2>3, <2>4 DEF Lease!CallHost
  <2> QED
    BY <2>3, <2>5 DEF Lease!LeaseNext
<1> QED
  BY <1>6, <1>7

(* Patient callers start nothing early.                                       *)
LEMMA StaysPatient ==
  ASSUME Inv, Alone, ~early, [Next]_vars, [Patient]_vars
  PROVE  ~early'
<1>1. CASE UNCHANGED vars
  BY <1>1 DEF vars
<1>2. CASE Next /\ Patient
  <2>1. ASSUME NEW t \in Tasks, RunSkill(t) \/ RunSkillAsync(t) PROVE ~early'
    <3>1. /\ job[t].pc = "none" /\ current' = t
          /\ early' = (early \/ current # NoTask)
      BY <2>1, StartsTask
    <3>2. current # t /\ t # NoTask
      BY <3>1, SkillConstantsOK DEF Alone, Gone
    <3>3. current = NoTask
      BY <1>2, <3>1, <3>2 DEF Patient
    <3> QED
      BY <3>1, <3>3
  <2>2. ASSUME NEW t \in Tasks, TaskStep(t) PROVE ~early'
    BY <2>2, TaskWalks, TakesExecutor DEF Walks, Executor
  <2> QED
    BY <1>2, <2>1, <2>2, AbortRests, PauseRests DEF Next, Rests
<1> QED
  BY <1>1, <1>2

LEMMA LeaseStep ==
  ASSUME Inv, Inv', Alone, ~early, Alone', ~early', [Next]_vars
  PROVE  [Lease!LeaseNext]_(Lease!lease)
<1>1. CASE UNCHANGED vars
  <2>1. Phases' = Phases /\ InFlight' = InFlight /\ current' = current /\ cut' = cut
    BY <1>1 DEF vars, Phases, Phase, InFlight, CallOf
  <2> QED
    BY <2>1 DEF Lease!lease
<1>2. CASE PauseCurrent \/ ResumeCurrent
  <2>1. Rests /\ cut' = cut
    BY <1>2, PauseRests
  <2>2. Phases' = Phases /\ InFlight' = InFlight /\ current' = current
    BY <1>2, <2>1, PauseSame, RestsLease DEF Rests
  <2> QED
    BY <2>1, <2>2 DEF Lease!lease
<1>3. CASE AbortCurrent
  BY <1>3, LeaseAbort
<1>4. ASSUME NEW t \in Tasks, RunSkill(t) \/ RunSkillAsync(t)
      PROVE  [Lease!LeaseNext]_(Lease!lease)
  BY <1>4, LeaseStart
<1>5. ASSUME NEW t \in Tasks, TaskStep(t)
      PROVE  [Lease!LeaseNext]_(Lease!lease)
  BY <1>5, TaskWalks, LeaseTakes, LeaseWalk
<1> QED
  BY <1>1, <1>2, <1>3, <1>4, <1>5 DEF Next

LEMMA LeaseBegins == ASSUME Init PROVE Lease!LeaseInit /\ ~early
<1>1. \A t \in Tasks : job[t].pc = "none"
  BY DEF Init, Fresh
<1>2. Phases = [t \in Tasks |-> "idle"]
  BY <1>1 DEF Phases, Phase
<1>3. InFlight = {}
  BY <1>1 DEF InFlight, CallLabels
<1> QED
  BY <1>2, <1>3 DEF Init, Lease!LeaseInit

(* With patient callers skill tasks are a lease on the host, with and without  *)
(* a client and whatever is paused, aborted, retried or recovered: one task at *)
(* a time, one call at a time, none by a task that was cancelled or ended, and  *)
(* none without the policy's leave but the actions of a recovery list, about    *)
(* which _attempt_guided_recovery asks nobody.                                 *)
THEOREM SkillsImplementLease == Spec /\ PatientTasks => IsLease
<1>1. Init => Inv /\ Alone /\ ~early /\ Lease!LeaseInit
  BY InvInit, AloneInit, LeaseBegins
<1>2. Inv /\ Alone /\ ~early /\ [Next]_vars /\ [Patient]_vars => (Inv /\ Alone /\ ~early)'
  BY InvStep, AloneStep, StaysPatient
<1>3. /\ Inv /\ Alone /\ ~early /\ (Inv /\ Alone /\ ~early)' /\ [Next]_vars
      => [Lease!LeaseNext]_(Lease!lease)
  BY LeaseStep
<1> QED
  BY <1>1, <1>2, <1>3, PTL DEF Spec, PatientTasks, IsLease, Lease!LeaseSpec
=============================================================================
