----------------------------- MODULE TaskMemory -----------------------------
(***************************************************************************)
(* What the agent keeps on disk about its tasks and plan runs: RunMemory     *)
(* (memory/run_memory.py) with the ArtifactStore and the FactStore below it, *)
(* written from SemiActiveExecutor._persist_context and from                 *)
(* PlanExecutor._emit_run, and the repair at startup.  Every file is written *)
(* beside its place and moved there, so one write is atomic; a save is       *)
(* several of them, in one stretch of code without an await, and the process *)
(* may die, or a write may raise, between any two.                           *)
(***************************************************************************)
EXTENDS Integers, Sequences, FiniteSets

CONSTANTS
  Tasks, Runs,   \* identifiers of skill tasks and of plan runs
  Nobody,        \* no identifier
  ScanLimit,     \* snapshots the repair looks at: 500
  KeptFailures,  \* failure records kept: 100
  MaxSaves,      \* bound of TLC: clock stops here
  MaxLosses      \* bound of TLC on the writes that raise and the deaths

VARIABLES
  live,      \* the task or run of each identifier in this process
  snapshot,  \* its file
  artifacts, \* the artifact files, in the order they were written
  ledger,    \* FactStore in memory: the facts that name a task or run, the failures
  file,      \* facts.json
  writer,    \* the save or repair going on: whose, and the write that comes next
  clock,     \* the last updated_at
  phase,     \* of the process: down, repairing tasks, repairing runs, serving
  todo,      \* what the repair has still to look at
  losses     \* the writes that raised and the deaths so far

vars == <<live, snapshot, artifacts, ledger, file, writer, clock, phase, todo, losses>>

Sources  == Tasks \cup Runs
Terminal == {"completed", "failed", "aborted"}
States   == {"absent", "running", "paused"} \cup Terminal

(* Any unfinished state of a run is "running" here.  steps: a step was        *)
(* recorded; said: error is not the empty string; ended: the last save.      *)
Held   == [state : States, steps : BOOLEAN, said : BOOLEAN, ended : BOOLEAN]
Saved  == [state : States, steps : BOOLEAN, said : BOOLEAN, at : Nat, artifact : Nat]
Fact   == [of : Sources \cup {Nobody}, state : States]
Ledger == [task : Fact, run : Fact, observed : Sources \cup {Nobody}, failures : Seq(Fact)]
Stages == {"idle", "artifact", "snapshot", "latest", "observed", "failure", "named", "recovered"}

Absent  == [state |-> "absent", steps |-> FALSE, said |-> FALSE, ended |-> FALSE]
NoFact  == [of |-> Nobody, state |-> "absent"]
Idle    == [of |-> Nobody, next |-> "idle", artifact |-> 0]

Unfinished(x) == snapshot[x].state \notin Terminal \cup {"absent"}

-----------------------------------------------------------------------------
(* The executors hand a task or run over to be saved. *)

(* A finished task with steps gets its artifact before its snapshot, a run    *)
(* after it.                                                                 *)
FirstWrite(x, h) ==
  IF x \in Tasks /\ h.state \in Terminal /\ h.steps THEN "artifact" ELSE "snapshot"

Save(x, h) ==
  /\ phase = "serving" /\ writer = Idle
  /\ clock < MaxSaves /\ clock' = clock + 1
  /\ live' = [live EXCEPT ![x] = h]
  /\ writer' = [of |-> x, next |-> FirstWrite(x, h), artifact |-> 0]
  /\ UNCHANGED <<snapshot, artifacts, ledger, file, phase, todo, losses>>

(* run_skill and start_run take a fresh identifier. *)
Begin(x) == /\ live[x] = Absent /\ snapshot[x].state = "absent"
            /\ Save(x, [Absent EXCEPT !.state = "running"])

(* A step is recorded; a task may already be failed then (a guided task whose *)
(* loop detector gave up, a step the policy denies) and is saved once more.  *)
Goes(x) ==
  /\ live[x].state \in {"running", "paused"} /\ ~live[x].ended
  /\ \E state \in {"running", "paused"} \cup (IF x \in Tasks THEN {"failed"} ELSE {}),
        steps \in BOOLEAN, said \in BOOLEAN :
       /\ live[x].steps => steps
       /\ said => state = "failed"
       /\ Save(x, [state |-> state, steps |-> steps, said |-> said, ended |-> FALSE])

(* The last save.  A task that is paused or resumed after it ended is saved   *)
(* as paused or running; one that was saved as failed is never completed.    *)
Ends(x) ==
  /\ live[x].state # "absent" /\ ~live[x].ended
  /\ \E state \in Terminal \cup (IF x \in Tasks THEN {"running", "paused"} ELSE {}),
        said \in BOOLEAN :
       /\ live[x].state = "failed" => state # "completed"
       /\ said => state \in {"failed", "aborted"}
       /\ Save(x, [live[x] EXCEPT !.state = state, !.said = said, !.ended = TRUE])

-----------------------------------------------------------------------------
(* The writes of a save, in their order. *)

Writing(stage) == writer.next = stage

(* What follows the snapshot: the fact about the latest one, those learned    *)
(* from observations, the failure; for a run its artifact, and the snapshot  *)
(* again.                                                                    *)
LastWrite(x)    == IF x \in Runs THEN IF live[x].state \in Terminal THEN "artifact" ELSE "named"
                   ELSE "idle"
FailureWrite(x) == IF live[x].state \in {"failed", "aborted"} /\ live[x].said
                   THEN "failure" ELSE LastWrite(x)

Then(stage) == writer' = IF stage = "idle" THEN Idle ELSE [writer EXCEPT !.next = stage]

(* ArtifactStore.save_json. *)
WriteArtifact ==
  LET x == writer.of
  IN  /\ Writing("artifact")
      /\ artifacts' = Append(artifacts, [of |-> x, state |-> live[x].state])
      /\ writer' = [writer EXCEPT !.artifact = Len(artifacts) + 1,
                                  !.next = IF x \in Runs THEN "named" ELSE "snapshot"]
      /\ UNCHANGED <<live, snapshot, ledger, file, clock, phase, todo, losses>>

WriteSnapshot ==
  LET x == writer.of
  IN  /\ Writing("snapshot") \/ Writing("named")
      /\ snapshot' = [snapshot EXCEPT ![x] =
           [state |-> live[x].state, steps |-> live[x].steps, said |-> live[x].said,
            at |-> clock, artifact |-> writer.artifact]]
      /\ Then(IF Writing("named") THEN "idle" ELSE "latest")
      /\ UNCHANGED <<live, artifacts, ledger, file, clock, phase, todo, losses>>

(* FactStore: the change is made in memory and all of it is written. *)
Learn(new) == /\ ledger' = new /\ file' = new
              /\ UNCHANGED <<live, snapshot, artifacts, clock, phase, losses>>

Latest(x) == IF x \in Tasks
             THEN [ledger EXCEPT !.task = [of |-> x, state |-> live[x].state]]
             ELSE [ledger EXCEPT !.run  = [of |-> x, state |-> live[x].state]]

WriteLatest ==
  LET x == writer.of
  IN  /\ Writing("latest")
      /\ Learn(Latest(x))
      /\ Then(IF live[x].steps THEN "observed" ELSE FailureWrite(x))
      /\ UNCHANGED todo

WriteObserved ==
  LET x == writer.of
  IN  /\ Writing("observed")
      /\ Learn([ledger EXCEPT !.observed = x])
      /\ Then(FailureWrite(x))
      /\ UNCHANGED todo

(* record_failure: the newest first, and only so many are kept. *)
WithFailure(x, state) ==
  LET all == <<[of |-> x, state |-> state]>> \o ledger.failures
  IN  [ledger EXCEPT !.failures =
         SubSeq(all, 1, IF Len(all) < KeptFailures THEN Len(all) ELSE KeptFailures)]

WriteFailure ==
  LET x == writer.of
  IN  /\ Writing("failure")
      /\ Learn(WithFailure(x, live[x].state))
      /\ Then(LastWrite(x))
      /\ UNCHANGED todo

(* A write raises and the executor goes on: _persist_context and _emit_run    *)
(* log what it was, except for the first write of a run.  The facts in memory *)
(* have the change already.                                                  *)
WriteRaises ==
  /\ phase = "serving" /\ writer # Idle
  /\ writer.of \in Runs => ~Writing("snapshot")
  /\ ledger' = CASE Writing("latest")   -> Latest(writer.of)
                 [] Writing("observed") -> [ledger EXCEPT !.observed = writer.of]
                 [] Writing("failure")  -> WithFailure(writer.of, live[writer.of].state)
                 [] OTHER -> ledger
  /\ writer' = Idle
  /\ losses < MaxLosses /\ losses' = losses + 1
  /\ UNCHANGED <<live, snapshot, artifacts, file, clock, phase, todo>>

-----------------------------------------------------------------------------
(* The process dies, and the next one reads what is on disk. *)
Die ==
  /\ phase # "down"
  /\ losses < MaxLosses /\ losses' = losses + 1
  /\ phase' = "down"
  /\ live' = [x \in Sources |-> Absent]
  /\ ledger' = file /\ writer' = Idle /\ todo' = {}
  /\ UNCHANGED <<snapshot, artifacts, file, clock>>

(* list_tasks(limit=500) of recover_stale_state: the newest snapshots. *)
Newer(t)   == {u \in Tasks : snapshot[u].state # "absent" /\ snapshot[u].at > snapshot[t].at}
Scanned(t) == Cardinality(Newer(t)) < ScanLimit

(* Mutant: a task that was paused is not taken up. *)
ScanTasksRunning ==
  /\ phase = "down" /\ phase' = "tasks"
  /\ todo' = {t \in Tasks : snapshot[t].state = "running" /\ Scanned(t)}
  /\ UNCHANGED <<live, snapshot, artifacts, ledger, file, writer, clock, losses>>

ScanTasks ==
  /\ phase = "down" /\ phase' = "tasks"
  /\ todo' = {t \in Tasks : Unfinished(t) /\ Scanned(t)}
  /\ UNCHANGED <<live, snapshot, artifacts, ledger, file, writer, clock, losses>>

ScanRuns ==
  /\ phase = "tasks" /\ todo = {} /\ phase' = "runs"
  /\ todo' = {r \in Runs : Unfinished(r)}
  /\ UNCHANGED <<live, snapshot, artifacts, ledger, file, writer, clock, losses>>

(* _recover_stale_tasks and _recover_stale_runs: the snapshot is saved, then  *)
(* the failure is recorded, the newest first.                                *)
Interrupted(saved) == [saved EXCEPT !.state = "aborted", !.said = TRUE, !.at = clock + 1]

Recover(x) ==
  /\ x \in todo /\ writer = Idle
  /\ \A y \in todo : snapshot[y].at <= snapshot[x].at
  /\ clock < MaxSaves /\ clock' = clock + 1
  /\ snapshot' = [snapshot EXCEPT ![x] = Interrupted(snapshot[x])]
  /\ writer' = [of |-> x, next |-> "recovered", artifact |-> 0]
  /\ UNCHANGED <<live, artifacts, ledger, file, phase, todo, losses>>

RecordRecovered ==
  /\ Writing("recovered")
  /\ Learn(WithFailure(writer.of, "aborted"))
  /\ todo' = todo \ {writer.of} /\ writer' = Idle

Serve ==
  /\ phase = "runs" /\ todo = {} /\ phase' = "serving"
  /\ UNCHANGED <<live, snapshot, artifacts, ledger, file, writer, clock, todo, losses>>

-----------------------------------------------------------------------------
Empty == [task |-> NoFact, run |-> NoFact, observed |-> Nobody, failures |-> <<>>]

Init ==
  /\ live = [x \in Sources |-> Absent]
  /\ snapshot = [x \in Sources |->
       [state |-> "absent", steps |-> FALSE, said |-> FALSE, at |-> 0, artifact |-> 0]]
  /\ artifacts = <<>> /\ ledger = Empty /\ file = Empty
  /\ writer = Idle /\ clock = 0 /\ phase = "down" /\ todo = {} /\ losses = 0

Next ==
  \/ \E x \in Sources : Begin(x) \/ Goes(x) \/ Ends(x) \/ Recover(x)
  \/ WriteArtifact \/ WriteSnapshot \/ WriteLatest \/ WriteObserved \/ WriteFailure
  \/ WriteRaises \/ Die \/ ScanTasks \/ ScanRuns \/ RecordRecovered \/ Serve

Spec == Init /\ [][Next]_vars

-----------------------------------------------------------------------------
(* The records of the memory have their types. *)
TypeOK ==
  /\ live \in [Sources -> Held]
  /\ snapshot \in [Sources -> Saved]
  /\ artifacts \in Seq(Fact)
  /\ ledger \in Ledger /\ file \in Ledger
  /\ writer \in [of : Sources \cup {Nobody}, next : Stages, artifact : Nat]
  /\ clock \in Nat /\ losses \in Nat /\ phase \in {"down", "tasks", "runs", "serving"}
  /\ todo \in SUBSET Sources

(* recover_stale_state: a server that answers shows no task or run of an      *)
(* earlier process as going on; of the tasks, none that the repair looked at: *)
(* one with as many newer snapshots as the repair reads stays as it was.     *)
NoStaleRecord ==
  phase = "serving" => \A x \in Sources :
    Unfinished(x) /\ live[x] = Absent => x \in Tasks /\ ~Scanned(x)

(* save_task_context, capture_plan_run: an artifact that a snapshot names is  *)
(* there, and it is of that task or run as it ended.                         *)
ArtifactsAgree ==
  \A x \in Sources : snapshot[x].artifact # 0 =>
    /\ snapshot[x].artifact \in DOMAIN artifacts
    /\ artifacts[snapshot[x].artifact] = [of |-> x, state |-> snapshot[x].state]

(* facts.json: no failure is told of what the snapshots show as completed,    *)
(* and nothing as completed that they do not, whatever was lost between.     *)
FactsAgree ==
  /\ \A i \in DOMAIN file.failures :
       snapshot[file.failures[i].of].state \notin {"absent", "completed"}
  /\ \A fact \in {file.task, file.run} :
       fact.state = "completed" => snapshot[fact.of].state = "completed"
  /\ file.observed # Nobody => snapshot[file.observed].steps
=============================================================================
