------------------------------- MODULE Agent -------------------------------
(***************************************************************************)
(* The components around the executors of the agent.  They meet only through  *)
(* what each module takes as its input, so a behaviour picks one of them in   *)
(* its initial state and only that one moves.                                 *)
(***************************************************************************)
EXTENDS Integers, Sequences, FiniteSets

CONSTANTS
  Sessions, Children, MaxDeaths,                                  \* AgentSession
  Clients, History, Replay, MaxEvents, Burst,                     \* EventHub
  Loops, Services, Cooldown, MaxRestarts, BlackTimeout, ActsBySkill, MaxTime, \* PassiveMonitor
  Calls, MaxConnects,                                             \* ShellChannel
  Watchers, Steps,                                                \* ConfirmWatch
  Requests, MaxServers,                                           \* Workloads
  TaskIds, RunIds, NoId, ScanLimit, KeptFailures, MaxSaves, MaxLosses \* TaskMemory

ASSUME AgentConstants ==
  /\ TaskIds \cap RunIds = {} /\ NoId \notin TaskIds \cup RunIds
  /\ IsFiniteSet(TaskIds)
  /\ ScanLimit \in Nat /\ KeptFailures \in Nat
  /\ Children \cap {"none", "resolving", "executing", "answered"} = {}
  /\ Loops \subseteq Nat \ {0} /\ Services \subseteq Nat \ {0}
  /\ Cooldown \in Nat /\ MaxRestarts \in Nat
  /\ MaxConnects \in Nat /\ Steps \in Nat
  /\ "none" \notin Requests /\ MaxServers \in Nat
  /\ History \in Nat \ {0} /\ Replay \in Nat \ {0}
  /\ Burst \in Nat /\ Burst <= History /\ Burst <= Replay

VARIABLES
  focus,
  disk, request, child, bound, fresh, orphans, missed, restarts,              \* AgentSession
  published, history, client,                                                 \* EventHub
  now, running, handle, loop, stopping, blackSince, service, tried, rushed, overlapped, \* PassiveMonitor
  backend, active, connected, sshClient, up, opened, lock, call,              \* ShellChannel
  waiting, settled, ended, events, watcher,                                   \* ConfirmWatch
  made, named, recorded, server, pid, password, post, excused,                \* Workloads
  live, snapshot, artifacts, ledger, file, writer, clock, phase, todo, losses \* TaskMemory

Session == INSTANCE AgentSession WITH MaxRestarts <- MaxDeaths
Hub     == INSTANCE EventHub
Monitor == INSTANCE PassiveMonitor
Shell   == INSTANCE ShellChannel WITH client <- sshClient
Confirm == INSTANCE ConfirmWatch
Panel   == INSTANCE Workloads WITH request <- post
Memory  == INSTANCE TaskMemory WITH Tasks <- TaskIds, Runs <- RunIds, Nobody <- NoId

sessionVars == <<disk, request, child, bound, fresh, orphans, missed, restarts>>
hubVars     == <<published, history, client>>
monitorVars == <<now, running, handle, loop, stopping, blackSince, service, tried, rushed, overlapped>>
shellVars   == <<backend, active, connected, sshClient, up, opened, lock, call>>
confirmVars == <<waiting, settled, ended, events, watcher>>
panelVars   == <<made, named, recorded, server, pid, password, post, excused>>
memoryVars  == <<live, snapshot, artifacts, ledger, file, writer, clock, phase, todo, losses>>

vars == <<focus, sessionVars, hubVars, monitorVars, shellVars, confirmVars, panelVars, memoryVars>>

Init ==
  /\ focus \in {"session", "hub", "monitor", "shell", "confirm", "panel", "memory"}
  /\ Session!Init /\ Hub!Init /\ Monitor!Init /\ Shell!Init /\ Confirm!Init /\ Panel!Init
  /\ Memory!Init
  (* The idle parts start in one of their initial states only. *)
  /\ focus # "shell"   => backend = "system"
  /\ focus # "confirm" => \A w \in Watchers : watcher[w].how = "poll"
  /\ focus # "panel"   => named /\ recorded

Next ==
  /\ UNCHANGED focus
  /\ \/ /\ focus = "session" /\ Session!Next
        /\ UNCHANGED <<hubVars, monitorVars, shellVars, confirmVars, panelVars, memoryVars>>
     \/ /\ focus = "hub" /\ Hub!Next
        /\ UNCHANGED <<sessionVars, monitorVars, shellVars, confirmVars, panelVars, memoryVars>>
     \/ /\ focus = "monitor" /\ Monitor!Next
        /\ UNCHANGED <<sessionVars, hubVars, shellVars, confirmVars, panelVars, memoryVars>>
     \/ /\ focus = "shell" /\ Shell!Next
        /\ UNCHANGED <<sessionVars, hubVars, monitorVars, confirmVars, panelVars, memoryVars>>
     \/ /\ focus = "confirm" /\ Confirm!Next
        /\ UNCHANGED <<sessionVars, hubVars, monitorVars, shellVars, panelVars, memoryVars>>
     \/ /\ focus = "panel" /\ Panel!Next
        /\ UNCHANGED <<sessionVars, hubVars, monitorVars, shellVars, confirmVars, memoryVars>>
     \/ /\ focus = "memory" /\ Memory!Next
        /\ UNCHANGED <<sessionVars, hubVars, monitorVars, shellVars, confirmVars, panelVars>>

Spec == Init /\ [][Next]_vars

-----------------------------------------------------------------------------
(* The variables of every component keep their types. *)
TypeOK ==
  /\ Session!TypeOK /\ Hub!TypeOK /\ Monitor!TypeOK /\ Shell!TypeOK /\ Confirm!TypeOK
  /\ Panel!TypeOK /\ Memory!TypeOK

(* sessions.py: a session tells the state of its child, and one that is open  *)
(* has somebody who goes on with it; its end is revised by a resumption only. *)
SessionsFollow == Session!MirrorsChild /\ Session!OpenIsAlive
EndIsFinal     == Session!EndIsFinal

(* events.py: nothing is lost or doubled between replayed and live events. *)
StreamIsGapless == Hub!StreamIsGapless

(* passive.py: a stopped monitor acts no more, and a service is not restarted *)
(* again within its cooldown.                                                *)
StopHolds         == Monitor!StopHolds
RestartsAreSpaced == Monitor!RestartsAreSpaced

(* ssh.py, driver.py, executor.py: no command is run a second time unless the *)
(* answer to the first was lost, and none is reported as done that did not     *)
(* run, except a step of a skill over the system's ssh, whose exit status the  *)
(* driver does not look at.                                                  *)
NoSecondCopy == Shell!NoSecondCopy

(* watchers.py: an answer settles the step its operator was asked about. *)
AnswersItsStep == Confirm!AnswersItsStep

(* The workload panel in routes.py: a restart leaves one server, and after a  *)
(* setup it is one the console can log in to.                                *)
WorkloadIsOne == Panel!OneServer /\ Panel!ConsoleAgrees

(* run_memory.py, fact_store.py, artifact_store.py: what is on disk about     *)
(* tasks and runs agrees with itself after every crash and failed write.     *)
MemoryIsSound == Memory!NoStaleRecord /\ Memory!ArtifactsAgree /\ Memory!FactsAgree
=============================================================================
