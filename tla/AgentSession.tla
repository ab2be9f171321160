---------------------------- MODULE AgentSession ----------------------------
(***************************************************************************)
(* Agent sessions (runtime/sessions.py) and the endpoints that start, resume  *)
(* and steer them (api/routes.py): a session is a record on disk that follows *)
(* the plan run or the skill task it started, its child.  A child is taken    *)
(* from PlanRun and SkillTask as the sequence of states it publishes.  The    *)
(* session follows inside the publication, which nothing interrupts; what it  *)
(* is bound to is only in memory and lost with the server.                    *)
(***************************************************************************)
EXTENDS Integers, Sequences, FiniteSets

CONSTANTS
  Sessions,   \* session ids
  Children,   \* ids of runs and tasks
  MaxRestarts \* bound: how often the server dies

VARIABLES
  disk,     \* the stored sessions
  request,  \* of each session: where the request that starts it is suspended
  child,    \* of each run and task: its kind and state
  bound,    \* _sessions_by_run, _sessions_by_task
  fresh,    \* history: children started since the server came up
  orphans,  \* history: sessions that were open when a server died
  missed,   \* history: children that published before they were bound
  restarts  \* how often the server died

vars == <<disk, request, child, bound, fresh, orphans, missed, restarts>>

Terminal == {"completed", "failed", "aborted"}
Follows  == Terminal \cup {"running", "waiting_confirmation", "paused"}
Nobody   == "none"

NoSession == [state |-> "none", kind |-> "none", child |-> Nobody, success |-> "unknown"]
Unstarted == [kind |-> "none", state |-> "none"]

Alive(c)  == c \in fresh /\ child[c].state \notin Terminal
Runs      == {c \in Children : child[c].kind = "run"}
Tasks     == {c \in Children : child[c].kind = "task"}

(* SessionRuntime.update: the record is read again, changed and stored. *)
Updated(s, state, success) ==
  [disk EXCEPT ![s].state = state, ![s].success = success]

Request(s, at) == request' = [request EXCEPT ![s] = at]
Elsewhere == UNCHANGED <<child, bound, fresh, orphans, missed, restarts>>

-----------------------------------------------------------------------------
(* start_session. *)

(* It is created and parsed; the resolver is asked. *)
Create(s) ==
  /\ disk[s] = NoSession
  /\ disk' = [disk EXCEPT ![s].state = "parsing"]
  /\ Request(s, "resolving")
  /\ Elsewhere

(* The request ends with an exception. *)
Fails(s) ==
  /\ disk' = Updated(s, "failed", "no")
  /\ Request(s, "answered")
  /\ Elsewhere

(* The resolver raises, or its answer is of no known type. *)
Unresolved(s) == request[s] = "resolving" /\ Fails(s)

(* Mutant: after the preview the request is dispatched all the same. *)
AnsweredGoesOn(s) ==
  /\ request[s] = "resolving"
  /\ disk' = Updated(s, "completed", "yes")
  /\ UNCHANGED request /\ Elsewhere

(* A preview, or a chat message that asks nothing, ends the session; a        *)
(* question leaves it waiting.                                               *)
Answered(s) ==
  /\ request[s] = "resolving"
  /\ \/ disk' = Updated(s, "completed", "yes")
     \/ disk' = [Updated(s, "waiting_input", "no") EXCEPT ![s].kind = "chat"]
  /\ Request(s, "answered")
  /\ Elsewhere

(* One command: _run_direct_ssh refuses while a plan run is active.           *)
DispatchSsh(s) ==
  /\ request[s] = "resolving"
  /\ \/ /\ ~\E c \in Runs : Alive(c)
        /\ disk' = [Updated(s, "dispatching", "unknown") EXCEPT ![s].kind = "ssh"]
        /\ Request(s, "executing") /\ Elsewhere
     \/ Fails(s)

SshReturns(s) ==
  /\ request[s] = "executing"
  /\ \/ /\ disk' = Updated(s, "completed", "yes")
        /\ Request(s, "answered") /\ Elsewhere
     \/ Fails(s)

(* A child that starts is bound to the session and attached. *)
Attached(s, c, kind) ==
  [disk EXCEPT ![s] = [state |-> "running", kind |-> kind, child |-> c, success |-> @.success]]

Bind(s, c) == bound' = [bound EXCEPT ![c] = @ \cup {s}]

(* _start_background_skill: the task is created, its coroutine yet to begin.  *)
StartTask(c) ==
  /\ child[c] = Unstarted
  /\ child' = [child EXCEPT ![c] = [kind |-> "task", state |-> "running"]]
  /\ fresh' = fresh \cup {c}

(* _start_backend_plan, resume_saved_run: while no run is active (nor a task  *)
(* the executor still knows of).                                             *)
StartRun(c) ==
  /\ child[c] = Unstarted /\ ~\E d \in Runs : Alive(d)
  /\ child' = [child EXCEPT ![c] = [kind |-> "run", state |-> "running"]]
  /\ fresh' = fresh \cup {c}

(* A skill: refused while a task is running, but not while one is paused,     *)
(* which no event tells, and not while a plan run is active.  Nothing         *)
(* interrupts the request between starting the task and binding it.           *)
DispatchSkill(s) ==
  /\ request[s] = "resolving"
  /\ \/ \E c \in Children :
          /\ StartTask(c)
          /\ Bind(s, c)
          /\ disk' = Attached(s, c, "task")
          /\ Request(s, "answered")
          /\ UNCHANGED <<orphans, missed, restarts>>
     \/ Fails(s)

(* A plan: start_plan publishes "created" before it returns, and a WebSocket  *)
(* client may hold it there; the run is not bound yet.                        *)
DispatchPlan(s) ==
  /\ request[s] = "resolving"
  /\ \/ \E c \in Children :
          /\ StartRun(c)
          /\ disk' = [Updated(s, "dispatching", "unknown") EXCEPT ![s].kind = "run"]
          /\ Request(s, c)
          /\ UNCHANGED <<bound, orphans, missed, restarts>>
     \/ Fails(s)

(* Mutant: the run is attached and not bound. *)
PlanStartedUnbound(s) ==
  /\ request[s] \in Children
  /\ disk' = Attached(s, request[s], "run")
  /\ Request(s, "answered")
  /\ orphans' = orphans \ {s}
  /\ UNCHANGED <<child, bound, fresh, missed, restarts>>

PlanStarted(s) ==
  /\ request[s] \in Children
  /\ Bind(s, request[s])
  /\ disk' = Attached(s, request[s], "run")
  /\ Request(s, "answered")
  /\ orphans' = orphans \ {s}
  /\ UNCHANGED <<child, fresh, missed, restarts>>

(* resume_session: an ended run is started again from its record, as a new    *)
(* run, while no plan runs; the outcome of the old one stays in the record.   *)
(* That start publishes and is bound in the same way.                         *)
ResumeSaved(s) ==
  /\ request[s] = "answered" /\ disk[s].kind = "run" /\ disk[s].child # Nobody
  /\ child[disk[s].child].state \in Terminal
  /\ \E c \in Children : StartRun(c) /\ Request(s, c)
  /\ UNCHANGED <<disk, bound, orphans, missed, restarts>>

(* sync_child_event, for every session bound to the child. *)
Synced(c, state) ==
  [s \in Sessions |->
     IF s \notin bound[c] THEN disk[s]
     ELSE [state   |-> state, kind |-> child[c].kind, child |-> c,
           success |-> IF state \notin Terminal THEN disk[s].success
                       ELSE IF state = "completed" THEN "yes" ELSE "no"]]

(* A child publishes the state it is in.  A run whose "created" is held can   *)
(* be paused and resumed, but has no coroutine yet.                           *)
Publishes(c, state) ==
  /\ Alive(c)
  /\ (\E s \in Sessions : request[s] = c) => state \in {"running", "paused"}
  /\ child' = [child EXCEPT ![c].state = state]
  /\ disk' = Synced(c, state)
  /\ missed' = IF bound[c] = {} THEN missed \cup {c} ELSE missed \ {c}
  /\ UNCHANGED <<request, bound, fresh, orphans, restarts>>

(* A task never publishes that it is paused. *)
ChildEvent(c) ==
  \/ c \in Runs /\ \E state \in Follows : Publishes(c, state)
  \/ c \in Tasks /\ \E state \in Terminal \cup {"running"} : Publishes(c, state)

(* The server dies and comes up: recover_stale_state ends every run and task  *)
(* on disk; no event says so, and no session is looked at.                    *)
Restart ==
  /\ restarts < MaxRestarts
  /\ restarts' = restarts + 1
  /\ child' = [c \in Children |->
       IF child[c].state \in Terminal \cup {"none"} THEN child[c]
       ELSE [child[c] EXCEPT !.state = "aborted"]]
  /\ bound' = [c \in Children |-> {}]
  /\ fresh' = {} /\ missed' = {}
  /\ orphans' = orphans \cup {s \in Sessions : disk[s].state \notin Terminal \cup {"none"}}
  /\ request' = [s \in Sessions |-> IF disk[s] = NoSession THEN "none" ELSE "answered"]
  /\ UNCHANGED disk

Init ==
  /\ disk = [s \in Sessions |-> NoSession]
  /\ request = [s \in Sessions |-> "none"]
  /\ child = [c \in Children |-> Unstarted]
  /\ bound = [c \in Children |-> {}]
  /\ fresh = {} /\ orphans = {} /\ missed = {} /\ restarts = 0

StartSession(s) ==
  \/ Create(s) \/ Unresolved(s) \/ Answered(s) \/ DispatchSsh(s) \/ SshReturns(s)
  \/ DispatchSkill(s) \/ DispatchPlan(s) \/ PlanStarted(s)

Next ==
  \/ \E s \in Sessions : StartSession(s) \/ ResumeSaved(s)
  \/ \E c \in Children : ChildEvent(c)
  \/ Restart

Spec == Init /\ [][Next]_vars

-----------------------------------------------------------------------------
TypeOK ==
  /\ disk \in [Sessions -> [state : Follows \cup {"none", "parsing", "waiting_input", "dispatching"},
                            kind : {"none", "chat", "ssh", "task", "run"},
                            child : Children \cup {Nobody},
                            success : {"unknown", "yes", "no"}]]
  /\ request \in [Sessions -> {"none", "resolving", "executing", "answered"} \cup Children]
  /\ bound \in [Children -> SUBSET Sessions]

(* A session tells the state of its child, in every interleaving of requests, *)
(* events and resumptions, as long as the child lives in this server and was  *)
(* not paused before the session was bound to it.                             *)
MirrorsChild ==
  \A s \in Sessions : LET c == disk[s].child IN
    c \in fresh \ missed => disk[s].state = child[c].state

(* A session that has not ended has a request or a child that will go on with *)
(* it, or waits for its user, or was left behind by a server that died.       *)
OpenIsAlive ==
  \A s \in Sessions : s \notin orphans /\ disk[s].state \notin Terminal \cup {"none", "waiting_input"} =>
    request[s] # "answered" \/ (disk[s].child # Nobody /\ Alive(disk[s].child))

(* The end of a session is revised by nothing but its own resumption. *)
EndIsFinal ==
  [][\A s \in Sessions : disk[s].state \in Terminal /\ disk'[s].state # disk[s].state
        => disk'[s].child # disk[s].child]_vars
=============================================================================
