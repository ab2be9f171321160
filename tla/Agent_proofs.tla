---------------------------- MODULE Agent_proofs ----------------------------
(* The invariants of the components around the executors of the agent, for    *)
(* every value of the constants.  A step of the composition is a step of a    *)
(* component or leaves its variables alone.                                  *)
EXTENDS Agent, FiniteSetTheorems, SequenceTheorems, TLAPS

-----------------------------------------------------------------------------
(* Agent sessions: sessions.py, routes.py.                                    *)

SessionStored == [state : Session!Follows \cup {"none", "parsing", "waiting_input", "dispatching"},
           kind : {"none", "chat", "ssh", "task", "run"},
           child : Children \cup {Session!Nobody},
           success : {"unknown", "yes", "no"}]
SessionKin == [kind : {"none", "run", "task"}, state : Session!Follows \cup {"none"}]

SessionTyped ==
  /\ disk \in [Sessions -> SessionStored]
  /\ request \in [Sessions -> {"none", "resolving", "executing", "answered"} \cup Children]
  /\ child \in [Children -> SessionKin]
  /\ bound \in [Children -> SUBSET Sessions]
  /\ fresh \subseteq Children /\ missed \subseteq fresh

(* A child somebody may follow was started. *)
SessionStarted(c) == child[c].kind \in {"run", "task"} /\ child[c].state \in Session!Follows

(* Who is bound to a child follows it, or the child has ended; and who        *)
(* follows a child of this server is bound to it.                            *)
SessionBoundFollow ==
  /\ \A c \in fresh : SessionStarted(c)
  /\ \A s \in Sessions : disk[s].child \in Children => SessionStarted(disk[s].child)
  /\ \A c \in Children : \A s \in bound[c] :
       c \in fresh /\ (disk[s].child = c \/ child[c].state \in Session!Terminal)
  /\ \A s \in Sessions : disk[s].child \in fresh => s \in bound[disk[s].child]

(* A run whose request is held has no coroutine, and nobody is bound to it. *)
SessionStarting(s, c) ==
  /\ c \in fresh /\ child[c].kind = "run" /\ child[c].state \in {"running", "paused"}
  /\ bound[c] = {}
  /\ disk[s].child = Session!Nobody \/ child[disk[s].child].state \in Session!Terminal
  /\ c \notin missed => child[c].state = "running"

SessionRequested ==
  /\ \A s \in Sessions : request[s] \in Children => SessionStarting(s, request[s])
  /\ \A s, t \in Sessions : request[s] \in Children /\ request[t] = request[s] => t = s
  /\ \A s \in Sessions : request[s] \in {"resolving", "executing"} =>
       disk[s].child = Session!Nobody /\ disk[s].state \in {"parsing", "dispatching"}

(* A child that published before it was bound left its session as attached. *)
SessionBehind == \A s \in Sessions : disk[s].child \in missed => disk[s].state = "running"

SessionInv == SessionTyped /\ SessionBoundFollow /\ SessionRequested /\ SessionBehind /\ Session!MirrorsChild /\ Session!OpenIsAlive

(* What a step may never do with a session that has ended. *)
SessionEndKept ==
  \A s \in Sessions : disk[s].state \in Session!Terminal /\ disk'[s].state # disk[s].state
    => disk'[s].child # disk[s].child

-----------------------------------------------------------------------------
(* A step of a request that has no child yet. *)
LEMMA SessionOwnChange ==
  ASSUME AgentConstants, SessionInv, NEW s \in Sessions, NEW d \in SessionStored, NEW at,
         disk' = [disk EXCEPT ![s] = d], Session!Request(s, at), Session!Elsewhere,
         at \in {"resolving", "executing", "answered"},
         disk[s].child = Session!Nobody, d.child = Session!Nobody, disk[s].state \notin Session!Terminal,
         at \in {"resolving", "executing"} => d.state \in {"parsing", "dispatching"},
         at = "answered" => d.state \in Session!Terminal \cup {"waiting_input"}
  PROVE  SessionInv' /\ SessionEndKept
<1>1. SessionTyped'
  BY DEF SessionInv, SessionTyped, Session!Request, Session!Elsewhere
<1>2. /\ disk'[s] = d /\ request'[s] = at
      /\ \A t \in Sessions \ {s} : disk'[t] = disk[t] /\ request'[t] = request[t]
  BY DEF SessionInv, SessionTyped, Session!Request
<1>3. UNCHANGED <<child, bound, fresh, orphans, missed>>
  BY DEF Session!Elsewhere
<1>4. Session!Nobody \notin Children /\ fresh \subseteq Children /\ missed \subseteq fresh
  BY DEF AgentConstants, SessionInv, SessionTyped, Session!Nobody
<1>5. \A c \in Children : bound[c] \subseteq Sessions
  BY DEF SessionInv, SessionTyped
<1>6. SessionBoundFollow'
  BY <1>2, <1>3, <1>4, <1>5 DEF SessionInv, SessionBoundFollow, SessionStarted
<1>7. SessionRequested'
  <2>1. at \notin Children
    BY DEF AgentConstants, Session!Nobody
  <2> QED
    BY <1>2, <1>3, <2>1 DEF SessionInv, SessionRequested, SessionStarting
<1>8. SessionBehind' /\ Session!MirrorsChild'
  BY <1>2, <1>3, <1>4 DEF SessionInv, SessionBehind, Session!MirrorsChild
<1>9. Session!OpenIsAlive'
  BY <1>2, <1>3 DEF SessionInv, Session!OpenIsAlive, Session!Alive
<1>10. SessionEndKept
  BY <1>2 DEF SessionEndKept
<1> QED
  BY <1>1, <1>6, <1>7, <1>8, <1>9, <1>10 DEF SessionInv

(* A record that is updated, and has no child. *)
SessionBecomes(s, new, state) ==
  \E d \in SessionStored : new = [disk EXCEPT ![s] = d] /\ d.child = Session!Nobody /\ d.state = state

LEMMA SessionUpdatedIs ==
  ASSUME SessionTyped, NEW s \in Sessions, disk[s].child = Session!Nobody,
         NEW state \in Session!Follows \cup {"parsing", "waiting_input", "dispatching"},
         NEW success \in {"unknown", "yes", "no"}
  PROVE  /\ SessionBecomes(s, Session!Updated(s, state, success), state)
         /\ \A kind \in {"chat", "ssh", "run"} :
              SessionBecomes(s, [Session!Updated(s, state, success) EXCEPT ![s].kind = kind], state)
<1>1. disk \in [Sessions -> SessionStored] /\ disk[s] \in SessionStored
  BY DEF SessionTyped
<1>2. /\ [disk[s] EXCEPT !.state = state, !.success = success] \in SessionStored
      /\ [disk[s] EXCEPT !.state = state, !.success = success].child = Session!Nobody
      /\ [disk[s] EXCEPT !.state = state, !.success = success].state = state
  BY <1>1 DEF SessionStored
<1>3. Session!Updated(s, state, success) = [disk EXCEPT ![s] = [disk[s] EXCEPT !.state = state, !.success = success]]
  BY <1>1 DEF Session!Updated, SessionStored
<1>4. ASSUME NEW kind \in {"chat", "ssh", "run"}
      PROVE  SessionBecomes(s, [Session!Updated(s, state, success) EXCEPT ![s].kind = kind], state)
  <2> DEFINE d == [[disk[s] EXCEPT !.state = state, !.success = success] EXCEPT !.kind = kind]
  <2>1. d \in SessionStored /\ d.child = Session!Nobody /\ d.state = state
    BY <1>1 DEF SessionStored
  <2>2. [Session!Updated(s, state, success) EXCEPT ![s].kind = kind] = [disk EXCEPT ![s] = d]
    BY <1>1, <1>3
  <2> HIDE DEF d
  <2> QED
    BY <2>1, <2>2 DEF SessionBecomes
<1> QED
  BY <1>2, <1>3, <1>4 DEF SessionBecomes

(* The end of a request with an exception. *)
LEMMA SessionFailsStep ==
  ASSUME AgentConstants, SessionInv, NEW s \in Sessions, request[s] \in {"resolving", "executing"}, Session!Fails(s)
  PROVE  SessionInv' /\ SessionEndKept
<1>1. disk[s].child = Session!Nobody /\ disk[s].state \notin Session!Terminal /\ SessionTyped
  BY DEF SessionInv, SessionRequested, Session!Terminal
<1>2. SessionBecomes(s, disk', "failed")
  BY <1>1, SessionUpdatedIs DEF Session!Fails, Session!Follows, Session!Terminal
<1>3. PICK d \in SessionStored : disk' = [disk EXCEPT ![s] = d] /\ d.child = Session!Nobody /\ d.state = "failed"
  BY <1>2 DEF SessionBecomes
<1> QED
  BY <1>1, <1>3, SessionOwnChange DEF Session!Fails, Session!Terminal

(* The steps of a request before it has a child. *)
LEMMA SessionEarlyStep ==
  ASSUME AgentConstants, SessionInv, NEW s \in Sessions,
         Session!Create(s) \/ Session!Unresolved(s) \/ Session!Answered(s) \/ Session!DispatchSsh(s) \/ Session!SshReturns(s)
  PROVE  SessionInv' /\ SessionEndKept
<1>0. SessionTyped
  BY DEF SessionInv
<1>1. CASE Session!Create(s)
  <2>1. disk[s] = Session!NoSession /\ disk[s].child = Session!Nobody /\ disk[s].state \notin Session!Terminal
    BY <1>1 DEF Session!Create, Session!NoSession, Session!Terminal
  <2>2. [disk[s] EXCEPT !.state = "parsing"] \in SessionStored
    BY <1>0 DEF SessionTyped, SessionStored
  <2>3. disk' = [disk EXCEPT ![s] = [disk[s] EXCEPT !.state = "parsing"]]
    BY <1>0, <1>1 DEF Session!Create, SessionTyped
  <2>4. /\ [disk[s] EXCEPT !.state = "parsing"].child = Session!Nobody
        /\ [disk[s] EXCEPT !.state = "parsing"].state = "parsing"
    BY <2>1 DEF Session!NoSession
  <2> QED
    BY <1>1, <2>1, <2>2, <2>3, <2>4, SessionOwnChange DEF Session!Create
<1> SUFFICES ASSUME request[s] \in {"resolving", "executing"} PROVE SessionInv' /\ SessionEndKept
  BY <1>1 DEF Session!Unresolved, Session!Answered, Session!DispatchSsh, Session!SshReturns
<1>2. disk[s].child = Session!Nobody /\ disk[s].state \notin Session!Terminal
  BY DEF SessionInv, SessionRequested, Session!Terminal
<1>3. CASE Session!Fails(s)
  BY <1>3, SessionFailsStep
<1>4. CASE disk' = Session!Updated(s, "completed", "yes") /\ Session!Request(s, "answered") /\ Session!Elsewhere
  <2>1. SessionBecomes(s, disk', "completed")
    BY <1>0, <1>2, <1>4, SessionUpdatedIs DEF Session!Follows, Session!Terminal
  <2>2. PICK d \in SessionStored : disk' = [disk EXCEPT ![s] = d] /\ d.child = Session!Nobody /\ d.state = "completed"
    BY <2>1 DEF SessionBecomes
  <2> QED
    BY <1>2, <1>4, <2>2, SessionOwnChange DEF Session!Terminal
<1>5. CASE /\ disk' = [Session!Updated(s, "waiting_input", "no") EXCEPT ![s].kind = "chat"]
           /\ Session!Request(s, "answered") /\ Session!Elsewhere
  <2>1. SessionBecomes(s, disk', "waiting_input")
    BY <1>0, <1>2, <1>5, SessionUpdatedIs
  <2>2. PICK d \in SessionStored : disk' = [disk EXCEPT ![s] = d] /\ d.child = Session!Nobody /\ d.state = "waiting_input"
    BY <2>1 DEF SessionBecomes
  <2> QED
    BY <1>2, <1>5, <2>2, SessionOwnChange DEF Session!Terminal
<1>6. CASE /\ disk' = [Session!Updated(s, "dispatching", "unknown") EXCEPT ![s].kind = "ssh"]
           /\ Session!Request(s, "executing") /\ Session!Elsewhere
  <2>1. SessionBecomes(s, disk', "dispatching")
    BY <1>0, <1>2, <1>6, SessionUpdatedIs
  <2>2. PICK d \in SessionStored : disk' = [disk EXCEPT ![s] = d] /\ d.child = Session!Nobody /\ d.state = "dispatching"
    BY <2>1 DEF SessionBecomes
  <2> QED
    BY <1>2, <1>6, <2>2, SessionOwnChange DEF Session!Terminal
<1> QED
  BY <1>1, <1>3, <1>4, <1>5, <1>6 DEF Session!Unresolved, Session!Answered, Session!DispatchSsh, Session!SshReturns

-----------------------------------------------------------------------------
(* A child that is started was followed by nobody. *)
LEMMA SessionUnknown ==
  ASSUME SessionInv, NEW c \in Children, child[c] = Session!Unstarted
  PROVE  /\ c \notin fresh /\ c \notin missed /\ bound[c] = {}
         /\ \A s \in Sessions : disk[s].child # c
         /\ \A s \in Sessions : request[s] # c
<1>1. ~SessionStarted(c)
  BY DEF SessionStarted, Session!Unstarted
<1> QED
  BY <1>1 DEF SessionInv, SessionTyped, SessionBoundFollow, SessionRequested, SessionStarting

LEMMA SessionSkillStep ==
  ASSUME AgentConstants, SessionInv, NEW s \in Sessions, Session!DispatchSkill(s)
  PROVE  SessionInv' /\ SessionEndKept
<1>1. CASE Session!Fails(s)
  BY <1>1, SessionFailsStep DEF Session!DispatchSkill
<1>2. ASSUME NEW c \in Children, Session!StartTask(c), Session!Bind(s, c), disk' = Session!Attached(s, c, "task"),
             Session!Request(s, "answered"), UNCHANGED <<orphans, missed, restarts>>
      PROVE  SessionInv' /\ SessionEndKept
  <2>1. /\ c \notin fresh /\ c \notin missed /\ bound[c] = {}
        /\ \A t \in Sessions : disk[t].child # c /\ request[t] # c
    BY <1>2, SessionUnknown DEF Session!StartTask
  <2>2. disk[s].child = Session!Nobody /\ disk[s].state \notin Session!Terminal
    BY DEF Session!DispatchSkill, SessionInv, SessionRequested, Session!Terminal
  <2>3. /\ SessionTyped /\ Session!Nobody \notin Children /\ "answered" \notin Children
    BY DEF SessionInv, AgentConstants, Session!Nobody
  <2>4. [kind |-> "task", state |-> "running"] \in SessionKin
    BY DEF SessionKin, Session!Follows
  <2>5. [state |-> "running", kind |-> "task", child |-> c, success |-> disk[s].success] \in SessionStored
    BY <2>3 DEF SessionTyped, SessionStored, Session!Follows
  <2>6. disk' = [disk EXCEPT ![s] = [state |-> "running", kind |-> "task", child |-> c, success |-> disk[s].success]]
    BY <1>2, <2>3 DEF Session!Attached, SessionTyped
  <2>7. SessionTyped'
    BY <1>2, <2>3, <2>4, <2>5, <2>6 DEF Session!StartTask, Session!Bind, Session!Request, SessionTyped
  <2>8. /\ disk'[s].child = c /\ disk'[s].state = "running" /\ request'[s] = "answered"
        /\ \A t \in Sessions \ {s} : disk'[t] = disk[t] /\ request'[t] = request[t]
        /\ child'[c].kind = "task" /\ child'[c].state = "running" /\ bound'[c] = {s}
        /\ \A e \in Children \ {c} : child'[e] = child[e] /\ bound'[e] = bound[e]
        /\ fresh' = fresh \cup {c} /\ missed' = missed /\ orphans' = orphans
    BY <1>2, <2>1, <2>3, <2>6 DEF Session!StartTask, Session!Bind, Session!Request, SessionTyped
  <2>9. /\ \A e \in Children : bound[e] \subseteq Sessions
        /\ fresh \subseteq Children /\ missed \subseteq fresh
    BY <2>3 DEF SessionTyped
  <2>10. SessionBoundFollow'
    BY <2>1, <2>2, <2>3, <2>8, <2>9 DEF SessionInv, SessionBoundFollow, SessionStarted, Session!Follows
  <2>11. SessionRequested'
    BY SMTT(20), <2>1, <2>3, <2>8, <2>9 DEF SessionInv, SessionTyped, SessionStored, SessionRequested, SessionStarting
  <2>12. SessionBehind' /\ Session!MirrorsChild'
    BY <2>1, <2>3, <2>8, <2>9 DEF SessionInv, SessionBehind, Session!MirrorsChild
  <2>13. Session!OpenIsAlive'
    BY <2>1, <2>3, <2>8, <2>9 DEF SessionInv, SessionTyped, SessionStored, Session!OpenIsAlive, Session!Alive, Session!Terminal
  <2>14. SessionEndKept
    BY <2>2, <2>8 DEF SessionEndKept
  <2> QED
    BY <2>7, <2>10, <2>11, <2>12, <2>13, <2>14 DEF SessionInv
<1> QED
  BY <1>1, <1>2 DEF Session!DispatchSkill

(* A run that starts, its request held; the record of the session as it was,  *)
(* or dispatching.                                                           *)
LEMMA SessionRunStarts ==
  ASSUME AgentConstants, SessionInv, NEW s \in Sessions, NEW c \in Children, NEW d \in SessionStored,
         Session!StartRun(c), Session!Request(s, c), UNCHANGED <<bound, orphans, missed, restarts>>,
         disk' = [disk EXCEPT ![s] = d], d.child = disk[s].child,
         disk[s].child = Session!Nobody \/ child[disk[s].child].state \in Session!Terminal,
         d = disk[s] \/ (d.child = Session!Nobody /\ disk[s].state \notin Session!Terminal)
  PROVE  SessionInv' /\ SessionEndKept
<1>1. /\ c \notin fresh /\ c \notin missed /\ bound[c] = {}
      /\ \A t \in Sessions : disk[t].child # c /\ request[t] # c
  BY SessionUnknown DEF Session!StartRun
<1>2. SessionTyped /\ Session!Nobody \notin Children /\ c \notin {"resolving", "executing", "answered"}
  BY DEF SessionInv, AgentConstants, Session!Nobody
<1>3. [kind |-> "run", state |-> "running"] \in SessionKin
  BY DEF SessionKin, Session!Follows
<1>4. SessionTyped'
  BY <1>2, <1>3 DEF Session!StartRun, Session!Request, SessionTyped
<1>5. /\ disk'[s] = d /\ request'[s] = c
      /\ \A t \in Sessions \ {s} : disk'[t] = disk[t] /\ request'[t] = request[t]
      /\ child'[c].kind = "run" /\ child'[c].state = "running"
      /\ \A e \in Children \ {c} : child'[e] = child[e]
      /\ fresh' = fresh \cup {c} /\ missed' = missed /\ orphans' = orphans /\ bound' = bound
  BY <1>2 DEF Session!StartRun, Session!Request, SessionTyped
<1>6. /\ \A e \in Children : bound[e] \subseteq Sessions
      /\ fresh \subseteq Children /\ missed \subseteq fresh
  BY <1>2 DEF SessionTyped
<1>7. \A t \in Sessions : disk'[t].child = disk[t].child
  BY <1>5
<1>8. SessionBoundFollow'
  BY <1>1, <1>2, <1>5, <1>6, <1>7 DEF SessionInv, SessionBoundFollow, SessionStarted, Session!Follows
<1>9. SessionRequested'
  <2>1. \A t \in Sessions : disk[t].child \in Children \cup {Session!Nobody}
    BY <1>2 DEF SessionTyped, SessionStored
  <2>2. SessionStarting(s, c)'
    BY <1>1, <1>2, <1>5, <1>7, <2>1 DEF SessionStarting
  <2>3. ASSUME NEW t \in Sessions \ {s}, request[t] \in Children
        PROVE  SessionStarting(t, request[t])'
    <3>1. SessionStarting(t, request[t])
      BY <2>3 DEF SessionInv, SessionRequested
    <3> QED
      BY <1>1, <1>2, <1>5, <1>7, <2>1, <2>3, <3>1 DEF SessionStarting
  <2> QED
    BY <1>1, <1>2, <1>5, <2>2, <2>3 DEF SessionInv, SessionRequested
<1>10. SessionBehind' /\ Session!MirrorsChild'
  BY <1>1, <1>2, <1>5, <1>6, <1>7 DEF SessionInv, SessionBehind, Session!MirrorsChild
<1>11. Session!OpenIsAlive'
  BY <1>1, <1>2, <1>5, <1>6, <1>7 DEF SessionInv, SessionTyped, SessionStored, Session!OpenIsAlive, Session!Alive
<1>12. SessionEndKept
  BY <1>5 DEF SessionEndKept
<1> QED
  BY <1>4, <1>8, <1>9, <1>10, <1>11, <1>12 DEF SessionInv

LEMMA SessionPlanStep ==
  ASSUME AgentConstants, SessionInv, NEW s \in Sessions, Session!DispatchPlan(s)
  PROVE  SessionInv' /\ SessionEndKept
<1>1. CASE Session!Fails(s)
  BY <1>1, SessionFailsStep DEF Session!DispatchPlan
<1>2. ASSUME NEW c \in Children, Session!StartRun(c), Session!Request(s, c), UNCHANGED <<bound, orphans, missed, restarts>>,
             disk' = [Session!Updated(s, "dispatching", "unknown") EXCEPT ![s].kind = "run"]
      PROVE  SessionInv' /\ SessionEndKept
  <2>1. disk[s].child = Session!Nobody /\ disk[s].state \notin Session!Terminal /\ SessionTyped
    BY DEF Session!DispatchPlan, SessionInv, SessionRequested, Session!Terminal
  <2>2. SessionBecomes(s, disk', "dispatching")
    BY <1>2, <2>1, SessionUpdatedIs
  <2>3. PICK d \in SessionStored : disk' = [disk EXCEPT ![s] = d] /\ d.child = Session!Nobody
    BY <2>2 DEF SessionBecomes
  <2> QED
    BY <1>2, <2>1, <2>3, SessionRunStarts
<1> QED
  BY <1>1, <1>2 DEF Session!DispatchPlan

LEMMA SessionResumeStep ==
  ASSUME AgentConstants, SessionInv, NEW s \in Sessions, Session!ResumeSaved(s)
  PROVE  SessionInv' /\ SessionEndKept
<1>1. PICK c \in Children : Session!StartRun(c) /\ Session!Request(s, c)
  BY DEF Session!ResumeSaved
<1>2. disk[s] \in SessionStored /\ disk' = [disk EXCEPT ![s] = disk[s]]
  BY DEF SessionInv, SessionTyped, Session!ResumeSaved
<1> QED
  BY <1>1, <1>2, SessionRunStarts DEF Session!ResumeSaved

LEMMA SessionStartedStep ==
  ASSUME AgentConstants, SessionInv, NEW s \in Sessions, Session!PlanStarted(s)
  PROVE  SessionInv' /\ SessionEndKept
<1> DEFINE c == request[s]
<1>1. c \in Children /\ SessionStarting(s, c) /\ SessionTyped /\ SessionStarted(c)
  BY DEF Session!PlanStarted, SessionInv, SessionRequested, SessionStarting, SessionBoundFollow
<1>2. Session!Nobody \notin Children /\ "answered" \notin Children /\ "resolving" \notin Children /\ "executing" \notin Children
  BY DEF AgentConstants, Session!Nobody
<1>3. /\ \A t \in Sessions \ {s} : request[t] # c
      /\ disk[s].child # c
  BY <1>1, <1>2 DEF SessionInv, SessionRequested, SessionBoundFollow, SessionStarting
<1> HIDE DEF c
<1>4. [state |-> "running", kind |-> "run", child |-> c, success |-> disk[s].success] \in SessionStored
  BY <1>1 DEF SessionTyped, SessionStored, Session!Follows
<1>5. disk' = [disk EXCEPT ![s] = [state |-> "running", kind |-> "run", child |-> c, success |-> disk[s].success]]
  BY <1>1 DEF Session!PlanStarted, Session!Attached, SessionTyped, c
<1>6. /\ bound' = [bound EXCEPT ![c] = @ \cup {s}] /\ request' = [request EXCEPT ![s] = "answered"]
      /\ orphans' = orphans \ {s} /\ UNCHANGED <<child, fresh, missed, restarts>>
  BY DEF Session!PlanStarted, Session!Bind, Session!Request, c
<1>7. SessionTyped'
  BY <1>1, <1>4, <1>5, <1>6 DEF SessionTyped
<1>8. /\ disk'[s].child = c /\ disk'[s].state = "running" /\ request'[s] = "answered"
      /\ \A t \in Sessions \ {s} : disk'[t] = disk[t] /\ request'[t] = request[t]
      /\ bound'[c] = {s} /\ \A e \in Children \ {c} : bound'[e] = bound[e]
  BY <1>1, <1>5, <1>6 DEF SessionTyped, SessionStarting
<1>9. /\ \A e \in Children : bound[e] \subseteq Sessions
      /\ fresh \subseteq Children /\ missed \subseteq fresh
      /\ \A t \in Sessions : disk[t].child \in Children \cup {Session!Nobody}
  BY <1>1 DEF SessionTyped, SessionStored
<1>10. SessionBoundFollow'
  BY <1>1, <1>2, <1>3, <1>6, <1>8, <1>9 DEF SessionInv, SessionBoundFollow, SessionStarted, SessionStarting
<1>11. SessionRequested'
  BY <1>1, <1>2, <1>3, <1>6, <1>8, <1>9 DEF SessionInv, SessionRequested, SessionStarting
<1>12. SessionBehind' /\ Session!MirrorsChild'
  BY <1>1, <1>2, <1>6, <1>8, <1>9 DEF SessionInv, SessionBehind, Session!MirrorsChild, SessionStarting
<1>13. Session!OpenIsAlive'
  BY <1>1, <1>2, <1>6, <1>8, <1>9 DEF SessionInv, Session!OpenIsAlive, Session!Alive, SessionStarting, Session!Terminal
<1>14. SessionEndKept
  BY <1>3, <1>8 DEF SessionEndKept
<1> QED
  BY <1>7, <1>10, <1>11, <1>12, <1>13, <1>14 DEF SessionInv

-----------------------------------------------------------------------------
(* Only who follows a child that is alive is told of it. *)
LEMMA SessionPublishStep ==
  ASSUME AgentConstants, SessionInv, NEW c \in Children, NEW state \in Session!Follows, Session!Publishes(c, state)
  PROVE  SessionInv' /\ SessionEndKept
<1>1. SessionTyped /\ Session!Alive(c) /\ SessionStarted(c) /\ Session!Nobody \notin Children
  BY DEF Session!Publishes, SessionInv, AgentConstants, Session!Alive, SessionBoundFollow, Session!Nobody
<1>2. /\ \A e \in Children : bound[e] \subseteq Sessions
      /\ fresh \subseteq Children /\ missed \subseteq fresh
      /\ \A t \in Sessions : disk[t].child \in Children \cup {Session!Nobody}
  BY <1>1 DEF SessionTyped, SessionStored
<1>3. \A s \in Sessions : s \in bound[c] <=> disk[s].child = c
  BY <1>1, <1>2 DEF SessionInv, SessionBoundFollow, Session!Alive
<1>4. /\ child'[c].kind = child[c].kind /\ child'[c].state = state
      /\ \A e \in Children \ {c} : child'[e] = child[e]
      /\ child' \in [Children -> SessionKin]
  BY <1>1 DEF Session!Publishes, SessionTyped, SessionKin
<1>5. /\ UNCHANGED <<request, bound, fresh, orphans>>
      /\ missed' = IF bound[c] = {} THEN missed \cup {c} ELSE missed \ {c}
  BY DEF Session!Publishes
<1>6. \A s \in Sessions : disk[s].child # c => disk'[s] = disk[s]
  BY <1>3 DEF Session!Publishes, Session!Synced
<1>7. \A s \in Sessions : disk[s].child = c => disk'[s].state = state /\ disk'[s].child = c /\ disk'[s] \in SessionStored
  <2>1. SUFFICES ASSUME NEW s \in Sessions, disk[s].child = c
                 PROVE  disk'[s].state = state /\ disk'[s].child = c /\ disk'[s] \in SessionStored
    OBVIOUS
  <2>2. disk'[s] = [state |-> state, kind |-> child[c].kind, child |-> c,
                    success |-> IF state \notin Session!Terminal THEN disk[s].success
                                ELSE IF state = "completed" THEN "yes" ELSE "no"]
    BY <1>3, <2>1 DEF Session!Publishes, Session!Synced
  <2>3. disk[s] \in SessionStored /\ child[c].kind \in {"run", "task"}
    BY <1>1 DEF SessionTyped, SessionStarted
  <2> QED
    BY <2>2, <2>3 DEF SessionStored
<1>8. SessionTyped'
  <2>1. disk' \in [Sessions -> SessionStored]
    <3>1. \A s \in Sessions : disk'[s] \in SessionStored
      BY <1>1, <1>6, <1>7 DEF SessionTyped
    <3> QED
      BY <3>1 DEF Session!Publishes, Session!Synced
  <2>2. missed' \subseteq fresh
    BY <1>1, <1>2, <1>5 DEF Session!Alive
  <2> QED
    BY <1>1, <1>4, <1>5, <2>1, <2>2 DEF SessionTyped
<1>9. /\ \A s \in Sessions : disk'[s].child = disk[s].child
      /\ child[c].state \notin Session!Terminal /\ c \in fresh
  BY <1>1, <1>6, <1>7 DEF Session!Alive
<1>10. SessionBoundFollow'
  <2>1. \A e \in Children : SessionStarted(e) => SessionStarted(e)'
    BY <1>4 DEF SessionStarted
  <2>2. \A e \in Children : child[e].state \in Session!Terminal => child'[e].state \in Session!Terminal
    BY <1>4, <1>9
  <2> QED
    BY <1>2, <1>5, <1>9, <2>1, <2>2 DEF SessionInv, SessionBoundFollow
<1>11. SessionRequested'
  <2>1. ASSUME NEW s \in Sessions, request[s] \in Children
        PROVE  SessionStarting(s, request[s])'
    <3>1. SessionStarting(s, request[s])
      BY <2>1 DEF SessionInv, SessionRequested
    <3>2. disk[s].child = Session!Nobody \/ child'[disk[s].child].state \in Session!Terminal
      BY <1>2, <1>4, <1>9, <3>1 DEF SessionStarting
    <3>3. CASE request[s] = c
      <4>1. state \in {"running", "paused"}
        BY <3>3 DEF Session!Publishes
      <4> QED
        BY <1>4, <1>5, <1>9, <3>1, <3>2, <3>3, <4>1 DEF SessionStarting
    <3>4. CASE request[s] # c
      BY <1>4, <1>5, <1>9, <2>1, <3>1, <3>2, <3>4 DEF SessionStarting
    <3> QED
      BY <3>3, <3>4
  <2>2. ASSUME NEW s \in Sessions, request[s] \in {"resolving", "executing"}
        PROVE  disk'[s].child = Session!Nobody /\ disk'[s].state \in {"parsing", "dispatching"}
    BY <1>1, <1>6, <2>2 DEF SessionInv, SessionRequested
  <2> QED
    BY <1>5, <2>1, <2>2 DEF SessionInv, SessionRequested
<1>12. SessionBehind'
  BY <1>3, <1>5, <1>6, <1>7 DEF SessionInv, SessionBehind
<1>13. Session!MirrorsChild'
  BY <1>2, <1>4, <1>5, <1>6, <1>7, <1>9 DEF SessionInv, Session!MirrorsChild
<1>14. Session!OpenIsAlive'
  BY <1>1, <1>2, <1>4, <1>5, <1>6, <1>7, <1>9 DEF SessionInv, Session!OpenIsAlive, Session!Alive
<1>15. SessionEndKept
  <2>1. ASSUME NEW s \in Sessions, disk[s].child = c
        PROVE  disk[s].state \notin Session!Terminal
    <3>1. CASE c \in missed
      BY <2>1, <3>1 DEF SessionInv, SessionBehind, Session!Terminal
    <3>2. CASE c \notin missed
      BY <1>9, <2>1, <3>2 DEF SessionInv, Session!MirrorsChild
    <3> QED
      BY <3>1, <3>2
  <2> QED
    BY <1>6, <2>1 DEF SessionEndKept
<1> QED
  BY <1>8, <1>10, <1>11, <1>12, <1>13, <1>14 , <1>15 DEF SessionInv

LEMMA SessionRestartStep ==
  ASSUME AgentConstants, SessionInv, Session!Restart
  PROVE  SessionInv' /\ SessionEndKept
<1>1. SessionTyped /\ fresh' = {} /\ missed' = {} /\ disk' = disk /\ Session!Nobody \notin Children
  BY DEF Session!Restart, SessionInv, AgentConstants, Session!Nobody
<1>2. \A e \in Children : bound'[e] = {}
  BY DEF Session!Restart
<1>3. \A s \in Sessions : request'[s] \in {"none", "answered"}
  BY DEF Session!Restart
<1>4. \A e \in Children : SessionStarted(e) => SessionStarted(e)'
  BY <1>1 DEF Session!Restart, SessionStarted, SessionTyped, SessionKin, Session!Follows, Session!Terminal
<1>5. SessionTyped'
  <2>1. ASSUME NEW e \in Children
        PROVE  [child[e] EXCEPT !.state = "aborted"] \in SessionKin /\ child[e] \in SessionKin
    BY <1>1 DEF SessionTyped, SessionKin, Session!Follows, Session!Terminal
  <2>2. child' \in [Children -> SessionKin]
    BY <2>1 DEF Session!Restart
  <2>3. request' \in [Sessions -> {"none", "resolving", "executing", "answered"} \cup Children]
    BY DEF Session!Restart
  <2>4. bound' \in [Children -> SUBSET Sessions]
    BY DEF Session!Restart
  <2> QED
    BY <1>1, <2>2, <2>3, <2>4 DEF SessionTyped
<1>6. SessionBoundFollow'
  BY <1>1, <1>2, <1>4 DEF SessionInv, SessionBoundFollow
<1>7. SessionRequested'
  BY <1>3 DEF AgentConstants, SessionRequested, Session!Nobody
<1>8. SessionBehind' /\ Session!MirrorsChild'
  BY <1>1 DEF SessionBehind, Session!MirrorsChild
<1>9. Session!OpenIsAlive'
  BY <1>1 DEF Session!Restart, Session!OpenIsAlive
<1>10. SessionEndKept
  BY <1>1 DEF SessionEndKept
<1> QED
  BY <1>5, <1>6, <1>7, <1>8, <1>9, <1>10 DEF SessionInv

-----------------------------------------------------------------------------
LEMMA SessionInvInit == ASSUME AgentConstants PROVE Session!Init => SessionInv
<1> SUFFICES ASSUME Session!Init PROVE SessionInv
  OBVIOUS
<1>1. Session!NoSession \in SessionStored /\ Session!NoSession.child = Session!Nobody /\ Session!NoSession.state = "none"
  BY DEF Session!NoSession, SessionStored
<1>2. Session!Unstarted \in SessionKin
  BY DEF Session!Unstarted, SessionKin
<1>3. Session!Nobody \notin Children
  BY DEF AgentConstants, Session!Nobody
<1>4. SessionTyped
  BY <1>1, <1>2 DEF Session!Init, SessionTyped
<1>5. SessionBoundFollow /\ SessionRequested
  BY <1>1, <1>3 DEF Session!Init, SessionBoundFollow, SessionRequested, Session!Nobody
<1>6. SessionBehind /\ Session!MirrorsChild /\ Session!OpenIsAlive
  BY <1>1 DEF Session!Init, SessionBehind, Session!MirrorsChild, Session!OpenIsAlive
<1> QED
  BY <1>4, <1>5, <1>6 DEF SessionInv

LEMMA SessionInvStep == ASSUME AgentConstants PROVE SessionInv /\ [Session!Next]_(Session!vars) => SessionInv' /\ SessionEndKept
<1> SUFFICES ASSUME SessionInv, [Session!Next]_(Session!vars) PROVE SessionInv' /\ SessionEndKept
  OBVIOUS
<1>1. ASSUME NEW s \in Sessions, Session!StartSession(s) \/ Session!ResumeSaved(s)
      PROVE  SessionInv' /\ SessionEndKept
  BY <1>1, SessionEarlyStep, SessionSkillStep, SessionPlanStep, SessionStartedStep, SessionResumeStep DEF Session!StartSession
<1>2. ASSUME NEW c \in Children, Session!ChildEvent(c)
      PROVE  SessionInv' /\ SessionEndKept
  BY <1>2, SessionPublishStep DEF Session!ChildEvent, Session!Follows
<1>3. CASE Session!Restart
  BY <1>3, SessionRestartStep
<1>4. CASE UNCHANGED Session!vars
  <2>1. UNCHANGED <<disk, request, child, bound, fresh, orphans, missed>>
    BY <1>4 DEF Session!vars
  <2>2. SessionInv'
    BY <2>1 DEF SessionInv, SessionTyped, SessionBoundFollow, SessionStarted, SessionRequested, SessionStarting, SessionBehind, Session!MirrorsChild, Session!OpenIsAlive, Session!Alive
  <2> QED
    BY <2>1, <2>2 DEF SessionEndKept
<1> QED
  BY <1>1, <1>2, <1>3, <1>4 DEF Session!Next

LEMMA SessionMoves == [Next]_vars => [Session!Next]_(Session!vars)
BY DEF Next, vars, sessionVars, Session!vars

(* sessions.py: in every interleaving of requests, events, resumptions and    *)
(* deaths of the server a session tells the state of its child, unless that   *)
(* was paused before the session was bound to it, and one that is open has a  *)
(* request or a child that goes on with it, or was left behind by a death.    *)
THEOREM SessionsHold == Spec => []SessionsFollow
<1>1. Init => SessionInv
  BY SessionInvInit, AgentConstants DEF Init
<1>2. SessionInv /\ [Next]_vars => SessionInv'
  BY SessionInvStep, SessionMoves, AgentConstants
<1>3. SessionInv => SessionsFollow
  BY DEF SessionInv, SessionsFollow
<1> QED
  BY <1>1, <1>2, <1>3, PTL DEF Spec

(* sessions.py: the end of a session is revised by nothing but its resumption *)
(* as another run, whatever comes late from its child, from a request or from *)
(* a restart.                                                                *)
THEOREM EndsHold == Spec => EndIsFinal
<1>1. Init => SessionInv
  BY SessionInvInit, AgentConstants DEF Init
<1>2. SessionInv /\ [Next]_vars => SessionInv'
  BY SessionInvStep, SessionMoves, AgentConstants
<1>3. SessionInv /\ [Next]_vars => [SessionEndKept]_(Session!vars)
  BY SessionInvStep, SessionMoves, AgentConstants
<1>4. Spec => [][SessionEndKept]_(Session!vars)
  BY <1>1, <1>2, <1>3, PTL DEF Spec
<1> QED
  BY <1>4 DEF EndIsFinal, Session!EndIsFinal, SessionEndKept, Session!Terminal

-----------------------------------------------------------------------------
(* The event hub and its clients: events.py, routes.py.                       *)

HubPlaces == {"off", "accepted", "sending", "gone"}
HubConn   == [at : HubPlaces, queue : SUBSET Nat, plan : SUBSET Nat, got : Seq(Nat), since : Nat]

HubTyped ==
  /\ published \in Seq(BOOLEAN) /\ history \in Seq(Nat)
  /\ client \in [Clients -> HubConn]

(* The history is the numbers of the last events, up to its limit. *)
HubKept ==
  /\ Len(history) <= History /\ Len(history) <= Len(published)
  /\ Len(history) < History => Len(history) = Len(published)
  /\ \A i \in 1 .. Len(history) : history[i] = Len(published) - Len(history) + i

HubTaken(from, pub) == {e \in from .. Len(pub) : pub[e]}
HubSent(k)     == Hub!ToSet(k.got)

(* Before its first turn a WebSocket has everything since it subscribed in    *)
(* its queue, and that is not more than what is replayed.                    *)
HubWaiting(k, pub) ==
  k.at = "accepted" =>
    /\ k.since <= Len(pub) /\ Len(pub) - k.since <= Burst
    /\ k.queue = HubTaken(k.since + 1, pub) /\ k.plan = {} /\ k.got = <<>>

(* From some event on, no later than the first after the subscription, a      *)
(* client has or is going to get all that match, each once.                  *)
HubFlows(k, pub) ==
  k.at = "sending" =>
    /\ k.since <= Len(pub)
    /\ \E from \in 1 .. k.since + 1 : HubSent(k) \cup k.plan \cup k.queue = HubTaken(from, pub)
    /\ \A i, j \in DOMAIN k.got : i < j => k.got[i] < k.got[j]
    /\ \A e \in HubSent(k) : \A f \in k.plan \cup (k.queue \ HubSent(k)) : e < f

(* A replay that is not over leaves the live events that it has not after it. *)
HubApart(k) ==
  k.at = "sending" => \A e \in k.plan : \A f \in k.queue \ (k.plan \cup HubSent(k)) : e < f

HubInv == HubTyped /\ HubKept /\ \A c \in Clients : HubWaiting(client[c], published) /\ HubFlows(client[c], published) /\ HubApart(client[c])

-----------------------------------------------------------------------------
(* A sequence and what is in it. *)
LEMMA HubAdded ==
  ASSUME NEW s \in Seq(Nat), NEW e \in Nat
  PROVE  /\ Append(s, e) \in Seq(Nat) /\ Hub!ToSet(Append(s, e)) = Hub!ToSet(s) \cup {e}
         /\ (/\ \A i, j \in DOMAIN s : i < j => s[i] < s[j]
             /\ \A f \in Hub!ToSet(s) : f < e)
            => \A i, j \in DOMAIN Append(s, e) : i < j => Append(s, e)[i] < Append(s, e)[j]
<1> DEFINE t == Append(s, e)
<1>1. Len(s) \in Nat /\ DOMAIN s = 1 .. Len(s)
  BY LenProperties
<1>2. /\ t \in Seq(Nat) /\ Len(t) = Len(s) + 1 /\ t[Len(s) + 1] = e
      /\ \A j \in 1 .. Len(s) : t[j] = s[j]
  BY <1>1, AppendProperties
<1>3. DOMAIN t = 1 .. Len(s) + 1
  BY <1>2, LenProperties
<1> HIDE DEF t
<1>4. Hub!ToSet(t) = Hub!ToSet(s) \cup {e}
  BY <1>1, <1>2, <1>3 DEF Hub!ToSet
<1>5. ASSUME \A i, j \in DOMAIN s : i < j => s[i] < s[j], \A f \in Hub!ToSet(s) : f < e,
             NEW i \in DOMAIN t, NEW j \in DOMAIN t, i < j
      PROVE  t[i] < t[j]
  <2>1. i \in 1 .. Len(s) /\ t[i] = s[i] /\ s[i] \in Hub!ToSet(s)
    BY <1>1, <1>2, <1>3, <1>5 DEF Hub!ToSet
  <2>2. CASE j \in 1 .. Len(s)
    BY <1>1, <1>2, <1>5, <2>1, <2>2
  <2>3. CASE j = Len(s) + 1
    BY <1>2, <1>5, <2>1, <2>3
  <2> QED
    BY <1>1, <1>3, <2>2, <2>3
<1> QED
  BY <1>2, <1>4, <1>5 DEF t

LEMMA HubNothing == <<>> \in Seq(Nat) /\ Hub!ToSet(<<>>) = {} /\ DOMAIN <<>> = {}
<1> DEFINE none == <<>>
<1>1. none \in Seq(Nat) /\ DOMAIN none = {}
  BY EmptySeq
<1> HIDE DEF none
<1>2. Hub!ToSet(none) = {}
  BY <1>1 DEF Hub!ToSet
<1> QED
  BY <1>1, <1>2 DEF none

(* The sequence t is the last n entries of s, or all of them. *)
HubIsLatest(t, s, n, S) ==
  LET m == IF Len(s) > n THEN n ELSE Len(s)
  IN  /\ t \in Seq(S) /\ Len(t) = m
      /\ \A i \in 1 .. m : t[i] = s[Len(s) - m + i]

LEMMA HubLatestIs ==
  ASSUME NEW S, NEW s \in Seq(S), NEW n \in Nat \ {0}
  PROVE  HubIsLatest(Hub!Latest(s, n), s, n, S)
<1> DEFINE m == IF Len(s) > n THEN n ELSE Len(s)
           a == 1 + (IF Len(s) > n THEN Len(s) - n ELSE 0)
           t == SubSeq(s, a, Len(s))
<1>1. Len(s) \in Nat /\ m \in Nat /\ a = Len(s) - m + 1 /\ a \in 1 .. Len(s) + 1 /\ m <= Len(s)
  BY LenProperties
<1>2. \A i \in a .. Len(s) : s[i] \in S
  <2>1. \A i \in a .. Len(s) : i \in 1 .. Len(s)
    BY <1>1
  <2> QED
    BY <2>1, ElementOfSeq
<1>3. t = Hub!Latest(s, n)
  BY DEF Hub!Latest
<1> HIDE DEF m, a
<1>4. /\ t \in Seq(S) /\ Len(t) = (IF a <= Len(s) THEN Len(s) - a + 1 ELSE 0)
      /\ \A i \in 1 .. Len(s) - a + 1 : t[i] = s[a + i - 1]
  BY <1>1, <1>2, SubSeqProperties
<1> HIDE DEF t
<1>5. Len(t) = m
  BY <1>1, <1>4
<1>6. \A i \in 1 .. m : t[i] = s[Len(s) - m + i]
  <2> SUFFICES ASSUME NEW i \in 1 .. m PROVE t[i] = s[Len(s) - m + i]
    OBVIOUS
  <2>1. i \in 1 .. Len(s) - a + 1 /\ a + i - 1 = Len(s) - m + i
    BY <1>1
  <2> QED
    BY <1>4, <2>1
<1> QED
  BY <1>3, <1>4, <1>5, <1>6 DEF m, HubIsLatest

-----------------------------------------------------------------------------
LEMMA HubNumbers ==
  ASSUME HubTyped
  PROVE  Len(published) \in Nat /\ DOMAIN published = 1 .. Len(published) /\ Len(history) \in Nat
BY LenProperties DEF HubTyped

(* What is replayed is the matching ones of the last events. *)
LEMMA HubRecentIs ==
  ASSUME AgentConstants, HubTyped, HubKept
  PROVE  \E w \in 1 .. Len(published) + 1 :
           /\ Hub!Recent = HubTaken(w, published)
           /\ w <= 1 \/ Len(published) + 1 - w >= Burst
<1> DEFINE m == IF Len(history) > Replay THEN Replay ELSE Len(history)
           t == Hub!Latest(history, Replay)
           w == Len(published) + 1 - m
<1>1. /\ t \in Seq(Nat) /\ Len(t) = m
      /\ \A i \in 1 .. m : t[i] = history[Len(history) - m + i]
  <2>1. history \in Seq(Nat) /\ Replay \in Nat \ {0}
    BY DEF HubTyped, AgentConstants
  <2>2. HubIsLatest(t, history, Replay, Nat)
    BY <2>1, HubLatestIs
  <2> HIDE DEF t
  <2> QED
    BY <2>2 DEF HubIsLatest
<1>2. /\ Len(published) \in Nat /\ Len(history) \in Nat /\ m \in Nat
      /\ m <= Len(history) /\ Len(history) <= Len(published)
      /\ w \in 1 .. Len(published) + 1
      /\ w <= 1 \/ Len(published) + 1 - w >= Burst
  <2>1. Len(published) \in Nat /\ Len(history) \in Nat
    BY HubNumbers
  <2>2. /\ Len(history) <= History /\ Len(history) <= Len(published)
        /\ Len(history) < History => Len(history) = Len(published)
    BY DEF HubKept
  <2>3. /\ History \in Nat /\ Replay \in Nat /\ Burst \in Nat
        /\ Burst <= History /\ Burst <= Replay
    BY DEF AgentConstants
  <2>4. m \in Nat /\ m <= Len(history) /\ (m = Len(history) \/ m = Replay)
    BY <2>1, <2>3
  <2> HIDE DEF m
  <2> QED
    BY <2>1, <2>2, <2>3, <2>4
<1> HIDE DEF m, t
<1>3. Hub!ToSet(t) = w .. Len(published)
  <2>1. DOMAIN t = 1 .. m
    BY <1>1, LenProperties
  <2>2. \A i \in 1 .. m : t[i] = Len(published) - m + i
    <3> SUFFICES ASSUME NEW i \in 1 .. m PROVE t[i] = Len(published) - m + i
      OBVIOUS
    <3> DEFINE j == Len(history) - m + i
    <3>1. j \in 1 .. Len(history) /\ Len(published) - Len(history) + j = Len(published) - m + i
      BY <1>2
    <3>2. t[i] = history[j]
      BY <1>1
    <3> HIDE DEF j
    <3> QED
      BY <3>1, <3>2 DEF HubKept
  <2>3. ASSUME NEW e \in w .. Len(published) PROVE e \in Hub!ToSet(t)
    <3> DEFINE i == e - (w - 1)
    <3>1. i \in 1 .. m /\ Len(published) - m + i = e
      BY <1>2
    <3> HIDE DEF i
    <3> QED
      BY <2>1, <2>2, <3>1 DEF Hub!ToSet
  <2>4. ASSUME NEW i \in 1 .. m PROVE Len(published) - m + i \in w .. Len(published)
    BY <1>2
  <2>5. \A i \in DOMAIN t : t[i] \in w .. Len(published)
    BY <2>1, <2>2, <2>4
  <2> QED
    BY <2>3, <2>5 DEF Hub!ToSet
<1>4. Hub!Recent = HubTaken(w, published)
  BY <1>3 DEF Hub!Recent, HubTaken, Hub!Matches, t
<1> HIDE DEF w
<1> QED
  BY <1>2, <1>4

(* A connection that is new, or has gone. *)
LEMMA HubOffIsConn ==
  /\ Hub!Off \in HubConn /\ Hub!Off.at = "off" /\ Hub!Off.queue = {} /\ Hub!Off.plan = {} /\ Hub!Off.got = <<>> /\ Hub!Off.since = 0
  /\ [Hub!Off EXCEPT !.at = "gone"] \in HubConn /\ [Hub!Off EXCEPT !.at = "gone"].at = "gone"
BY HubNothing DEF Hub!Off, HubConn, HubPlaces

(* A step of one connection. *)
LEMMA HubOneKeeps ==
  ASSUME HubInv, UNCHANGED <<published, history>>, NEW c \in Clients, NEW k \in HubConn,
         client' = [client EXCEPT ![c] = k], HubWaiting(k, published), HubFlows(k, published), HubApart(k)
  PROVE  HubInv'
<1>1. HubTyped' /\ HubKept'
  BY DEF HubInv, HubTyped, HubKept
<1>2. ASSUME NEW b \in Clients
      PROVE  HubWaiting(client'[b], published') /\ HubFlows(client'[b], published') /\ HubApart(client'[b])
  <2>1. client'[b] = IF b = c THEN k ELSE client[b]
    BY DEF HubInv, HubTyped
  <2> QED
    BY <2>1 DEF HubInv
<1> QED
  BY <1>1, <1>2 DEF HubInv

-----------------------------------------------------------------------------
(* A new event has the next number, and is in the history. *)
LEMMA HubPublishedKeeps ==
  ASSUME AgentConstants, HubTyped, HubKept, NEW taken \in BOOLEAN,
         published' = Append(published, taken),
         history' = Hub!Latest(Append(history, Len(published')), History)
  PROVE  /\ published' \in Seq(BOOLEAN) /\ history' \in Seq(Nat) /\ HubKept'
         /\ Len(published') = Len(published) + 1 /\ published'[Len(published) + 1] = taken
         /\ \A i \in 1 .. Len(published) : published'[i] = published[i]
<1> DEFINE n == Len(published) + 1
           h == Append(history, n)
           m == IF Len(h) > History THEN History ELSE Len(h)
<1>1. /\ published' \in Seq(BOOLEAN) /\ Len(published') = n /\ published'[n] = taken
      /\ \A i \in 1 .. Len(published) : published'[i] = published[i]
  BY AppendProperties DEF HubTyped
<1>2. Len(published) \in Nat /\ Len(history) \in Nat /\ n \in Nat
  BY HubNumbers
<1>3. /\ h \in Seq(Nat) /\ Len(h) = Len(history) + 1 /\ h[Len(history) + 1] = n
      /\ \A i \in 1 .. Len(history) : h[i] = history[i]
  <2> HIDE DEF n
  <2>1. history \in Seq(Nat) /\ n \in Nat
    BY <1>2 DEF HubTyped
  <2> QED
    BY <2>1, AppendProperties
<1>4. history' = Hub!Latest(h, History)
  BY <1>1
<1>5. /\ Len(history) <= History /\ Len(history) <= Len(published)
      /\ Len(history) < History => Len(history) = Len(published)
      /\ \A i \in 1 .. Len(history) : history[i] = Len(published) - Len(history) + i
  BY DEF HubKept
<1>6. History \in Nat \ {0}
  BY DEF AgentConstants
<1> HIDE DEF h
<1>7. /\ history' \in Seq(Nat) /\ Len(history') = m
      /\ \A i \in 1 .. m : history'[i] = h[Len(h) - m + i]
  <2>1. h \in Seq(Nat)
    BY <1>3
  <2>2. HubIsLatest(Hub!Latest(h, History), h, History, Nat)
    BY <1>6, <2>1, HubLatestIs
  <2>3. HubIsLatest(history', h, History, Nat)
    BY <1>4, <2>2
  <2> QED
    BY <2>3 DEF HubIsLatest
<1>8. ASSUME NEW j \in 1 .. Len(h) PROVE h[j] = n - Len(h) + j
  <2>1. CASE j = Len(h)
    BY <1>2, <1>3, <2>1
  <2>2. CASE j # Len(h)
    <3>1. j \in 1 .. Len(history)
      BY <1>2, <1>3, <2>2
    <3>2. h[j] = Len(published) - Len(history) + j
      BY <1>3, <1>5, <3>1
    <3> QED
      BY <1>2, <1>3, <3>1, <3>2
  <2> QED
    BY <2>1, <2>2
<1>9. m \in Nat /\ m <= Len(h) /\ m <= History /\ m <= n /\ (m < History => m = n)
  BY <1>2, <1>3, <1>5, <1>6
<1> HIDE DEF m
<1>10. ASSUME NEW i \in 1 .. m PROVE history'[i] = n - m + i
  <2> DEFINE j == Len(h) - m + i
  <2>1. j \in 1 .. Len(h) /\ n - Len(h) + j = n - m + i
    BY <1>2, <1>3, <1>9
  <2>2. history'[i] = h[j]
    BY <1>7
  <2> HIDE DEF j
  <2> QED
    BY <1>8, <2>1, <2>2
<1>11. HubKept'
  BY <1>1, <1>7, <1>9, <1>10 DEF HubKept
<1> QED
  BY <1>1, <1>7, <1>11

LEMMA HubPublishKeeps ==
  ASSUME AgentConstants, HubInv, NEW taken \in BOOLEAN, Hub!Publish(taken)
  PROVE  HubInv'
<1> DEFINE n   == Len(published) + 1
           new == IF taken THEN {n} ELSE {}
           Next1(k) == IF k.at \notin {"off", "gone"} /\ taken
                       THEN [k EXCEPT !.queue = k.queue \cup {n}] ELSE k
<1>1. /\ published' \in Seq(BOOLEAN) /\ history' \in Seq(Nat) /\ HubKept'
      /\ Len(published') = n /\ published'[n] = taken
      /\ \A i \in 1 .. Len(published) : published'[i] = published[i]
  BY HubPublishedKeeps DEF Hub!Publish, HubInv
<1>2. Len(published) \in Nat /\ n \in Nat /\ n = Len(published) + 1
  BY HubNumbers DEF HubInv
<1>3. client \in [Clients -> HubConn]
  BY DEF HubInv, HubTyped
<1>4. client' = [c \in Clients |-> Next1(client[c])]
  BY <1>1 DEF Hub!Publish, Hub!Subscribed
<1>5. \A k \in HubConn :
        /\ Next1(k) \in HubConn /\ Next1(k).at = k.at /\ Next1(k).plan = k.plan
        /\ Next1(k).got = k.got /\ Next1(k).since = k.since
        /\ k.at \in {"accepted", "sending"} => Next1(k).queue = k.queue \cup new
  BY <1>2 DEF HubConn
<1> HIDE DEF n, Next1
<1>6. client' \in [Clients -> HubConn] /\ \A c \in Clients : client'[c] = Next1(client[c])
  BY <1>3, <1>4, <1>5
<1>7. \A from \in 1 .. n : HubTaken(from, published') = HubTaken(from, published) \cup new
  <2> SUFFICES ASSUME NEW from \in 1 .. n
               PROVE  HubTaken(from, published') = HubTaken(from, published) \cup new
    OBVIOUS
  <2>1. from .. Len(published') = from .. Len(published) \cup {n}
    BY <1>1, <1>2
  <2>2. \A e \in from .. Len(published) : published'[e] = published[e]
    BY <1>1, <1>2
  <2> QED
    BY <1>1, <2>1, <2>2 DEF HubTaken
<1>8. ASSUME NEW c \in Clients
      PROVE  HubWaiting(client'[c], published') /\ HubFlows(client'[c], published') /\ HubApart(client'[c])
  <2> DEFINE k == client[c]
             l == client'[c]
  <2>1. k \in HubConn /\ HubWaiting(k, published) /\ HubFlows(k, published) /\ HubApart(k)
    BY <1>3 DEF HubInv
  <2>2. /\ l.at = k.at /\ l.plan = k.plan /\ l.got = k.got /\ l.since = k.since
        /\ k.at \in {"accepted", "sending"} => l.queue = k.queue \cup new
    BY <1>5, <1>6, <2>1
  <2>3. k.at = "accepted" => Len(published) - k.since < Burst
    BY DEF Hub!Publish
  <2>4. Burst \in Nat
    BY DEF AgentConstants
  <2> HIDE DEF k, l, new
  <2>5. k.since \in Nat /\ HubSent(l) = HubSent(k)
    BY <2>1, <2>2 DEF HubConn, HubSent
  <2>6. HubWaiting(l, published')
    <3> SUFFICES ASSUME l.at = "accepted" PROVE HubWaiting(l, published')
      BY DEF HubWaiting
    <3>1. k.since <= Len(published) /\ k.since + 1 \in 1 .. n
      BY <1>2, <2>1, <2>2, <2>5 DEF HubWaiting
    <3>2. l.since <= Len(published') /\ Len(published') - l.since <= Burst
      BY <1>1, <1>2, <2>2, <2>3, <2>4, <2>5, <3>1
    <3>3. l.queue = HubTaken(l.since + 1, published') /\ l.plan = {} /\ l.got = <<>>
      BY <1>7, <2>1, <2>2, <3>1 DEF HubWaiting
    <3> QED
      BY <3>2, <3>3 DEF HubWaiting
  <2>7. /\ l.at = "sending" => /\ k.since <= Len(published)
                               /\ \A e \in HubSent(k) \cup k.plan \cup k.queue : e \in 1 .. Len(published)
        /\ \A e \in new : e = n
    BY <1>2, <2>1, <2>2, <2>5 DEF HubFlows, HubTaken, new
  <2>8. HubFlows(l, published')
    <3> SUFFICES ASSUME l.at = "sending" PROVE HubFlows(l, published')
      BY DEF HubFlows
    <3>1. PICK from \in 1 .. k.since + 1 : HubSent(k) \cup k.plan \cup k.queue = HubTaken(from, published)
      BY <2>1, <2>2 DEF HubFlows
    <3>2. from \in 1 .. n
      BY <1>2, <2>5, <2>7
    <3>3. HubSent(l) \cup l.plan \cup l.queue = HubTaken(from, published')
      BY <1>7, <2>2, <2>5, <3>1, <3>2
    <3>4. l.since <= Len(published') /\ from \in 1 .. l.since + 1
      BY <1>1, <1>2, <2>2, <2>5, <2>7
    <3>5. \A i, j \in DOMAIN l.got : i < j => l.got[i] < l.got[j]
      BY <2>1, <2>2 DEF HubFlows
    <3>6. \A e \in HubSent(l) : \A f \in l.plan \cup (l.queue \ HubSent(l)) : e < f
      <4> SUFFICES ASSUME NEW e \in HubSent(k), NEW f \in k.plan \cup ((k.queue \cup new) \ HubSent(k))
                   PROVE  e < f
        BY <2>2, <2>5
      <4>1. CASE f \in new
        BY <1>2, <2>7, <4>1
      <4>2. CASE f \notin new
        BY <2>1, <2>2, <4>2 DEF HubFlows
      <4> QED
        BY <4>1, <4>2
    <3> QED
      BY <3>3, <3>4, <3>5, <3>6 DEF HubFlows
  <2>9. HubApart(l)
    <3> SUFFICES ASSUME l.at = "sending", NEW e \in k.plan, NEW f \in (k.queue \cup new) \ (k.plan \cup HubSent(k))
                 PROVE  e < f
      BY <2>2, <2>5 DEF HubApart
    <3>1. CASE f \in new
      BY <1>2, <2>7, <3>1
    <3>2. CASE f \notin new
      BY <2>1, <2>2, <3>2 DEF HubApart
    <3> QED
      BY <3>1, <3>2
  <2> QED
    BY <2>6, <2>8, <2>9 DEF l
<1> QED
  BY <1>1, <1>6, <1>8 DEF HubInv, HubTyped

-----------------------------------------------------------------------------
LEMMA HubSubscribeKeeps ==
  ASSUME AgentConstants, HubInv, NEW c \in Clients, Hub!Stream(c) \/ Hub!Accept(c) \/ Hub!Disconnect(c)
  PROVE  HubInv'
<1>1. Len(published) \in Nat /\ HubSent(Hub!Off) = {} /\ Hub!Off \in HubConn
  BY HubNumbers, HubNothing, HubOffIsConn DEF HubInv, HubSent
<1>2. CASE Hub!Stream(c)
  <2> DEFINE k == [Hub!Off EXCEPT !.at = "sending", !.plan = Hub!Recent, !.since = Len(published)]
  <2>1. PICK w \in 1 .. Len(published) + 1 : Hub!Recent = HubTaken(w, published)
    BY HubRecentIs DEF HubInv
  <2>2. /\ k.at = "sending" /\ k.plan = Hub!Recent /\ k.since = Len(published)
        /\ k.queue = {} /\ k.got = <<>>
    BY DEF Hub!Off
  <2>3. HubTaken(w, published) \subseteq Nat
    BY <2>1 DEF HubTaken
  <2>4. k \in HubConn
    BY <1>1, <2>1, <2>3 DEF HubConn, HubPlaces, Hub!Off
  <2>5. client' = [client EXCEPT ![c] = k] /\ UNCHANGED <<published, history>>
    BY <1>2 DEF Hub!Stream
  <2> HIDE DEF k
  <2>6. HubSent(k) = {} /\ DOMAIN k.got = {}
    BY <2>2, HubNothing DEF HubSent
  <2>7. HubSent(k) \cup k.plan \cup k.queue = HubTaken(w, published) /\ w \in 1 .. k.since + 1
    BY <2>1, <2>2, <2>6
  <2>8. HubWaiting(k, published) /\ HubApart(k)
    BY <2>2 DEF HubWaiting, HubApart
  <2>9. HubFlows(k, published)
    BY <1>1, <2>2, <2>6, <2>7 DEF HubFlows
  <2> QED
    BY <2>4, <2>5, <2>8, <2>9, HubOneKeeps
<1>3. CASE Hub!Accept(c)
  <2> DEFINE k == [Hub!Off EXCEPT !.at = "accepted", !.since = Len(published)]
  <2>1. /\ k.at = "accepted" /\ k.plan = {} /\ k.since = Len(published)
        /\ k.queue = {} /\ k.got = <<>>
    BY DEF Hub!Off
  <2>2. k \in HubConn
    BY <1>1 DEF HubConn, HubPlaces, Hub!Off
  <2>3. client' = [client EXCEPT ![c] = k] /\ UNCHANGED <<published, history>>
    BY <1>3 DEF Hub!Accept
  <2> HIDE DEF k
  <2>4. HubTaken(k.since + 1, published) = {}
    BY <1>1, <2>1 DEF HubTaken
  <2>5. HubWaiting(k, published) /\ HubFlows(k, published) /\ HubApart(k)
    BY <1>1, <2>1, <2>4 DEF HubWaiting, HubFlows, HubApart, AgentConstants
  <2> QED
    BY <2>2, <2>3, <2>5, HubOneKeeps
<1>4. CASE Hub!Disconnect(c)
  <2> DEFINE k == [Hub!Off EXCEPT !.at = "gone"]
  <2>1. k \in HubConn /\ k.at = "gone"
    BY HubOffIsConn
  <2>2. client' = [client EXCEPT ![c] = k] /\ UNCHANGED <<published, history>>
    BY <1>4 DEF Hub!Disconnect
  <2> HIDE DEF k
  <2>3. HubWaiting(k, published) /\ HubFlows(k, published) /\ HubApart(k)
    BY <2>1 DEF HubWaiting, HubFlows, HubApart
  <2> QED
    BY <2>1, <2>2, <2>3, HubOneKeeps
<1> QED
  BY <1>2, <1>3, <1>4

(* The replay of a WebSocket reaches back to its subscription. *)
LEMMA HubForwardKeeps ==
  ASSUME AgentConstants, HubInv, NEW c \in Clients, Hub!Forward(c)
  PROVE  HubInv'
<1> DEFINE old == client[c]
           k   == [old EXCEPT !.at = "sending", !.plan = Hub!Recent]
<1>1. Len(published) \in Nat /\ Burst \in Nat
  BY HubNumbers DEF HubInv, AgentConstants
<1>2. old \in HubConn /\ HubWaiting(old, published) /\ old.at = "accepted"
  BY DEF HubInv, HubTyped, Hub!Forward
<1>3. PICK w \in 1 .. Len(published) + 1 :
        Hub!Recent = HubTaken(w, published) /\ (w <= 1 \/ Len(published) + 1 - w >= Burst)
  BY HubRecentIs DEF HubInv
<1>4. client' = [client EXCEPT ![c] = k] /\ UNCHANGED <<published, history>>
  BY DEF Hub!Forward
<1>5. HubTaken(w, published) \subseteq Nat
  BY DEF HubTaken
<1> HIDE DEF old
<1>6. /\ k \in HubConn /\ k.at = "sending" /\ k.plan = HubTaken(w, published)
      /\ k.since = old.since /\ k.queue = old.queue /\ k.got = old.got
  BY <1>2, <1>3, <1>5 DEF HubConn, HubPlaces
<1> HIDE DEF k
<1>7. /\ old.since \in Nat /\ old.since <= Len(published) /\ Len(published) - old.since <= Burst
      /\ old.queue = HubTaken(old.since + 1, published) /\ old.got = <<>>
  BY <1>2 DEF HubWaiting, HubConn
<1>8. w \in 1 .. old.since + 1
  BY <1>1, <1>3, <1>7
<1>9. old.queue \subseteq HubTaken(w, published)
  BY <1>7, <1>8 DEF HubTaken
<1>10. HubSent(k) = {} /\ DOMAIN k.got = {}
  BY <1>6, <1>7, HubNothing DEF HubSent
<1>11. HubSent(k) \cup k.plan \cup k.queue = HubTaken(w, published) /\ w \in 1 .. k.since + 1
  BY <1>6, <1>8, <1>9, <1>10
<1>12. HubFlows(k, published)
  BY <1>6, <1>7, <1>10, <1>11 DEF HubFlows
<1>13. HubWaiting(k, published) /\ HubApart(k)
  BY <1>6, <1>9 DEF HubWaiting, HubApart
<1> QED
  BY <1>4, <1>6, <1>12, <1>13, HubOneKeeps

LEMMA HubReplaysKeeps ==
  ASSUME HubInv, NEW c \in Clients, NEW e \in DOMAIN published, Hub!Replays(c, e)
  PROVE  HubInv'
<1> DEFINE old == client[c]
           k   == [old EXCEPT !.plan = old.plan \ {e}, !.got = Append(old.got, e)]
<1>1. /\ old \in HubConn /\ HubFlows(old, published) /\ HubApart(old) /\ old.at = "sending"
      /\ e \in old.plan /\ \A f \in old.plan : e <= f
  BY DEF HubInv, HubTyped, Hub!Replays, Hub!First
<1>2. client' = [client EXCEPT ![c] = k] /\ UNCHANGED <<published, history>>
  BY DEF Hub!Replays
<1>3. e \in Nat /\ old.got \in Seq(Nat) /\ old.plan \subseteq Nat /\ old.queue \subseteq Nat
  BY <1>1 DEF HubConn
<1>4. /\ \A i, j \in DOMAIN old.got : i < j => old.got[i] < old.got[j]
      /\ \A f \in HubSent(old) : f < e
  BY <1>1 DEF HubFlows
<1> DEFINE got == Append(old.got, e)
<1>5. /\ got \in Seq(Nat) /\ Hub!ToSet(got) = HubSent(old) \cup {e}
      /\ \A i, j \in DOMAIN got : i < j => got[i] < got[j]
  BY <1>3, <1>4, HubAdded DEF HubSent
<1> HIDE DEF old, got
<1>6. /\ k \in HubConn /\ k.at = "sending" /\ k.plan = old.plan \ {e} /\ k.queue = old.queue
      /\ k.since = old.since /\ k.got = got
  BY <1>1, <1>3, <1>5 DEF HubConn, got
<1> HIDE DEF k
<1>7. HubSent(k) = HubSent(old) \cup {e}
  BY <1>5, <1>6 DEF HubSent
<1>8. \A f \in k.plan \cup (k.queue \ HubSent(k)) : e < f
  <2> SUFFICES ASSUME NEW f \in (old.plan \ {e}) \cup (old.queue \ (HubSent(old) \cup {e})) PROVE e < f
    BY <1>6, <1>7
  <2>1. CASE f \in old.plan
    BY <1>1, <1>3, <2>1
  <2>2. CASE f \notin old.plan
    BY <1>1, <2>2 DEF HubApart
  <2> QED
    BY <2>1, <2>2
<1>9. HubFlows(k, published)
  <2>1. HubSent(k) \cup k.plan \cup k.queue = HubSent(old) \cup old.plan \cup old.queue
    BY <1>1, <1>6, <1>7
  <2>2. \A f \in HubSent(old) : \A g \in k.plan \cup (k.queue \ HubSent(k)) : f < g
    BY <1>1, <1>6, <1>7 DEF HubFlows
  <2>3. /\ k.since <= Len(published)
        /\ \E from \in 1 .. k.since + 1 : HubSent(k) \cup k.plan \cup k.queue = HubTaken(from, published)
    BY <1>1, <1>6, <2>1 DEF HubFlows
  <2>4. \A i, j \in DOMAIN k.got : i < j => k.got[i] < k.got[j]
    BY <1>5, <1>6
  <2>5. \A f \in HubSent(k) : \A g \in k.plan \cup (k.queue \ HubSent(k)) : f < g
    BY <1>7, <1>8, <2>2
  <2> QED
    BY <2>3, <2>4, <2>5 DEF HubFlows
<1>10. HubWaiting(k, published) /\ HubApart(k)
  BY <1>1, <1>6, <1>7 DEF HubWaiting, HubApart
<1> QED
  BY <1>2, <1>6, <1>9, <1>10, HubOneKeeps

LEMMA HubForwardsKeeps ==
  ASSUME HubInv, NEW c \in Clients, NEW e \in DOMAIN published, Hub!Forwards(c, e)
  PROVE  HubInv'
<1> DEFINE old == client[c]
           got == IF e \in Hub!ToSet(old.got) THEN old.got ELSE Append(old.got, e)
           k   == [old EXCEPT !.queue = old.queue \ {e}, !.got = got]
<1>1. /\ old \in HubConn /\ HubFlows(old, published) /\ HubApart(old) /\ old.at = "sending" /\ old.plan = {}
      /\ e \in old.queue /\ \A f \in old.queue : e <= f
  BY DEF HubInv, HubTyped, Hub!Forwards, Hub!First
<1>2. client' = [client EXCEPT ![c] = k] /\ UNCHANGED <<published, history>>
  BY DEF Hub!Forwards
<1>3. e \in Nat /\ old.got \in Seq(Nat) /\ old.queue \subseteq Nat
  BY <1>1 DEF HubConn
<1>4. /\ \A i, j \in DOMAIN old.got : i < j => old.got[i] < old.got[j]
      /\ e \notin HubSent(old) => \A f \in HubSent(old) : f < e
  BY <1>1 DEF HubFlows
<1>5. /\ got \in Seq(Nat) /\ Hub!ToSet(got) = HubSent(old) \cup {e}
      /\ \A i, j \in DOMAIN got : i < j => got[i] < got[j]
  <2>1. CASE e \in HubSent(old)
    BY <1>3, <1>4, <2>1 DEF HubSent
  <2>2. CASE e \notin HubSent(old)
    <3> DEFINE t == Append(old.got, e)
    <3>1. got = t
      BY <2>2 DEF HubSent
    <3>2. /\ t \in Seq(Nat) /\ Hub!ToSet(t) = HubSent(old) \cup {e}
          /\ \A i, j \in DOMAIN t : i < j => t[i] < t[j]
      BY <1>3, <1>4, <2>2, HubAdded DEF HubSent
    <3> HIDE DEF t, got
    <3> QED
      BY <3>1, <3>2
  <2> QED
    BY <2>1, <2>2
<1> HIDE DEF old, got
<1>6. /\ k \in HubConn /\ k.at = "sending" /\ k.plan = {} /\ k.queue = old.queue \ {e}
      /\ k.since = old.since /\ k.got = got
  BY <1>1, <1>3, <1>5 DEF HubConn
<1> HIDE DEF k
<1>7. HubSent(k) = HubSent(old) \cup {e}
  BY <1>5, <1>6 DEF HubSent
<1>8. \A f \in k.queue \ HubSent(k) : e < f
  BY <1>1, <1>3, <1>6, <1>7
<1>9. HubFlows(k, published)
  <2>1. HubSent(k) \cup k.plan \cup k.queue = HubSent(old) \cup old.plan \cup old.queue
    BY <1>1, <1>6, <1>7
  <2>2. \A f \in HubSent(old) : \A g \in k.queue \ HubSent(k) : f < g
    BY <1>1, <1>6, <1>7 DEF HubFlows
  <2>3. /\ k.since <= Len(published)
        /\ \E from \in 1 .. k.since + 1 : HubSent(k) \cup k.plan \cup k.queue = HubTaken(from, published)
    BY <1>1, <1>6, <2>1 DEF HubFlows
  <2>4. \A i, j \in DOMAIN k.got : i < j => k.got[i] < k.got[j]
    BY <1>5, <1>6
  <2>5. \A f \in HubSent(k) : \A g \in k.plan \cup (k.queue \ HubSent(k)) : f < g
    BY <1>6, <1>7, <1>8, <2>2
  <2> QED
    BY <2>3, <2>4, <2>5 DEF HubFlows
<1>10. HubWaiting(k, published) /\ HubApart(k)
  BY <1>6 DEF HubWaiting, HubApart
<1> QED
  BY <1>2, <1>6, <1>9, <1>10, HubOneKeeps

-----------------------------------------------------------------------------
LEMMA HubInvInit == ASSUME AgentConstants PROVE Hub!Init => HubInv
<1> SUFFICES ASSUME Hub!Init PROVE HubInv
  OBVIOUS
<1> DEFINE none == <<>>
<1>1. none \in Seq(BOOLEAN) /\ none \in Seq(Nat) /\ Len(none) = 0
  BY EmptySeq
<1>2. published = none /\ history = none
  BY DEF Hub!Init
<1> HIDE DEF none
<1>3. client \in [Clients -> HubConn] /\ \A c \in Clients : client[c] = Hub!Off
  BY HubOffIsConn DEF Hub!Init
<1>4. HubTyped /\ HubKept
  BY <1>1, <1>2, <1>3 DEF HubTyped, HubKept, AgentConstants
<1>5. \A c \in Clients : HubWaiting(client[c], published) /\ HubFlows(client[c], published) /\ HubApart(client[c])
  BY <1>3, HubOffIsConn DEF HubWaiting, HubFlows, HubApart
<1> QED
  BY <1>4, <1>5 DEF HubInv

LEMMA HubInvStep == ASSUME AgentConstants PROVE HubInv /\ [Hub!Next]_(Hub!vars) => HubInv'
<1> SUFFICES ASSUME HubInv, [Hub!Next]_(Hub!vars) PROVE HubInv'
  OBVIOUS
<1>1. CASE UNCHANGED Hub!vars
  BY <1>1 DEF Hub!vars, HubInv, HubTyped, HubKept
<1> QED
  BY <1>1, HubPublishKeeps, HubSubscribeKeeps, HubForwardKeeps, HubReplaysKeeps, HubForwardsKeeps DEF Hub!Next

LEMMA HubInvHolds ==
  ASSUME AgentConstants, HubInv
  PROVE  Hub!TypeOK /\ Hub!StreamIsGapless
<1>1. Hub!TypeOK
  BY DEF HubInv, HubTyped, HubKept, Hub!TypeOK, HubConn, HubPlaces
<1>2. Hub!StreamIsGapless
  <2> SUFFICES ASSUME NEW c \in Clients, client[c].at = "sending"
               PROVE  LET k    == client[c]
                          sent == Hub!ToSet(k.got)
                          all  == sent \cup k.plan \cup k.queue
                      IN  /\ \A i, j \in DOMAIN k.got : i < j => k.got[i] < k.got[j]
                          /\ \A e \in sent : \A f \in k.plan \cup (k.queue \ sent) : e < f
                          /\ \A e \in all : e \in DOMAIN published /\ Hub!Matches(e)
                          /\ \A e \in DOMAIN published :
                               Hub!Matches(e) /\ (e > k.since \/ \E f \in all : f < e) => e \in all
    BY DEF Hub!StreamIsGapless
  <2> DEFINE k   == client[c]
             all == Hub!ToSet(k.got) \cup k.plan \cup k.queue
  <2>1. HubFlows(k, published) /\ k \in HubConn
    BY DEF HubInv, HubTyped
  <2>2. Len(published) \in Nat /\ DOMAIN published = 1 .. Len(published) /\ k.since \in Nat
    BY <2>1, HubNumbers DEF HubInv, HubConn
  <2>3. PICK from \in 1 .. k.since + 1 : all = HubTaken(from, published)
    BY <2>1 DEF HubFlows, HubSent
  <2>4. /\ \A i, j \in DOMAIN k.got : i < j => k.got[i] < k.got[j]
        /\ \A e \in Hub!ToSet(k.got) : \A f \in k.plan \cup (k.queue \ Hub!ToSet(k.got)) : e < f
    BY <2>1 DEF HubFlows, HubSent
  <2> HIDE DEF all, k
  <2>5. \A e \in all : e \in DOMAIN published /\ Hub!Matches(e)
    BY <2>2, <2>3 DEF HubTaken, Hub!Matches
  <2>6. ASSUME NEW e \in DOMAIN published, Hub!Matches(e), e > k.since \/ \E f \in all : f < e
        PROVE  e \in all
    <3>1. e >= from
      BY <2>2, <2>3, <2>6 DEF HubTaken
    <3> QED
      BY <2>2, <2>3, <2>6, <3>1 DEF HubTaken, Hub!Matches
  <2> QED
    BY <2>4, <2>5, <2>6 DEF all, k
<1> QED
  BY <1>1, <1>2

LEMMA HubMoves == [Next]_vars => [Hub!Next]_(Hub!vars)
BY DEF Next, vars, hubVars, Hub!vars

(* events.py, routes.py: for any number of clients and events, a client is    *)
(* sent every event it asked for from the first one it got on and since it     *)
(* subscribed, once and in order, as long as a WebSocket has its first turn    *)
(* before more events come than are replayed.                                *)
THEOREM StreamsGapless == Spec => []StreamIsGapless
<1>1. Init => HubInv
  BY HubInvInit, AgentConstants DEF Init
<1>2. HubInv /\ [Next]_vars => HubInv'
  BY HubInvStep, HubMoves, AgentConstants
<1>3. HubInv => StreamIsGapless
  BY HubInvHolds, AgentConstants DEF StreamIsGapless
<1> QED
  BY <1>1, <1>2, <1>3, PTL DEF Spec

-----------------------------------------------------------------------------
(* The passive monitor: passive.py.                                           *)

MonitorPlaces == {"none", "begun", "sleeping", "looking", "checking", "custom", "acting", "ended"}
MonitorCauses == {"none", "screen", "restart", "escalate", "custom"}
MonitorRecord == [at : MonitorPlaces, time : Nat, svc : Nat, for : MonitorCauses, cancel : BOOLEAN]

(* A loop that looks at a service, or acts for one, knows which. *)
MonitorFits(r) ==
  /\ r \in MonitorRecord
  /\ r.at = "checking" \/ (r.at = "acting" /\ r.for \in {"restart", "escalate"}) => r.svc \in Services

MonitorTyped ==
  /\ now \in Nat /\ running \in BOOLEAN /\ overlapped \in BOOLEAN
  /\ handle \in Loops \cup {Monitor!NoLoop} /\ stopping \subseteq Loops
  /\ loop \in [Loops -> MonitorRecord] /\ \A l \in Loops : MonitorFits(loop[l])
  /\ service \in [Services -> [count : 0 .. MaxRestarts, last : Nat]]

(* The loop stop() can reach is the one there is, and the one every suspended *)
(* stop() waits for.                                                         *)
MonitorOneLoop ==
  ~overlapped =>
    /\ \A l \in Loops : Monitor!Alive(l) => l = handle
    /\ running => stopping = {}
    /\ ~running /\ stopping = {} => \A l \in Loops : ~Monitor!Alive(l)
    /\ stopping \subseteq {handle}

(* The history of restarts is what the code remembers of them. *)
MonitorRemembered ==
  /\ tried \in [Services -> Nat] /\ \A s \in Services : tried[s] = service[s].last
  /\ ~rushed

MonitorInv == MonitorTyped /\ MonitorOneLoop /\ MonitorRemembered

-----------------------------------------------------------------------------
LEMMA MonitorRecordKept ==
  ASSUME NEW r, MonitorFits(r), NEW a \in MonitorPlaces \ {"checking", "acting"}
  PROVE  MonitorFits([r EXCEPT !.at = a])
BY DEF MonitorFits, MonitorRecord

LEMMA MonitorNextFits ==
  ASSUME AgentConstants, MonitorTyped, NEW l \in Loops, Monitor!NextService(l)
  PROVE  \E r : MonitorFits(r) /\ Monitor!Goes(l, r)
<1>1. MonitorFits(loop[l])
  BY DEF MonitorTyped
<1>2. \A s \in Services : MonitorFits([loop[l] EXCEPT !.at = "checking", !.time = 0, !.svc = s, !.for = "none"])
  BY <1>1 DEF AgentConstants, MonitorFits, MonitorRecord, MonitorPlaces, MonitorCauses
<1>3. MonitorFits([loop[l] EXCEPT !.at = "custom", !.time = 0, !.svc = 0, !.for = "none"])
  BY <1>1 DEF MonitorFits, MonitorRecord, MonitorPlaces, MonitorCauses
<1> QED
  BY <1>2, <1>3 DEF Monitor!NextService

LEMMA MonitorActsFits ==
  ASSUME MonitorTyped, NEW l \in Loops, NEW why \in MonitorCauses, Monitor!Acts(l, why),
         why \in {"restart", "escalate"} => loop[l].svc \in Services
  PROVE  \E r : MonitorFits(r) /\ Monitor!Goes(l, r)
<1>1. MonitorFits(loop[l])
  BY DEF MonitorTyped
<1>2. MonitorFits([loop[l] EXCEPT !.at = "acting", !.time = 0, !.for = why])
  BY <1>1 DEF MonitorFits, MonitorRecord, MonitorPlaces, MonitorCauses
<1> QED
  BY <1>2 DEF Monitor!Acts

(* What a loop does changes its own record only, and it was alive. *)
LEMMA MonitorLoopGoes ==
  ASSUME AgentConstants, MonitorTyped, NEW l \in Loops, Monitor!MonitorLoop(l)
  PROVE  Monitor!Alive(l) /\ \E r : MonitorFits(r) /\ Monitor!Goes(l, r)
<1>1. MonitorFits(loop[l]) /\ loop[l] \in MonitorRecord
  BY DEF MonitorTyped
<1>2. CASE Monitor!Cycle(l)
  <2>1. MonitorFits([loop[l] EXCEPT !.at = "ended"])
    BY <1>1, MonitorRecordKept DEF MonitorPlaces
  <2>2. MonitorFits([loop[l] EXCEPT !.at = "looking", !.time = now, !.svc = 0])
    BY <1>1 DEF MonitorTyped, MonitorFits, MonitorRecord, MonitorPlaces
  <2> QED
    BY <1>2, <2>1, <2>2 DEF Monitor!Cycle, Monitor!Alive
<1>3. CASE Monitor!Look(l)
  <2>1. Monitor!NextService(l) \/ Monitor!Acts(l, "screen")
    BY <1>3 DEF Monitor!Look
  <2>2. Monitor!Alive(l)
    BY <1>3 DEF Monitor!Look, Monitor!Alive
  <2> QED
    BY <2>1, <2>2, MonitorNextFits, MonitorActsFits DEF MonitorCauses
<1>4. CASE Monitor!Check(l)
  <2>1. loop[l].svc \in Services /\ Monitor!Alive(l)
    BY <1>1, <1>4 DEF Monitor!Check, MonitorFits, Monitor!Alive
  <2>2. Monitor!NextService(l) \/ Monitor!Acts(l, "escalate") \/ Monitor!Acts(l, "restart")
    BY <1>4 DEF Monitor!Check, Monitor!HandleDown
  <2> QED
    BY <2>1, <2>2, MonitorNextFits, MonitorActsFits DEF MonitorCauses
<1>5. CASE Monitor!Custom(l)
  <2>1. MonitorFits([loop[l] EXCEPT !.at = "sleeping"])
    BY <1>1, MonitorRecordKept DEF MonitorPlaces
  <2>2. Monitor!Alive(l)
    BY <1>5 DEF Monitor!Custom, Monitor!Alive
  <2> QED
    BY <1>5, <2>1, <2>2, MonitorActsFits DEF Monitor!Custom, MonitorCauses
<1>6. CASE Monitor!Acted(l)
  <2>1. Monitor!Alive(l)
    BY <1>6 DEF Monitor!Acted, Monitor!Alive
  <2>2. \A s \in Services :
          MonitorFits([loop[l] EXCEPT !.at = "checking", !.svc = s, !.for = "none", !.cancel = FALSE])
    BY <1>1 DEF AgentConstants, MonitorFits, MonitorRecord, MonitorPlaces, MonitorCauses
  <2>3. MonitorFits([loop[l] EXCEPT !.at = "custom", !.svc = 0, !.for = "none", !.cancel = FALSE])
    BY <1>1 DEF MonitorFits, MonitorRecord, MonitorPlaces, MonitorCauses
  <2>4. MonitorFits([loop[l] EXCEPT !.at = "sleeping", !.for = "none"])
    BY <1>1 DEF MonitorFits, MonitorRecord, MonitorPlaces, MonitorCauses
  <2> QED
    BY <1>6, <2>1, <2>2, <2>3, <2>4, MonitorNextFits DEF Monitor!Acted
<1>7. CASE Monitor!Cancelled(l)
  <2>1. MonitorFits([Monitor!Unmade EXCEPT !.at = "ended"])
    BY DEF MonitorFits, Monitor!Unmade, MonitorRecord, MonitorPlaces, MonitorCauses
  <2> QED
    BY <1>7, <2>1 DEF Monitor!Cancelled
<1> QED
  BY <1>2, <1>3, <1>4, <1>5, <1>6, <1>7 DEF Monitor!MonitorLoop

(* It touches nothing else of what is said here, but the records of restarts. *)
LEMMA MonitorLoopLeaves ==
  ASSUME NEW l \in Loops, Monitor!MonitorLoop(l)
  PROVE  UNCHANGED <<now, running, handle, stopping, overlapped>>
BY DEF Monitor!MonitorLoop, Monitor!Cycle, Monitor!Look, Monitor!Check, Monitor!Custom, Monitor!Acted, Monitor!Cancelled, Monitor!Control, Monitor!Clocks

(* A service is noted as restarted when it is, and not within its cooldown. *)
LEMMA MonitorRestartNoted ==
  ASSUME AgentConstants, MonitorTyped, MonitorRemembered, NEW l \in Loops, Monitor!MonitorLoop(l)
  PROVE  /\ service' \in [Services -> [count : 0 .. MaxRestarts, last : Nat]]
         /\ MonitorRemembered'
<1>1. CASE Monitor!Check(l)
  <2>1. loop[l].svc \in Services
    BY <1>1 DEF Monitor!Check, MonitorTyped, MonitorFits
  <2> DEFINE s == loop[l].svc
  <2>2. CASE UNCHANGED <<service, tried, rushed>>
    BY <2>2 DEF MonitorTyped, MonitorRemembered
  <2>3. CASE /\ now - service[s].last >= Cooldown /\ service[s].count < MaxRestarts
             /\ service' = [service EXCEPT ![s] = [count |-> @.count + 1, last |-> now]]
             /\ tried' = [tried EXCEPT ![s] = now]
             /\ rushed' = (rushed \/ now - tried[s] < Cooldown)
    <3>1. /\ service[s] \in [count : 0 .. MaxRestarts, last : Nat] /\ tried[s] = service[s].last
          /\ now \in Nat
      BY <2>1 DEF MonitorTyped, MonitorRemembered
    <3>2. [count |-> service[s].count + 1, last |-> now] \in [count : 0 .. MaxRestarts, last : Nat]
      BY <2>3, <3>1 DEF AgentConstants
    <3>3. ~(now - tried[s] < Cooldown)
      <4>1. service[s].last \in Nat /\ Cooldown \in Nat /\ now \in Nat
        BY <3>1 DEF AgentConstants
      <4> QED
        BY <2>3, <3>1, <4>1
    <3>4. ~rushed'
      BY <2>3, <3>3 DEF MonitorRemembered
    <3> QED
      BY <2>1, <2>3, <3>1, <3>2, <3>4 DEF MonitorTyped, MonitorRemembered
  <2> QED
    BY <1>1, <2>2, <2>3 DEF Monitor!Check, Monitor!HandleDown
<1>2. CASE Monitor!Acted(l) /\ loop[l].for \in {"restart", "escalate"}
  <2>1. loop[l].svc \in Services
    BY <1>2 DEF Monitor!Acted, MonitorTyped, MonitorFits
  <2>2. /\ service' = [service EXCEPT ![loop[l].svc].count = IF loop[l].for = "escalate" THEN 0 ELSE @]
        /\ UNCHANGED <<tried, rushed>>
    BY <1>2 DEF Monitor!Acted, Monitor!Clocks
  <2> QED
    BY <2>1, <2>2 DEF AgentConstants, MonitorTyped, MonitorRemembered
<1>3. CASE UNCHANGED <<service, tried, rushed>>
  BY <1>3 DEF MonitorTyped, MonitorRemembered
<1> QED
  BY <1>1, <1>2, <1>3 DEF Monitor!MonitorLoop, Monitor!Cycle, Monitor!Look, Monitor!Custom, Monitor!Acted, Monitor!Cancelled, Monitor!Clocks

-----------------------------------------------------------------------------
LEMMA MonitorInvInit == ASSUME AgentConstants PROVE Monitor!Init => MonitorInv
<1> SUFFICES ASSUME Monitor!Init PROVE MonitorInv
  OBVIOUS
<1>1. MonitorFits(Monitor!Unmade) /\ Monitor!Unmade \in MonitorRecord
  BY DEF MonitorFits, Monitor!Unmade, MonitorRecord, MonitorPlaces, MonitorCauses
<1>2. MonitorTyped
  <2>1. loop \in [Loops -> MonitorRecord] /\ \A l \in Loops : MonitorFits(loop[l])
    BY <1>1 DEF Monitor!Init
  <2>2. service \in [Services -> [count : 0 .. MaxRestarts, last : Nat]]
    BY DEF Monitor!Init, AgentConstants
  <2> QED
    BY <2>1, <2>2 DEF Monitor!Init, MonitorTyped, AgentConstants
<1>3. MonitorOneLoop /\ MonitorRemembered
  BY DEF Monitor!Init, MonitorOneLoop, MonitorRemembered, Monitor!Alive, Monitor!Unmade
<1> QED
  BY <1>2, <1>3 DEF MonitorInv

LEMMA MonitorInvStep == ASSUME AgentConstants PROVE MonitorInv /\ [Monitor!Next]_(Monitor!vars) => MonitorInv'
<1> SUFFICES ASSUME MonitorInv, [Monitor!Next]_(Monitor!vars) PROVE MonitorInv'
  OBVIOUS
<1>0. MonitorTyped /\ MonitorOneLoop /\ MonitorRemembered
  BY DEF MonitorInv
<1>1. CASE Monitor!Start
  <2>1. MonitorRemembered'
    BY <1>0, <1>1 DEF Monitor!Start, Monitor!Clocks, MonitorRemembered
  <2>2. CASE running /\ UNCHANGED <<running, handle, loop, overlapped>>
    BY <1>0, <1>1, <2>1, <2>2 DEF Monitor!Start, Monitor!Clocks, MonitorInv, MonitorTyped, MonitorOneLoop, Monitor!Alive
  <2>3. CASE ~running /\ running'
    <3>1. PICK l \in Loops : /\ loop[l].at = "none" /\ handle' = l
                             /\ loop' = [loop EXCEPT ![l].at = "begun"]
      BY <1>1, <2>3 DEF Monitor!Start
    <3>2. overlapped' = (overlapped \/ stopping # {}) /\ UNCHANGED <<now, stopping, service>>
      BY <1>1, <2>3 DEF Monitor!Start, Monitor!Clocks
    <3>3. MonitorFits([loop[l] EXCEPT !.at = "begun"])
      BY <1>0, MonitorRecordKept DEF MonitorTyped, MonitorPlaces
    <3>4. MonitorTyped'
      BY <1>0, <2>3, <3>1, <3>2, <3>3 DEF MonitorTyped, MonitorFits
    <3>5. \A k \in Loops \ {l} : loop'[k] = loop[k]
      BY <1>0, <3>1 DEF MonitorTyped
    <3>6. MonitorOneLoop'
      BY <1>0, <2>3, <3>1, <3>2, <3>5 DEF MonitorOneLoop, Monitor!Alive
    <3> QED
      BY <2>1, <3>4, <3>6 DEF MonitorInv
  <2> QED
    BY <1>1, <2>2, <2>3 DEF Monitor!Start
<1>2. CASE Monitor!Stop
  <2>1. MonitorRemembered' /\ UNCHANGED <<now, handle, service, overlapped>> /\ running' = FALSE
    BY <1>0, <1>2 DEF Monitor!Stop, Monitor!Clocks, MonitorRemembered
  <2>2. CASE handle = Monitor!NoLoop /\ UNCHANGED <<stopping, loop>>
    BY <1>0, <2>1, <2>2 DEF MonitorInv, MonitorTyped, MonitorOneLoop, Monitor!Alive, Monitor!NoLoop, AgentConstants
  <2>3. CASE /\ handle # Monitor!NoLoop /\ stopping' = stopping \cup {handle}
             /\ loop' = [loop EXCEPT ![handle].cancel = Monitor!Alive(handle)]
    <3>1. handle \in Loops /\ loop[handle] \in MonitorRecord /\ MonitorFits(loop[handle])
      BY <1>0, <2>3 DEF MonitorTyped
    <3>2. Monitor!Alive(handle) \in BOOLEAN
      BY DEF Monitor!Alive
    <3>3. MonitorFits([loop[handle] EXCEPT !.cancel = Monitor!Alive(handle)])
      BY <3>1, <3>2 DEF MonitorFits, MonitorRecord
    <3>4. MonitorTyped'
      BY <1>0, <2>1, <2>3, <3>1, <3>3 DEF MonitorTyped, MonitorFits
    <3>5. \A k \in Loops : loop'[k].at = loop[k].at
      BY <1>0, <2>3, <3>1 DEF MonitorTyped, MonitorRecord
    <3>6. MonitorOneLoop'
      BY <1>0, <2>1, <2>3, <3>5 DEF MonitorOneLoop, Monitor!Alive
    <3> QED
      BY <2>1, <3>4, <3>6 DEF MonitorInv
  <2> QED
    BY <1>2, <2>2, <2>3 DEF Monitor!Stop
<1>3. CASE Monitor!StopReturns
  BY <1>0, <1>3 DEF Monitor!StopReturns, Monitor!Clocks, MonitorInv, MonitorTyped, MonitorOneLoop, MonitorRemembered, Monitor!Alive
<1>4. CASE Monitor!Tick
  BY <1>0, <1>4 DEF Monitor!Tick, MonitorInv, MonitorTyped, MonitorOneLoop, MonitorRemembered, Monitor!Alive
<1>5. ASSUME NEW l \in Loops, Monitor!MonitorLoop(l)
      PROVE  MonitorInv'
  <2>1. Monitor!Alive(l) /\ \E r : MonitorFits(r) /\ Monitor!Goes(l, r)
    BY <1>0, <1>5, MonitorLoopGoes
  <2>2. PICK r : MonitorFits(r) /\ loop' = [loop EXCEPT ![l] = r]
    BY <2>1 DEF Monitor!Goes
  <2>3. UNCHANGED <<now, running, handle, stopping, overlapped>>
    BY <1>5, MonitorLoopLeaves
  <2>4. service' \in [Services -> [count : 0 .. MaxRestarts, last : Nat]] /\ MonitorRemembered'
    BY <1>0, <1>5, MonitorRestartNoted
  <2>5. MonitorTyped'
    BY <1>0, <2>2, <2>3, <2>4 DEF MonitorTyped, MonitorFits
  <2>6. \A k \in Loops \ {l} : loop'[k] = loop[k]
    BY <1>0, <2>2 DEF MonitorTyped
  <2>7. MonitorOneLoop'
    BY <1>0, <2>1, <2>3, <2>6 DEF MonitorOneLoop, Monitor!Alive
  <2> QED
    BY <2>4, <2>5, <2>7 DEF MonitorInv
<1>6. CASE UNCHANGED Monitor!vars
  BY <1>6 DEF Monitor!vars, MonitorInv, MonitorTyped, MonitorOneLoop, MonitorRemembered, Monitor!Alive
<1> QED
  BY <1>1, <1>2, <1>3, <1>4, <1>5, <1>6 DEF Monitor!Next

LEMMA MonitorInvHolds == MonitorInv => Monitor!StopHolds /\ Monitor!RestartsAreSpaced
BY DEF MonitorInv, MonitorOneLoop, MonitorRemembered, Monitor!StopHolds, Monitor!RestartsAreSpaced

LEMMA MonitorMoves == [Next]_vars => [Monitor!Next]_(Monitor!vars)
BY DEF Next, vars, monitorVars, Monitor!vars

(* passive.py: however many starts and stops overlap, unless a start came     *)
(* while a stop was waiting there is only the loop that stop() can reach, and *)
(* none once every stop has returned.                                        *)
THEOREM StoppedIsStill == Spec => []StopHolds
<1>1. Init => MonitorInv
  BY MonitorInvInit, AgentConstants DEF Init
<1>2. MonitorInv /\ [Next]_vars => MonitorInv'
  BY MonitorInvStep, MonitorMoves, AgentConstants
<1>3. MonitorInv => StopHolds
  BY MonitorInvHolds DEF StopHolds
<1> QED
  BY <1>1, <1>2, <1>3, PTL DEF Spec

(* passive.py: whichever loops overlapping requests leave behind, a service   *)
(* is not restarted twice within its cooldown.                               *)
THEOREM RestartsSpaced == Spec => []RestartsAreSpaced
<1>1. Init => MonitorInv
  BY MonitorInvInit, AgentConstants DEF Init
<1>2. MonitorInv /\ [Next]_vars => MonitorInv'
  BY MonitorInvStep, MonitorMoves, AgentConstants
<1>3. MonitorInv => RestartsAreSpaced
  BY MonitorInvHolds DEF RestartsAreSpaced
<1> QED
  BY <1>1, <1>2, <1>3, PTL DEF Spec

-----------------------------------------------------------------------------
(* The ssh channel: ssh.py, driver.py, executor.py.                           *)

ShellCall == [kind : Shell!Kinds \cup {"none"},
         pc : {"idle", "waiting", "connecting", "running", "typing", "closing", "done"},
         conn : Nat, sent : BOOLEAN, lost : BOOLEAN, copies : Nat,
         via : {"none", "ssh", "hid"}, success : BOOLEAN]

(* What a call has done so far, by where it is suspended. *)
ShellUnsent(c) == c.copies = 0 /\ ~c.sent /\ ~c.lost
ShellOpen(c)   == c.via = "none" /\ ~c.success

ShellSuspended(c) ==
  /\ c.pc = "idle" => ShellUnsent(c) /\ ShellOpen(c)
  /\ c.pc \in {"waiting", "connecting"} =>
       ShellUnsent(c) /\ ShellOpen(c) /\ c.kind \in {"connect", "direct", "check"}
  /\ c.pc = "running" =>
       /\ ShellOpen(c) /\ ~c.lost /\ c.kind \in Shell!Kinds \ {"connect", "close"}
       /\ c.copies = IF c.sent THEN 1 ELSE 0
  /\ c.pc = "typing" =>
       /\ ShellOpen(c) /\ c.kind \in {"tool", "action"} /\ (c.kind = "tool" => ~c.sent)
       /\ c.copies = (IF c.sent THEN 1 ELSE 0) /\ c.lost = c.sent
  /\ c.pc = "closing" => ShellUnsent(c) /\ ShellOpen(c) /\ c.kind = "close"

(* What NoSecondCopy says of one call. *)
ShellOnce(c) ==
  /\ c.copies <= IF c.kind = "action" /\ c.lost THEN 2 ELSE 1
  /\ c.kind \notin {"connect", "close"} /\ c.success => c.copies >= 1 \/ Shell!Blind(c)
  /\ c.via = "ssh" => c.copies = IF c.sent THEN 1 ELSE 0
  /\ c.via = "hid" => c.kind \in {"tool", "action"} /\ (c.sent => c.lost)

ShellFine(c) == c \in ShellCall /\ ShellSuspended(c) /\ ShellOnce(c)

ShellInv ==
  /\ sshClient \in Nat /\ opened \in Nat /\ active \in {"none", backend}
  /\ call \in [Calls -> ShellCall] /\ \A t \in Calls : ShellFine(call[t])

(* The backend does not change; the first connect makes it known.              *)
ShellKeeps == backend' = backend /\ active' \in {active, backend}

LEMMA ShellBackend == ASSUME [Shell!Next]_(Shell!vars) PROVE ShellKeeps
BY DEF ShellKeeps, Shell!Next, Shell!vars, Shell!config, Shell!link, Shell!Request, Shell!Close,
  Shell!Closed, Shell!TakeLock, Shell!Connected, Shell!NotConnected, Shell!Delivered,
  Shell!SshReturns, Shell!StreamEnds, Shell!TimesOut, Shell!Breaks, Shell!Typed, Shell!Drop

(* A step of one call: what the others have done is as it was. *)
LEMMA ShellOneCall ==
  ASSUME ShellInv, ShellKeeps, sshClient' \in Nat, opened' \in Nat, NEW t \in Calls, NEW k,
         call' = [call EXCEPT ![t] = k], ShellFine(k)
  PROVE  ShellInv'
<1>1. \A c \in ShellCall : Shell!Blind(c)' <=> Shell!Blind(c)
  BY DEF ShellKeeps, Shell!Blind
<1>2. \A c \in ShellCall : ShellFine(c)' <=> ShellFine(c)
  BY <1>1 DEF ShellFine, ShellOnce, ShellSuspended
<1>3. call' \in [Calls -> ShellCall] /\ \A u \in Calls : ShellFine(call'[u])
  BY DEF ShellInv, ShellFine
<1>4. \A u \in Calls : ShellFine(call[u])'
  BY <1>2, <1>3
<1>5. active' \in {"none", backend'}
  BY DEF ShellKeeps, ShellInv
<1> QED
  BY <1>3, <1>4, <1>5 DEF ShellInv

LEMMA ShellIdleFine == ShellFine(Shell!Idle)
BY DEF ShellFine, ShellCall, ShellSuspended, ShellOnce, ShellUnsent, ShellOpen, Shell!Idle, Shell!Kinds

(* A call that has just come. *)
ShellFits(kind, pc) ==
  /\ kind \in Shell!Kinds /\ pc \in {"waiting", "running", "typing", "closing", "done"}
  /\ pc = "waiting" => kind \in {"connect", "direct", "check"}
  /\ pc = "running" => kind \notin {"connect", "close"}
  /\ pc = "typing"  => kind \in {"tool", "action"}
  /\ pc = "closing" => kind = "close"

LEMMA ShellBlankFine ==
  ASSUME NEW k \in ShellCall, ShellFits(k.kind, k.pc), k.sent = FALSE, k.lost = FALSE, k.copies = 0,
         k.via = "none", k.success = FALSE
  PROVE  ShellFine(k)
<1>1. ~k.sent /\ ~k.lost /\ ~k.success
  OBVIOUS
<1>2. ShellUnsent(k) /\ ShellOpen(k)
  BY <1>1 DEF ShellUnsent, ShellOpen
<1>3. k.copies = (IF k.sent THEN 1 ELSE 0) /\ k.lost = k.sent
  BY <1>1
<1>4. ShellOnce(k)
  BY <1>1 DEF ShellOnce
<1>5. ShellSuspended(k)
  BY <1>1, <1>2, <1>3 DEF ShellSuspended, ShellFits
<1> QED
  BY <1>4, <1>5 DEF ShellFine

LEMMA ShellBegun ==
  ASSUME NEW kind, NEW pc, NEW conn \in Nat, ShellFits(kind, pc)
  PROVE  /\ ShellFine([Shell!Idle EXCEPT !.kind = kind, !.conn = conn, !.pc = pc])
         /\ ShellFine([Shell!Idle EXCEPT !.kind = kind, !.pc = pc])
<1> DEFINE k == [Shell!Idle EXCEPT !.kind = kind, !.conn = conn, !.pc = pc]
           l == [Shell!Idle EXCEPT !.kind = kind, !.pc = pc]
<1>1. k \in ShellCall /\ l \in ShellCall
  BY DEF ShellCall, Shell!Idle, ShellFits
<1>2. /\ k.kind = kind /\ k.pc = pc /\ k.sent = FALSE /\ k.lost = FALSE /\ k.copies = 0
      /\ k.via = "none" /\ k.success = FALSE
  BY DEF Shell!Idle
<1>3. /\ l.kind = kind /\ l.pc = pc /\ l.sent = FALSE /\ l.lost = FALSE /\ l.copies = 0
      /\ l.via = "none" /\ l.success = FALSE
  BY DEF Shell!Idle
<1> HIDE DEF k, l
<1>4. ShellFine(k) /\ ShellFine(l)
  BY <1>1, <1>2, <1>3, ShellBlankFine
<1> QED
  BY <1>4 DEF k, l

LEMMA ShellInvInit ==
  ASSUME Shell!Init
  PROVE  ShellInv
BY ShellIdleFine DEF Shell!Init, ShellInv, ShellFine

LEMMA ShellInvStep ==
  ASSUME ShellInv, [Shell!Next]_(Shell!vars)
  PROVE  ShellInv'
<1>0. /\ sshClient \in Nat /\ opened \in Nat /\ \A t \in Calls : ShellFine(call[t])
      /\ ShellKeeps
  BY ShellBackend DEF ShellInv
<1>1. ASSUME NEW t \in Calls, Shell!Request(t)
      PROVE  ShellInv'
  <2>1. UNCHANGED <<sshClient, opened>>
    BY <1>1 DEF Shell!Request, Shell!link, Shell!config
  <2>2. ASSUME NEW kind \in {"tool", "action"}, Shell!RouteShell(t, kind)
        PROVE  ShellInv'
    <3> DEFINE pc == IF Shell!HasShell THEN "running" ELSE "typing"
               k  == [Shell!Idle EXCEPT !.kind = kind, !.conn = sshClient, !.pc = pc]
    <3>1. pc \in {"running", "typing"} /\ kind \in Shell!Kinds
      BY DEF Shell!Kinds
    <3>2. call' = [call EXCEPT ![t] = k]
      BY <2>2 DEF Shell!RouteShell
    <3> HIDE DEF pc
    <3>3. ShellFine(k)
      BY <1>0, <3>1, ShellBegun DEF ShellFits
    <3> HIDE DEF k
    <3> QED
      BY <1>0, <2>1, <3>2, <3>3, ShellOneCall
  <2>3. ASSUME NEW kind \in {"direct", "check"}, Shell!RunDirectly(t, kind)
        PROVE  ShellInv'
    <3> DEFINE pc == IF Shell!HasShell THEN "running"
                     ELSE IF kind = "check" \/ active = "system" THEN "waiting" ELSE "done"
               k  == [Shell!Idle EXCEPT !.kind = kind, !.conn = sshClient, !.pc = pc]
    <3>1. pc \in {"running", "waiting", "done"} /\ kind \in Shell!Kinds
      BY DEF Shell!Kinds
    <3>2. call' = [call EXCEPT ![t] = k]
      BY <2>3 DEF Shell!RunDirectly
    <3> HIDE DEF pc
    <3>3. ShellFine(k)
      BY <1>0, <3>1, ShellBegun DEF ShellFits
    <3> HIDE DEF k
    <3> QED
      BY <1>0, <2>1, <3>2, <3>3, ShellOneCall
  <2>4. ASSUME Shell!Console(t)
        PROVE  ShellInv'
    <3>1. PICK pc \in {"done", "running"} :
            call' = [call EXCEPT ![t] = [Shell!Idle EXCEPT !.kind = "stream", !.conn = sshClient, !.pc = pc]]
      BY <2>4 DEF Shell!Console
    <3> DEFINE k == [Shell!Idle EXCEPT !.kind = "stream", !.conn = sshClient, !.pc = pc]
    <3>3. call' = [call EXCEPT ![t] = k]
      BY <3>1
    <3>2. ShellFine(k)
      BY <1>0, ShellBegun DEF Shell!Kinds, ShellFits
    <3> HIDE DEF k
    <3> QED
      BY <1>0, <2>1, <3>3, <3>2, ShellOneCall
  <2>5. ASSUME call' = [call EXCEPT ![t] = [Shell!Idle EXCEPT !.kind = "connect", !.pc = "waiting"]]
        PROVE  ShellInv'
    <3> DEFINE k == [Shell!Idle EXCEPT !.kind = "connect", !.pc = "waiting"]
    <3>2. ShellFine(k)
      BY <1>0, ShellBegun DEF Shell!Kinds, ShellFits
    <3>3. call' = [call EXCEPT ![t] = k]
      BY <2>5
    <3> HIDE DEF k
    <3> QED
      BY <1>0, <2>1, <3>2, <3>3, ShellOneCall
  <2> QED
    BY <1>1, <2>2, <2>3, <2>4, <2>5 DEF Shell!Request
<1>2. ASSUME NEW t \in Calls, Shell!Close(t)
      PROVE  ShellInv'
  <2> DEFINE pc == IF sshClient = 0 THEN "done" ELSE "closing"
             k  == [Shell!Idle EXCEPT !.kind = "close", !.pc = pc]
  <2>1. ShellFine(k)
    <3>1. pc \in {"done", "closing"}
      OBVIOUS
    <3> HIDE DEF pc
    <3> QED
      BY <1>0, <3>1, ShellBegun DEF Shell!Kinds, ShellFits
  <2>2. call' = [call EXCEPT ![t] = k] /\ UNCHANGED <<sshClient, opened>>
    BY <1>2 DEF Shell!Close, Shell!config
  <2> HIDE DEF k
  <2> QED
    BY <1>0, <2>1, <2>2, ShellOneCall
<1>3. ASSUME NEW t \in Calls, Shell!Closed(t)
      PROVE  ShellInv'
  <2> DEFINE k == [call[t] EXCEPT !.pc = "done", !.success = TRUE, !.via = "none"]
  <2>1. ShellFine(k)
    BY <1>0, <1>3 DEF Shell!Closed, ShellFine, ShellCall, ShellSuspended, ShellOnce, ShellUnsent, ShellOpen, Shell!Kinds
  <2>2. call' = [call EXCEPT ![t] = k] /\ sshClient' = 0 /\ opened' = opened
    BY <1>3 DEF Shell!Closed, Shell!Ends, Shell!config, ShellInv
  <2> HIDE DEF k
  <2> QED
    BY <1>0, <2>1, <2>2, ShellOneCall
<1>4. ASSUME NEW t \in Calls, Shell!TakeLock(t)
      PROVE  ShellInv'
  <2> DEFINE k == [call[t] EXCEPT !.pc = "connecting"]
  <2>1. ShellFine(k)
    BY <1>0, <1>4 DEF Shell!TakeLock, ShellFine, ShellCall, ShellSuspended, ShellOnce, ShellUnsent, ShellOpen, Shell!Kinds
  <2>2. call' = [call EXCEPT ![t] = k] /\ UNCHANGED <<sshClient, opened>>
    BY <1>4 DEF Shell!TakeLock, Shell!Goes, Shell!link, ShellInv
  <2> HIDE DEF k
  <2> QED
    BY <1>0, <2>1, <2>2, ShellOneCall
<1>5. ASSUME NEW t \in Calls, Shell!Connected(t)
      PROVE  ShellInv'
  <2>1. sshClient' \in Nat /\ opened' \in Nat
    BY <1>0, <1>5 DEF Shell!Connected
  <2>2. CASE call[t].kind = "connect"
    <3> DEFINE k == [call[t] EXCEPT !.pc = "done", !.success = TRUE]
    <3>1. ShellFine(k)
      BY <1>0, <1>5, <2>2 DEF Shell!Connected, ShellFine, ShellCall, ShellSuspended, ShellOnce, ShellUnsent, ShellOpen, Shell!Kinds
    <3>2. call' = [call EXCEPT ![t] = k]
      BY <1>5, <2>2 DEF Shell!Connected, ShellInv
    <3> HIDE DEF k
    <3> QED
      BY <1>0, <2>1, <3>1, <3>2, ShellOneCall
  <2>3. CASE call[t].kind # "connect"
    <3> DEFINE k == [call[t] EXCEPT !.pc = "running", !.conn = sshClient']
    <3>1. ShellFine(k)
      BY <1>0, <1>5, <2>1, <2>3 DEF Shell!Connected, ShellFine, ShellCall, ShellSuspended, ShellOnce, ShellUnsent, ShellOpen, Shell!Kinds
    <3>2. call' = [call EXCEPT ![t] = k]
      BY <1>5, <2>3 DEF Shell!Connected, ShellInv
    <3> HIDE DEF k
    <3> QED
      BY <1>0, <2>1, <3>1, <3>2, ShellOneCall
  <2> QED
    BY <2>2, <2>3
<1>6. ASSUME NEW t \in Calls, Shell!NotConnected(t)
      PROVE  ShellInv'
  <2> DEFINE k == [call[t] EXCEPT !.pc = "done", !.success = FALSE, !.via = "none"]
  <2>1. ShellFine(k)
    BY <1>0, <1>6 DEF Shell!NotConnected, ShellFine, ShellCall, ShellSuspended, ShellOnce, ShellUnsent, ShellOpen, Shell!Kinds
  <2>2. call' = [call EXCEPT ![t] = k] /\ sshClient' \in Nat /\ opened' = opened
    BY <1>0, <1>6 DEF Shell!NotConnected, Shell!Ends, Shell!config, ShellInv
  <2> HIDE DEF k
  <2> QED
    BY <1>0, <2>1, <2>2, ShellOneCall
<1>7. ASSUME NEW t \in Calls, Shell!Delivered(t)
      PROVE  ShellInv'
  <2> DEFINE k == [call[t] EXCEPT !.sent = TRUE, !.copies = 1]
  <2>1. call[t].copies = 0 /\ call[t].copies + 1 = 1
    BY <1>0, <1>7 DEF Shell!Delivered, ShellFine, ShellCall, ShellSuspended, ShellOnce, ShellUnsent, ShellOpen, Shell!Kinds
  <2>2. ShellFine(k)
    <3>1. k \in ShellCall /\ k.pc = "running" /\ k.kind = call[t].kind /\ k.sent = TRUE /\ k.copies = 1
          /\ k.lost = call[t].lost /\ k.via = call[t].via /\ k.success = call[t].success
      BY <1>0, <1>7 DEF Shell!Delivered, ShellFine, ShellCall
    <3> HIDE DEF k
    <3> QED
      BY <1>0, <1>7, <3>1 DEF Shell!Delivered, ShellFine, ShellSuspended, ShellOnce, ShellOpen, Shell!Kinds
  <2>3. call' = [call EXCEPT ![t] = k] /\ UNCHANGED <<sshClient, opened>>
    BY <1>7, <2>1 DEF Shell!Delivered, Shell!link, Shell!config, ShellInv
  <2> HIDE DEF k
  <2> QED
    BY <1>0, <2>2, <2>3, ShellOneCall
<1>8. ASSUME NEW t \in Calls, Shell!SshReturns(t)
      PROVE  ShellInv'
  <2>1. PICK ok \in BOOLEAN :
          /\ ok => call[t].sent \/ call[t].kind = "action"
          /\ call' = [call EXCEPT ![t] = [call[t] EXCEPT !.pc = "done", !.success = ok, !.via = "ssh"]]
    BY <1>0, <1>8 DEF Shell!SshReturns, Shell!Ends, ShellInv, ShellFine, ShellCall
  <2> DEFINE k == [call[t] EXCEPT !.pc = "done", !.success = ok, !.via = "ssh"]
  <2>2. ShellFine(k)
    <3>1. /\ k \in ShellCall /\ k.pc = "done" /\ k.kind = call[t].kind /\ k.sent = call[t].sent
          /\ k.copies = call[t].copies /\ k.lost = call[t].lost /\ k.via = "ssh" /\ k.success = ok
      BY <1>0 DEF ShellFine, ShellCall
    <3>2. /\ call[t].copies = (IF call[t].sent THEN 1 ELSE 0) /\ ~call[t].lost
          /\ call[t].sent \in BOOLEAN /\ call[t].kind \notin {"connect", "close"}
      BY <1>0, <1>8 DEF Shell!SshReturns, ShellFine, ShellSuspended, ShellCall
    <3>3. call[t].sent \/ backend = "system"
      BY <1>8 DEF Shell!SshReturns, ShellInv
    <3> HIDE DEF k
    <3>4. ok /\ ~call[t].sent => Shell!Blind(k)
      BY <2>1, <3>1, <3>3 DEF Shell!Blind
    <3>5. ShellOnce(k)
      BY <2>1, <3>1, <3>2, <3>4 DEF ShellOnce
    <3>6. ShellSuspended(k)
      BY <3>1 DEF ShellSuspended
    <3> QED
      BY <3>1, <3>5, <3>6 DEF ShellFine
  <2>3. UNCHANGED <<sshClient, opened>>
    BY <1>8 DEF Shell!SshReturns, Shell!link, Shell!config
  <2> QED
    BY <1>0, <2>1, <2>2, <2>3, ShellOneCall
<1>9. ASSUME NEW t \in Calls, Shell!StreamEnds(t)
      PROVE  ShellInv'
  <2>1. PICK ok \in {FALSE} \cup {call[t].sent} :
          call' = [call EXCEPT ![t] = [call[t] EXCEPT !.pc = "done", !.success = ok,
                                        !.via = IF call[t].sent THEN "ssh" ELSE "none"]]
    BY <1>9 DEF Shell!StreamEnds, Shell!Ends, ShellInv
  <2> DEFINE k == [call[t] EXCEPT !.pc = "done", !.success = ok,
                                  !.via = IF call[t].sent THEN "ssh" ELSE "none"]
  <2>2. ShellFine(k)
    BY <1>0, <1>9 DEF Shell!StreamEnds, ShellFine, ShellCall, ShellSuspended, ShellOnce, ShellUnsent, ShellOpen, Shell!Kinds
  <2>3. UNCHANGED <<sshClient, opened>>
    BY <1>9 DEF Shell!StreamEnds, Shell!link, Shell!config
  <2> QED
    BY <1>0, <2>1, <2>2, <2>3, ShellOneCall
<1>10. ASSUME NEW t \in Calls, call[t].pc = "running", Shell!Raised(t), sshClient' \in Nat, opened' = opened
       PROVE  ShellInv'
  <2> DEFINE pc == IF call[t].kind = "action" THEN "typing" ELSE "done"
             k  == [call[t] EXCEPT !.pc = pc, !.lost = call[t].sent]
  <2>1. ShellFine(k)
    <3>1. pc \in {"typing", "done"} /\ (pc = "typing" <=> call[t].kind = "action")
      OBVIOUS
    <3> HIDE DEF pc
    <3>2. k \in ShellCall /\ k.pc = pc /\ k.kind = call[t].kind /\ k.lost = call[t].sent
          /\ k.sent = call[t].sent /\ k.copies = call[t].copies
          /\ k.via = call[t].via /\ k.success = call[t].success
      BY <1>0, <3>1 DEF ShellFine, ShellCall
    <3> HIDE DEF k
    <3> QED
      BY <1>0, <1>10, <3>1, <3>2 DEF ShellFine, ShellCall, ShellSuspended, ShellOnce, ShellOpen, Shell!Kinds
  <2>2. call' = [call EXCEPT ![t] = k]
    BY <1>10 DEF Shell!Raised, ShellInv
  <2> HIDE DEF k
  <2> QED
    BY <1>0, <1>10, <2>1, <2>2, ShellOneCall
<1>11. ASSUME NEW t \in Calls, Shell!TimesOut(t)
       PROVE  ShellInv'
  BY <1>0, <1>10, <1>11 DEF Shell!TimesOut, Shell!link, Shell!config
<1>12. ASSUME NEW t \in Calls, Shell!Breaks(t)
       PROVE  ShellInv'
  BY <1>0, <1>10, <1>12 DEF Shell!Breaks, Shell!config
<1>13. ASSUME NEW t \in Calls, Shell!Typed(t)
       PROVE  ShellInv'
  <2>1. UNCHANGED <<sshClient, opened>>
    BY <1>13 DEF Shell!Typed, Shell!link, Shell!config
  <2>2. CASE call' = [call EXCEPT ![t].pc = "done", ![t].copies = @ + 1,
                                  ![t].via = "hid", ![t].success = TRUE]
    <3> DEFINE n == call[t].copies + 1
               k == [call[t] EXCEPT !.pc = "done", !.copies = n, !.via = "hid", !.success = TRUE]
    <3>1. n \in Nat /\ n >= 1 /\ n <= IF call[t].kind = "action" /\ call[t].lost THEN 2 ELSE 1
      BY <1>0, <1>13 DEF Shell!Typed, ShellFine, ShellCall, ShellSuspended, ShellOnce, ShellUnsent, ShellOpen, Shell!Kinds
    <3>2. call' = [call EXCEPT ![t] = k]
      BY <2>2 DEF ShellInv
    <3> HIDE DEF n
    <3>3. ShellFine(k)
      BY <1>0, <1>13, <3>1 DEF Shell!Typed, ShellFine, ShellCall, ShellSuspended, ShellOnce, ShellUnsent, ShellOpen, Shell!Kinds
    <3> QED
      BY <1>0, <2>1, <3>2, <3>3, ShellOneCall
  <2>3. CASE Shell!Ends(t, FALSE, "hid")
    <3> DEFINE k == [call[t] EXCEPT !.pc = "done", !.success = FALSE, !.via = "hid"]
    <3>1. ShellFine(k)
      BY <1>0, <1>13 DEF Shell!Typed, ShellFine, ShellCall, ShellSuspended, ShellOnce, ShellUnsent, ShellOpen, Shell!Kinds
    <3>2. call' = [call EXCEPT ![t] = k]
      BY <2>3 DEF Shell!Ends, ShellInv
    <3> HIDE DEF k
    <3> QED
      BY <1>0, <2>1, <3>1, <3>2, ShellOneCall
  <2> QED
    BY <1>13, <2>2, <2>3 DEF Shell!Typed
<1>14. CASE Shell!Drop \/ UNCHANGED Shell!vars
  <2>1. /\ call' = call /\ UNCHANGED <<sshClient, opened, backend, active>>
    BY <1>14 DEF Shell!Drop, Shell!config, Shell!vars
  <2>2. \A c \in ShellCall : ShellFine(c)' <=> ShellFine(c)
    BY <2>1 DEF ShellFine, ShellOnce, ShellSuspended, Shell!Blind
  <2> QED
    BY <2>1, <2>2 DEF ShellInv
<1> QED
  BY <1>1, <1>2, <1>3, <1>4, <1>5, <1>6, <1>7, <1>8, <1>9, <1>11, <1>12, <1>13, <1>14
  DEF Shell!Next

(* The connection, and who makes it. *)
ShellLink ==
  /\ connected \in BOOLEAN /\ sshClient \in 0 .. MaxConnects /\ opened \in 0 .. MaxConnects
  /\ up \subseteq 1 .. MaxConnects /\ lock \in Calls \cup {Shell!Nobody}

LEMMA ShellLimit == MaxConnects \in Nat /\ 0 \in 0 .. MaxConnects
<1>1. MaxConnects \in Nat
  BY AgentConstants DEF AgentConstants
<1> QED
  BY <1>1

LEMMA ShellLinkInit == Shell!Init => ShellLink
<1> SUFFICES ASSUME Shell!Init PROVE ShellLink
  OBVIOUS
<1>1. connected = FALSE /\ sshClient = 0 /\ opened = 0 /\ up = {} /\ lock = Shell!Nobody
  BY DEF Shell!Init
<1>2. sshClient \in 0 .. MaxConnects /\ opened \in 0 .. MaxConnects
  BY <1>1, ShellLimit
<1> QED
  BY <1>1, <1>2 DEF ShellLink

LEMMA ShellLinkStep ==
  ASSUME ShellLink, [Shell!Next]_(Shell!vars)
  PROVE  ShellLink'
<1>0. MaxConnects \in Nat
  BY ShellLimit
<1>1. ASSUME NEW t \in Calls, Shell!Connected(t)
      PROVE  ShellLink'
  <2>1. CASE active = "system"
    BY <1>1, <2>1 DEF Shell!Connected, ShellLink
  <2>2. CASE active # "system"
    <3>1. /\ lock' = Shell!Nobody /\ connected' = TRUE /\ opened < MaxConnects
          /\ opened' = opened + 1 /\ sshClient' = opened' /\ up' = up \cup {opened'}
      BY <1>1, <2>2 DEF Shell!Connected
    <3>2. opened' \in 1 .. MaxConnects
      BY <1>0, <3>1 DEF ShellLink
    <3> QED
      BY <1>0, <3>1, <3>2 DEF ShellLink
  <2> QED
    BY <2>1, <2>2
<1>2. ASSUME NEW t \in Calls, Shell!Request(t) \/ Shell!Close(t) \/ Shell!TakeLock(t)
      PROVE  ShellLink'
  <2>1. /\ opened' = opened /\ sshClient' = sshClient /\ lock' \in {lock, t}
        /\ connected' \in {connected, FALSE} /\ up' \subseteq up
    BY <1>2 DEF Shell!Request, Shell!Close, Shell!TakeLock, Shell!link, Shell!config
  <2> QED
    BY <2>1 DEF ShellLink
<1>5. ASSUME NEW t \in Calls, Shell!Closed(t) \/ Shell!NotConnected(t) \/ Shell!Breaks(t)
      PROVE  ShellLink'
  <2>1. /\ opened' = opened /\ sshClient' \in {sshClient, 0} /\ lock' \in {lock, Shell!Nobody}
        /\ connected' \in {connected, FALSE} /\ up' = up
    BY <1>5 DEF Shell!Closed, Shell!NotConnected, Shell!Breaks, Shell!config
  <2>2. sshClient' \in 0 .. MaxConnects
    BY <2>1, ShellLimit DEF ShellLink
  <2> QED
    BY <2>1, <2>2 DEF ShellLink
<1>3. ASSUME NEW t \in Calls,
             Shell!Delivered(t) \/ Shell!SshReturns(t) \/ Shell!StreamEnds(t) \/ Shell!TimesOut(t) \/ Shell!Typed(t)
      PROVE  ShellLink'
  BY <1>3
     DEF Shell!Delivered, Shell!SshReturns, Shell!StreamEnds, Shell!TimesOut, Shell!Typed,
         Shell!link, Shell!config, ShellLink
<1>4. CASE Shell!Drop \/ UNCHANGED Shell!vars
  BY <1>4 DEF Shell!Drop, Shell!config, Shell!vars, ShellLink
<1> QED
  BY <1>1, <1>2, <1>3, <1>4, <1>5 DEF Shell!Next

LEMMA ShellTyped == ShellInv /\ ShellLink => Shell!TypeOK
BY DEF ShellInv, ShellFine, ShellCall, ShellLink, Shell!TypeOK

LEMMA ShellMoves == [Next]_vars => [Shell!Next]_(Shell!vars)
BY DEF Next, vars, shellVars, Shell!vars

(* ssh.py, driver.py, executor.py: however many calls share the channel, and  *)
(* wherever it breaks, a command arrives once at most, except a step of a     *)
(* skill whose first answer was lost, and by no channel but the one the report *)
(* names.  What is reported as done has arrived, except a step of a skill over *)
(* the system's ssh, whose exit status nobody looks at.                       *)
THEOREM CommandsOnce == Spec => []NoSecondCopy
<1>1. Init => ShellInv
  BY ShellInvInit DEF Init
<1>2. ShellInv /\ [Next]_vars => ShellInv'
  BY ShellInvStep, ShellMoves
<1>3. ShellInv => NoSecondCopy
  BY DEF ShellInv, ShellFine, ShellOnce, NoSecondCopy, Shell!NoSecondCopy
<1> QED
  BY <1>1, <1>2, <1>3, PTL DEF Spec

-----------------------------------------------------------------------------
(* The terminals that answer for an operator: watchers.py.                    *)

ConfirmSteps == 0 .. Steps

ConfirmWatcher == [how : {"stream", "poll"}, pc : {"reading", "looking", "asking", "left"},
            read : Nat, step : ConfirmSteps, handled : SUBSET ConfirmSteps, stale : BOOLEAN, crossed : BOOLEAN]

ConfirmTypes ==
  /\ waiting \in ConfirmSteps /\ settled \in ConfirmSteps /\ ended \in BOOLEAN
  /\ events \in Seq(ConfirmSteps)
  /\ watcher \in [Watchers -> ConfirmWatcher]

(* Who asks, and has not been overtaken, asks about the step that waits; who  *)
(* is about to look has a step to look for.                                  *)
ConfirmKnows(w) ==
  /\ watcher[w].pc = "looking" => watcher[w].step # 0
  /\ watcher[w].pc = "asking" /\ ~watcher[w].stale => waiting # 0 /\ watcher[w].step = waiting
  /\ ~watcher[w].crossed

ConfirmInv == ConfirmTypes /\ \A w \in Watchers : ConfirmKnows(w)

LEMMA ConfirmCounts ==
  /\ ConfirmSteps \subseteq Nat /\ 0 \in ConfirmSteps
  /\ \A n \in ConfirmSteps : n < Steps => n + 1 \in ConfirmSteps
BY AgentConstants DEF AgentConstants, ConfirmSteps

LEMMA ConfirmInvInit ==
  ASSUME Confirm!Init
  PROVE  ConfirmInv
<1>1. Confirm!Fresh("stream") \in ConfirmWatcher /\ Confirm!Fresh("poll") \in ConfirmWatcher
  BY ConfirmCounts DEF Confirm!Fresh, ConfirmWatcher
<1>2. ConfirmTypes
  <2>1. waiting \in ConfirmSteps /\ settled \in ConfirmSteps /\ ended \in BOOLEAN
    BY ConfirmCounts DEF Confirm!Init
  <2>2. events \in Seq(ConfirmSteps)
    BY DEF Confirm!Init
  <2>3. watcher \in [Watchers -> ConfirmWatcher]
    BY <1>1 DEF Confirm!Init
  <2> QED
    BY <2>1, <2>2, <2>3 DEF ConfirmTypes
<1>3. ASSUME NEW w \in Watchers
      PROVE  ConfirmKnows(w)
  <2>1. watcher[w].pc = "reading" /\ watcher[w].crossed = FALSE
    BY DEF Confirm!Init, Confirm!Fresh
  <2> QED
    BY <2>1 DEF ConfirmKnows
<1> QED
  BY <1>2, <1>3 DEF ConfirmInv

(* One terminal moves on: the others know what they knew.                     *)
LEMMA ConfirmOneMoves ==
  ASSUME ConfirmInv, UNCHANGED Confirm!TheRun, NEW w \in Watchers, NEW k \in ConfirmWatcher,
         watcher' = [watcher EXCEPT ![w] = k],
         k.pc = "looking" => k.step # 0,
         k.pc = "asking" /\ ~k.stale => waiting # 0 /\ k.step = waiting,
         ~k.crossed
  PROVE  ConfirmInv'
<1>1. ConfirmTypes'
  BY ConfirmCounts DEF ConfirmInv, ConfirmTypes, Confirm!TheRun
<1>2. ASSUME NEW v \in Watchers
      PROVE  ConfirmKnows(v)'
  <2>1. CASE v = w
    BY <2>1, ConfirmCounts DEF ConfirmInv, ConfirmTypes, ConfirmKnows, Confirm!TheRun
  <2>2. CASE v # w
    BY <2>2, ConfirmCounts DEF ConfirmInv, ConfirmTypes, ConfirmKnows, Confirm!TheRun
  <2> QED
    BY <2>1, <2>2
<1> QED
  BY <1>1, <1>2 DEF ConfirmInv

(* The step that waits is settled: who still asks about it is overtaken. *)
LEMMA ConfirmSettlesKeeps ==
  ASSUME ConfirmInv, waiting # 0, NEW others \in SUBSET Watchers, Confirm!Settles(others),
         \A w \in Watchers \ others : watcher[w].pc = "asking"
  PROVE  ConfirmInv'
<1>1. ConfirmTypes'
  <2>1. waiting' \in ConfirmSteps /\ settled' \in ConfirmSteps /\ ended' \in BOOLEAN /\ events' \in Seq(ConfirmSteps)
    BY ConfirmCounts DEF ConfirmInv, ConfirmTypes, Confirm!Settles
  <2>2. ASSUME NEW w \in Watchers, w \in others
        PROVE  watcher'[w] \in ConfirmWatcher
    <3> DEFINE b == watcher[w].stale \/ watcher[w].pc = "asking"
    <3>1. watcher[w] \in ConfirmWatcher /\ b \in BOOLEAN
      BY ConfirmCounts DEF ConfirmInv, ConfirmTypes
    <3>2. watcher'[w] = [watcher[w] EXCEPT !.stale = b]
      BY <2>2 DEF Confirm!Settles
    <3> HIDE DEF b
    <3>3. [watcher[w] EXCEPT !.stale = b] \in ConfirmWatcher
      BY <3>1, ConfirmCounts DEF ConfirmWatcher
    <3> QED
      BY <3>2, <3>3
  <2>3. ASSUME NEW w \in Watchers, w \notin others
        PROVE  watcher'[w] \in ConfirmWatcher
    <3> DEFINE h == watcher[w].handled \cup {watcher[w].step}
               b == watcher[w].crossed \/ (watcher[w].step # waiting /\ ~watcher[w].stale)
    <3>1. watcher[w] \in ConfirmWatcher
      BY ConfirmCounts DEF ConfirmInv, ConfirmTypes
    <3>2. h \in SUBSET ConfirmSteps
      BY <3>1, ConfirmCounts DEF ConfirmWatcher
    <3>3. b \in BOOLEAN
      OBVIOUS
    <3>4. watcher'[w] = [watcher[w] EXCEPT !.pc = "reading", !.handled = h, !.crossed = b]
      BY <2>3 DEF Confirm!Settles
    <3> HIDE DEF h, b
    <3>5. [watcher[w] EXCEPT !.pc = "reading", !.handled = h, !.crossed = b] \in ConfirmWatcher
      BY <3>1, <3>2, <3>3, ConfirmCounts DEF ConfirmWatcher
    <3> QED
      BY <3>4, <3>5
  <2>4. watcher' = [w \in Watchers |-> watcher'[w]]
    BY DEF Confirm!Settles
  <2> QED
    BY <2>1, <2>2, <2>3, <2>4, ConfirmCounts DEF ConfirmTypes
<1>2. ASSUME NEW w \in Watchers
      PROVE  ConfirmKnows(w)'
  <2>1. watcher[w] \in ConfirmWatcher /\ ConfirmKnows(w)
    BY ConfirmCounts DEF ConfirmInv, ConfirmTypes
  <2>2. CASE w \in others
    BY <2>1, <2>2, ConfirmCounts DEF Confirm!Settles, ConfirmKnows, ConfirmWatcher
  <2>3. CASE w \notin others
    BY <2>1, <2>3, ConfirmCounts DEF Confirm!Settles, ConfirmKnows, ConfirmWatcher
  <2> QED
    BY <2>2, <2>3
<1> QED
  BY <1>1, <1>2 DEF ConfirmInv

LEMMA ConfirmInvStep ==
  ASSUME ConfirmInv, [Confirm!Next]_(Confirm!vars)
  PROVE  ConfirmInv'
<1>0. \A w \in Watchers : watcher[w] \in ConfirmWatcher /\ ConfirmKnows(w)
  BY ConfirmCounts DEF ConfirmInv, ConfirmTypes
<1>1. CASE Confirm!StepWaits
  <2>1. ConfirmTypes'
    BY <1>1, ConfirmCounts DEF Confirm!StepWaits, ConfirmInv, ConfirmTypes
  <2>2. \A w \in Watchers : ConfirmKnows(w)'
    BY <1>0, <1>1 DEF Confirm!StepWaits, ConfirmKnows
  <2> QED
    BY <2>1, <2>2 DEF ConfirmInv
<1>2. CASE Confirm!RunEnds
  <2>1. ConfirmTypes'
    BY <1>2, ConfirmCounts DEF Confirm!RunEnds, ConfirmInv, ConfirmTypes
  <2>2. \A w \in Watchers : ConfirmKnows(w)'
    BY <1>0, <1>2 DEF Confirm!RunEnds, ConfirmKnows
  <2> QED
    BY <2>1, <2>2 DEF ConfirmInv
<1>3. CASE Confirm!DashboardAnswers
  BY <1>3, ConfirmSettlesKeeps DEF Confirm!DashboardAnswers
<1>4. ASSUME NEW w \in Watchers, Confirm!PollReads(w)
      PROVE  ConfirmInv'
  <2>1. CASE waiting # 0
    <3> DEFINE k == [watcher[w] EXCEPT !.pc = "asking", !.step = waiting,
                                       !.handled = watcher[w].handled, !.stale = FALSE]
    <3>1. k \in ConfirmWatcher /\ k.pc = "asking" /\ k.step = waiting /\ ~k.crossed
      BY <1>0, ConfirmCounts DEF ConfirmWatcher, ConfirmKnows, ConfirmInv, ConfirmTypes
    <3>2. watcher' = [watcher EXCEPT ![w] = k] /\ UNCHANGED Confirm!TheRun
      BY <1>4, <2>1 DEF Confirm!PollReads, Confirm!Moves
    <3> HIDE DEF k
    <3> QED
      BY <2>1, <3>1, <3>2, ConfirmOneMoves
  <2>2. CASE waiting = 0
    <3> DEFINE k == [watcher[w] EXCEPT !.pc = "left", !.step = 0,
                                       !.handled = watcher[w].handled, !.stale = FALSE]
    <3>1. k \in ConfirmWatcher /\ k.pc = "left" /\ ~k.crossed
      BY <1>0, ConfirmCounts DEF ConfirmWatcher, ConfirmKnows
    <3>2. watcher' = [watcher EXCEPT ![w] = k] /\ UNCHANGED Confirm!TheRun
      BY <1>4, <2>2 DEF Confirm!PollReads, Confirm!Moves
    <3> HIDE DEF k
    <3> QED
      BY <3>1, <3>2, ConfirmOneMoves
  <2> QED
    BY <2>1, <2>2
<1>5. ASSUME NEW w \in Watchers, Confirm!StreamReads(w)
      PROVE  ConfirmInv'
  <2> DEFINE seen == events[watcher[w].read + 1]
             pc   == IF seen = 0 THEN "left"
                     ELSE IF seen \in watcher[w].handled THEN "reading" ELSE "looking"
             next == watcher[w].read + 1
             k    == [watcher[w] EXCEPT !.read = next, !.pc = pc, !.step = seen]
  <2>1. seen \in ConfirmSteps
    BY <1>0, <1>5, ConfirmCounts DEF Confirm!StreamReads, ConfirmInv, ConfirmTypes, ConfirmWatcher
  <2>2. watcher' = [watcher EXCEPT ![w] = k] /\ UNCHANGED Confirm!TheRun
    BY <1>5 DEF Confirm!StreamReads
  <2>3. pc \in {"left", "reading", "looking"} /\ (pc = "looking" => seen # 0)
    OBVIOUS
  <2>4. next \in Nat
    BY <1>0, ConfirmCounts DEF ConfirmWatcher
  <2> HIDE DEF seen, pc, next
  <2>5. k \in ConfirmWatcher /\ k.pc = pc /\ k.step = seen /\ ~k.crossed
    <3>1. watcher[w] \in ConfirmWatcher /\ ~watcher[w].crossed
      BY <1>0 DEF ConfirmKnows
    <3>2. pc \in {"reading", "looking", "asking", "left"}
      BY <2>3
    <3> QED
      BY <2>1, <2>4, <3>1, <3>2, ConfirmCounts DEF ConfirmWatcher
  <2> HIDE DEF k
  <2> QED
    BY <2>2, <2>3, <2>5, ConfirmOneMoves
<1>6. ASSUME NEW w \in Watchers, Confirm!Looks(w)
      PROVE  ConfirmInv'
  <2>1. CASE waiting = watcher[w].step
    <3> DEFINE k == [watcher[w] EXCEPT !.pc = "asking", !.step = watcher[w].step,
                                       !.handled = watcher[w].handled, !.stale = FALSE]
    <3>1. k \in ConfirmWatcher /\ k.step = waiting /\ waiting # 0 /\ k.pc = "asking" /\ ~k.crossed
      BY <1>0, <1>6, <2>1, ConfirmCounts DEF ConfirmWatcher, ConfirmKnows, Confirm!Looks
    <3>2. watcher' = [watcher EXCEPT ![w] = k] /\ UNCHANGED Confirm!TheRun
      BY <1>6, <2>1 DEF Confirm!Looks, Confirm!Moves
    <3> HIDE DEF k
    <3> QED
      BY <3>1, <3>2, ConfirmOneMoves
  <2>2. CASE waiting # watcher[w].step
    <3> DEFINE k == [watcher[w] EXCEPT !.pc = "reading", !.step = 0,
                        !.handled = watcher[w].handled \cup {watcher[w].step}, !.stale = FALSE]
    <3>1. k \in ConfirmWatcher /\ k.pc = "reading" /\ ~k.crossed
      BY <1>0, ConfirmCounts DEF ConfirmWatcher, ConfirmKnows
    <3>2. watcher' = [watcher EXCEPT ![w] = k] /\ UNCHANGED Confirm!TheRun
      BY <1>6, <2>2 DEF Confirm!Looks, Confirm!Moves
    <3> HIDE DEF k
    <3> QED
      BY <3>1, <3>2, ConfirmOneMoves
  <2> QED
    BY <2>1, <2>2
<1>7. ASSUME NEW w \in Watchers, Confirm!CannotLook(w)
      PROVE  ConfirmInv'
  <2> DEFINE k == [watcher[w] EXCEPT !.pc = "asking", !.stale = TRUE]
  <2>1. k \in ConfirmWatcher /\ k.pc = "asking" /\ k.stale /\ ~k.crossed
    BY <1>0, ConfirmCounts DEF ConfirmWatcher, ConfirmKnows
  <2>2. watcher' = [watcher EXCEPT ![w] = k] /\ UNCHANGED Confirm!TheRun
    BY <1>0, <1>7, ConfirmCounts DEF Confirm!CannotLook, ConfirmInv, ConfirmTypes
  <2> HIDE DEF k
  <2> QED
    BY <2>1, <2>2, ConfirmOneMoves
<1>8. ASSUME NEW w \in Watchers, Confirm!Answers(w)
      PROVE  ConfirmInv'
  BY <1>8, ConfirmSettlesKeeps DEF Confirm!Answers
<1>9. ASSUME NEW w \in Watchers, Confirm!Refused(w)
      PROVE  ConfirmInv'
  <2>1. CASE watcher[w].how = "stream"
    <3> DEFINE k == [Confirm!Fresh("poll") EXCEPT !.crossed = watcher[w].crossed]
    <3>1. k \in ConfirmWatcher /\ k.pc = "reading" /\ ~k.crossed
      BY <1>0, ConfirmCounts DEF ConfirmWatcher, ConfirmKnows, Confirm!Fresh
    <3>2. watcher' = [watcher EXCEPT ![w] = k] /\ UNCHANGED Confirm!TheRun
      BY <1>9, <2>1, ConfirmCounts DEF Confirm!Refused, ConfirmInv, ConfirmTypes
    <3> HIDE DEF k
    <3> QED
      BY <3>1, <3>2, ConfirmOneMoves
  <2>2. CASE watcher[w].how # "stream"
    <3> DEFINE k == [watcher[w] EXCEPT !.pc = "left"]
    <3>1. k \in ConfirmWatcher /\ k.pc = "left" /\ ~k.crossed
      BY <1>0, ConfirmCounts DEF ConfirmWatcher, ConfirmKnows
    <3>2. watcher' = [watcher EXCEPT ![w] = k] /\ UNCHANGED Confirm!TheRun
      BY <1>9, <2>2, ConfirmCounts DEF Confirm!Refused, ConfirmInv, ConfirmTypes
    <3> HIDE DEF k
    <3> QED
      BY <3>1, <3>2, ConfirmOneMoves
  <2> QED
    BY <2>1, <2>2
<1>10. CASE UNCHANGED Confirm!vars
  BY <1>10, ConfirmCounts DEF Confirm!vars, ConfirmInv, ConfirmTypes, ConfirmKnows
<1> QED
  BY <1>1, <1>2, <1>3, <1>4, <1>5, <1>6, <1>7, <1>8, <1>9, <1>10 DEF Confirm!Next

LEMMA ConfirmTyped == ConfirmInv => Confirm!TypeOK
BY ConfirmCounts DEF ConfirmInv, ConfirmTypes, ConfirmWatcher, ConfirmSteps, Confirm!TypeOK

LEMMA ConfirmMoves == [Next]_vars => [Confirm!Next]_(Confirm!vars)
BY DEF Next, vars, confirmVars, Confirm!vars

(* watchers.py: however many terminals and dashboards answer for a run of any *)
(* length, an answer settles the step its operator was asked about, unless    *)
(* somebody else answered while the question stood or the run could not be    *)
(* looked at.                                                                *)
THEOREM AnswersMeetTheirStep == Spec => []AnswersItsStep
<1>1. Init => ConfirmInv
  BY ConfirmInvInit DEF Init
<1>2. ConfirmInv /\ [Next]_vars => ConfirmInv'
  BY ConfirmInvStep, ConfirmMoves
<1>3. ConfirmInv => AnswersItsStep
  BY DEF ConfirmInv, ConfirmKnows, AnswersItsStep, Confirm!AnswersItsStep
<1> QED
  BY <1>1, <1>2, <1>3, PTL DEF Spec

-----------------------------------------------------------------------------
(* What is on disk about tasks and runs: run_memory.py, fact_store.py.        *)

(* The writes of a save that come after its snapshot. *)
MemorySnapshotWritten(x) ==
  \/ writer.next \in {"latest", "observed", "failure", "named"}
  \/ writer.next = "artifact" /\ x \in RunIds

(* Who writes, and what it found when it began. *)
MemoryOrderly ==
  /\ writer.next = "idle" => writer = Memory!Idle
  /\ writer.next \notin {"idle", "recovered"} =>
       /\ phase = "serving" /\ writer.of \in Memory!Sources /\ live[writer.of].state # "absent"
       /\ MemorySnapshotWritten(writer.of) =>
            /\ snapshot[writer.of].state = live[writer.of].state
            /\ snapshot[writer.of].steps = live[writer.of].steps
  /\ writer.next \in {"artifact", "failure"} => live[writer.of].state \in Memory!Terminal
  /\ writer.next = "failure" => live[writer.of].state # "completed"
  /\ writer.next = "observed" => live[writer.of].steps
  /\ writer.next = "recovered" =>
       writer.of \in todo /\ snapshot[writer.of].state = "aborted"
  /\ phase # "serving" => live = [x \in Memory!Sources |-> Memory!Absent]
  /\ phase \in {"down", "serving"} => todo = {}
  /\ phase = "tasks" => todo \subseteq TaskIds
  /\ phase = "runs" => todo \subseteq RunIds
  /\ \A x \in todo : Memory!Unfinished(x) \/ writer = [of |-> x, next |-> "recovered", artifact |-> 0]
  /\ \A x \in Memory!Sources : live[x].state \in {"completed", "aborted"} => live[x].ended
  /\ \A x \in Memory!Sources : live[x].state = "absent" => live[x] = Memory!Absent
  /\ \A x \in Memory!Sources : snapshot[x].state = "absent" => ~snapshot[x].steps

(* What the repair leaves behind, and what it has still to look at. *)
MemoryRepaired ==
  /\ \A x \in Memory!Sources : snapshot[x].at <= clock
  /\ phase # "down" => \A t \in TaskIds :
       Memory!Unfinished(t) /\ live[t] = Memory!Absent /\ t \notin todo => ~Memory!Scanned(t)
  /\ phase = "runs" => \A r \in RunIds : Memory!Unfinished(r) => r \in todo
  /\ phase = "serving" => \A r \in RunIds : Memory!Unfinished(r) => live[r] # Memory!Absent

(* The artifact of the save that is going on. *)
MemoryArtifactKnown ==
  /\ \A i \in DOMAIN artifacts : artifacts[i].state \in Memory!Terminal
  /\ writer.artifact # 0 =>
       /\ writer.artifact \in DOMAIN artifacts
       /\ artifacts[writer.artifact] = [of |-> writer.of, state |-> live[writer.of].state]

(* Of a task or run that failed once, or is completed, or has steps: what its *)
(* snapshot shows, and what it can still be saved as.                        *)
MemoryFailedOnce(x) == /\ snapshot[x].state \notin {"absent", "completed"}
                       /\ live[x].state # "completed"
                       /\ live[x].state \in {"absent", "failed"} \/ live[x].ended
MemoryCompleted(x)  == /\ snapshot[x].state = "completed"
                       /\ \/ live[x].state = "absent"
                          \/ live[x].state = "completed" /\ live[x].ended
MemoryStepped(x)    == snapshot[x].steps /\ (live[x].state # "absent" => live[x].steps)

MemoryTold(l) ==
  /\ \A i \in DOMAIN l.failures : l.failures[i].of \in Memory!Sources /\ MemoryFailedOnce(l.failures[i].of)
  /\ l.task.state = "completed" => l.task.of \in Memory!Sources /\ MemoryCompleted(l.task.of)
  /\ l.run.state  = "completed" => l.run.of \in Memory!Sources /\ MemoryCompleted(l.run.of)
  /\ l.observed # NoId => MemoryStepped(l.observed)

MemoryInv == /\ Memory!TypeOK /\ MemoryOrderly /\ MemoryRepaired
             /\ Memory!ArtifactsAgree /\ MemoryArtifactKnown
             /\ MemoryTold(ledger) /\ MemoryTold(file)

-----------------------------------------------------------------------------
LEMMA MemoryAbsentIsHeld == Memory!Absent \in Memory!Held
BY DEF Memory!Absent, Memory!Held, Memory!States, Memory!Terminal

(* The failures with a new one: it, and some of those there were. *)
LEMMA MemoryNewFailure ==
  ASSUME AgentConstants, ledger \in Memory!Ledger, NEW x \in Memory!Sources, NEW s \in Memory!States
  PROVE  /\ Memory!WithFailure(x, s) \in Memory!Ledger
         /\ Memory!WithFailure(x, s).task = ledger.task /\ Memory!WithFailure(x, s).run = ledger.run
         /\ Memory!WithFailure(x, s).observed = ledger.observed
         /\ \A i \in DOMAIN Memory!WithFailure(x, s).failures :
              \/ Memory!WithFailure(x, s).failures[i] = [of |-> x, state |-> s]
              \/ \E j \in DOMAIN ledger.failures :
                   Memory!WithFailure(x, s).failures[i] = ledger.failures[j]
<1> DEFINE new == [of |-> x, state |-> s]
           all == <<new>> \o ledger.failures
           k   == IF Len(all) < KeptFailures THEN Len(all) ELSE KeptFailures
<1>1. new \in Memory!Fact /\ ledger.failures \in Seq(Memory!Fact)
  BY DEF Memory!Fact, Memory!Ledger
<1>2. /\ all \in Seq(Memory!Fact) /\ Len(all) = Len(ledger.failures) + 1
      /\ \A i \in 1..Len(all) : all[i] = IF i = 1 THEN new ELSE ledger.failures[i - 1]
  <2> HIDE DEF new
  <2> QED
    BY <1>1
<1>3. k \in 0..Len(all)
  <2> HIDE DEF all
  <2>1. Len(all) \in Nat /\ KeptFailures \in Nat
    BY <1>2 DEF AgentConstants
  <2> QED
    BY <2>1
<1>4. /\ SubSeq(all, 1, k) \in Seq(Memory!Fact) /\ Len(SubSeq(all, 1, k)) = k
      /\ \A i \in 1..k : SubSeq(all, 1, k)[i] = all[i]
  <2> HIDE DEF all, k
  <2>1. \A i \in 1..k : all[i] \in Memory!Fact
    BY <1>2, <1>3
  <2> QED
    BY <1>2, <1>3, <2>1
<1>5. Memory!WithFailure(x, s) = [ledger EXCEPT !.failures = SubSeq(all, 1, k)]
  BY DEF Memory!WithFailure
<1> HIDE DEF new, all, k
<1>6. /\ Memory!WithFailure(x, s) \in Memory!Ledger /\ Memory!WithFailure(x, s).failures = SubSeq(all, 1, k)
      /\ Memory!WithFailure(x, s).task = ledger.task /\ Memory!WithFailure(x, s).run = ledger.run
      /\ Memory!WithFailure(x, s).observed = ledger.observed
  BY <1>4, <1>5 DEF Memory!Ledger
<1>7. ASSUME NEW i \in 1..k
      PROVE  \/ SubSeq(all, 1, k)[i] = new
             \/ \E j \in DOMAIN ledger.failures : SubSeq(all, 1, k)[i] = ledger.failures[j]
  <2>1. CASE i = 1
    BY <1>2, <1>3, <1>4, <2>1
  <2>2. CASE i # 1
    <3>1. i - 1 \in DOMAIN ledger.failures /\ SubSeq(all, 1, k)[i] = ledger.failures[i - 1]
      BY <1>1, <1>2, <1>3, <1>4, <2>2, SMTT(20)
    <3> QED
      BY <3>1
  <2> QED
    BY <2>1, <2>2
<1>8. DOMAIN SubSeq(all, 1, k) = 1..k
  BY <1>3, <1>4
<1> QED
  BY <1>6, <1>7, <1>8 DEF new

LEMMA MemoryLatestIsLedger ==
  ASSUME ledger \in Memory!Ledger, NEW x \in Memory!Sources, live[x].state \in Memory!States
  PROVE  Memory!Latest(x) \in Memory!Ledger
BY DEF Memory!Latest, Memory!Ledger, Memory!Fact

(* What the next write is. *)
LEMMA MemoryNextWrites ==
  ASSUME NEW x
  PROVE  /\ Memory!LastWrite(x) \in {"idle", "artifact", "named"}
         /\ Memory!LastWrite(x) \in {"artifact", "named"} => x \in RunIds
         /\ Memory!LastWrite(x) = "artifact" => live[x].state \in Memory!Terminal
         /\ Memory!FailureWrite(x) \in {"failure", Memory!LastWrite(x)}
         /\ Memory!FailureWrite(x) = "failure" => live[x].state \in {"failed", "aborted"}
BY DEF Memory!LastWrite, Memory!FailureWrite

LEMMA MemoryThenWrites ==
  ASSUME NEW stage \in Memory!Stages, Memory!Then(stage),
         writer \in [of : Memory!Sources \cup {NoId}, next : Memory!Stages, artifact : Nat]
  PROVE  \/ stage = "idle" /\ writer' = Memory!Idle
         \/ /\ stage # "idle" /\ writer'.next = stage /\ writer'.of = writer.of
            /\ writer'.artifact = writer.artifact
            /\ writer' \in [of : Memory!Sources \cup {NoId}, next : Memory!Stages, artifact : Nat]
BY DEF Memory!Then, Memory!Idle, Memory!Stages

(* What a save changes, whoever asked for it. *)
LEMMA MemorySaveChanges ==
  ASSUME Memory!TypeOK, AgentConstants, MemoryOrderly, NEW x \in Memory!Sources, NEW h \in Memory!Held,
         Memory!Save(x, h), h.state # "absent",
         h.state \in {"completed", "aborted"} => h.ended
  PROVE  Memory!TypeOK' /\ MemoryOrderly'
<1>1. /\ phase = "serving" /\ writer = Memory!Idle /\ todo = {}
      /\ live' = [live EXCEPT ![x] = h]
      /\ writer'.of = x /\ writer'.artifact = 0
      /\ writer'.next \in {"artifact", "snapshot"}
      /\ writer'.next = "artifact" => x \in TaskIds /\ h.state \in Memory!Terminal
      /\ writer' \in [of : Memory!Sources \cup {NoId}, next : Memory!Stages, artifact : Nat]
      /\ UNCHANGED <<snapshot, artifacts, ledger, file, phase, todo, losses>>
      /\ clock' \in Nat
  BY DEF Memory!TypeOK, MemoryOrderly, Memory!Save, Memory!FirstWrite, Memory!Stages, Memory!Sources
<1>2. Memory!TypeOK'
  BY <1>1 DEF Memory!TypeOK
<1>3. live'[x] = h /\ \A y \in Memory!Sources \ {x} : live'[y] = live[y]
  BY <1>1 DEF Memory!TypeOK
<1>4. ~MemorySnapshotWritten(x)'
  BY <1>1 DEF MemorySnapshotWritten, AgentConstants
<1> QED
  BY <1>1, <1>2, <1>3, <1>4 DEF MemoryOrderly

LEMMA MemoryBeginSaves ==
  ASSUME Memory!TypeOK, NEW x \in Memory!Sources, Memory!Begin(x)
  PROVE  \E h \in Memory!Held : /\ Memory!Save(x, h) /\ h.state = "running" /\ ~h.ended
                                /\ live[x].state = "absent" /\ snapshot[x].state = "absent"
<1>1. [Memory!Absent EXCEPT !.state = "running"] \in Memory!Held
  BY MemoryAbsentIsHeld DEF Memory!Held, Memory!States, Memory!Terminal, Memory!Absent
<1> QED
  BY <1>1 DEF Memory!Begin, Memory!Absent

LEMMA MemoryGoesSaves ==
  ASSUME Memory!TypeOK, NEW x \in Memory!Sources, Memory!Goes(x)
  PROVE  \E h \in Memory!Held : /\ Memory!Save(x, h) /\ h.state \in {"running", "paused", "failed"} /\ ~h.ended
                                /\ live[x].state \in {"running", "paused"} /\ ~live[x].ended
                                /\ live[x].steps => h.steps
<1>1. PICK state \in {"running", "paused", "failed"}, steps \in BOOLEAN, said \in BOOLEAN :
        /\ live[x].steps => steps
        /\ Memory!Save(x, [state |-> state, steps |-> steps, said |-> said, ended |-> FALSE])
  BY DEF Memory!Goes
<1>2. [state |-> state, steps |-> steps, said |-> said, ended |-> FALSE] \in Memory!Held
  BY DEF Memory!Held, Memory!States, Memory!Terminal
<1> QED
  BY <1>1, <1>2 DEF Memory!Goes

LEMMA MemoryEndsSaves ==
  ASSUME Memory!TypeOK, NEW x \in Memory!Sources, Memory!Ends(x)
  PROVE  \E h \in Memory!Held : /\ Memory!Save(x, h) /\ h.state # "absent" /\ h.ended
                                /\ live[x].state # "absent" /\ ~live[x].ended
                                /\ live[x].state = "failed" => h.state # "completed"
                                /\ h.steps = live[x].steps
<1>1. PICK state \in Memory!Terminal \cup {"running", "paused"}, said \in BOOLEAN :
        /\ live[x].state = "failed" => state # "completed"
        /\ Memory!Save(x, [live[x] EXCEPT !.state = state, !.said = said, !.ended = TRUE])
  BY DEF Memory!Ends
<1> DEFINE h == [live[x] EXCEPT !.state = state, !.said = said, !.ended = TRUE]
<1>2. h \in Memory!Held /\ h.state = state /\ h.ended = TRUE /\ h.steps = live[x].steps
  BY DEF Memory!Held, Memory!States, Memory!TypeOK
<1>3. state # "absent"
  BY DEF Memory!Terminal
<1> HIDE DEF h
<1> QED
  BY <1>1, <1>2, <1>3 DEF Memory!Ends, h

-----------------------------------------------------------------------------
(* A write of the save that is going on leaves the rest as it was. *)
LEMMA MemoryWriteChanges ==
  ASSUME Memory!TypeOK, AgentConstants, MemoryOrderly,
         Memory!WriteArtifact \/ Memory!WriteSnapshot \/ Memory!WriteLatest \/ Memory!WriteObserved \/ Memory!WriteFailure
  PROVE  Memory!TypeOK' /\ MemoryOrderly'
<1> USE DEF Memory!TypeOK
<1>0. /\ phase = "serving" /\ todo = {} /\ writer.of \in Memory!Sources
      /\ live[writer.of] \in Memory!Held /\ live[writer.of].state # "absent"
      /\ UNCHANGED <<live, clock, phase, todo, losses>>
  BY DEF MemoryOrderly, Memory!WriteArtifact, Memory!WriteSnapshot, Memory!WriteLatest, Memory!WriteObserved, Memory!WriteFailure, Memory!Writing, Memory!Learn
<1>1. CASE Memory!WriteArtifact
  <2> DEFINE new == [of |-> writer.of, state |-> live[writer.of].state]
  <2>1. new \in Memory!Fact
    BY <1>0 DEF Memory!Fact, Memory!Held
  <2>2. artifacts' = Append(artifacts, new) /\ UNCHANGED <<snapshot, ledger, file>>
    BY <1>1 DEF Memory!WriteArtifact
  <2> HIDE DEF new
  <2>3. artifacts' \in Seq(Memory!Fact)
    BY <2>1, <2>2
  <2>4. /\ writer'.of = writer.of /\ writer'.artifact \in Nat
        /\ writer'.next = IF writer.of \in RunIds THEN "named" ELSE "snapshot"
        /\ writer' \in [of : Memory!Sources \cup {NoId}, next : Memory!Stages, artifact : Nat]
    <3> DEFINE stage == IF writer.of \in RunIds THEN "named" ELSE "snapshot"
               n == Len(artifacts) + 1
    <3>1. stage \in Memory!Stages /\ n \in Nat
      BY DEF Memory!Stages
    <3>2. writer' = [writer EXCEPT !.artifact = n, !.next = stage]
      BY <1>1 DEF Memory!WriteArtifact
    <3>3. stage = IF writer.of \in RunIds THEN "named" ELSE "snapshot"
      OBVIOUS
    <3> HIDE DEF stage, n
    <3> QED
      BY <3>1, <3>2, <3>3
  <2> QED
    BY <1>0, <1>1, <2>2, <2>3, <2>4 DEF Memory!WriteArtifact, Memory!Writing, MemoryOrderly, MemorySnapshotWritten
<1>2. CASE Memory!WriteSnapshot
  <2> DEFINE w == [state |-> live[writer.of].state, steps |-> live[writer.of].steps,
                   said |-> live[writer.of].said, at |-> clock, artifact |-> writer.artifact]
             stage == IF Memory!Writing("named") THEN "idle" ELSE "latest"
  <2>1. /\ snapshot' = [snapshot EXCEPT ![writer.of] = w] /\ Memory!Then(stage)
        /\ UNCHANGED <<artifacts, ledger, file>>
    BY <1>2 DEF Memory!WriteSnapshot
  <2>2. w \in Memory!Saved /\ w.state = live[writer.of].state /\ w.steps = live[writer.of].steps
    BY <1>0 DEF Memory!Saved, Memory!Held
  <2>3. stage \in {"idle", "latest"} /\ stage \in Memory!Stages
    BY DEF Memory!Stages
  <2> HIDE DEF w, stage
  <2>4. snapshot' \in [Memory!Sources -> Memory!Saved] /\ snapshot'[writer.of] = w
    BY <1>0, <2>1, <2>2
  <2>5. CASE writer' = Memory!Idle
    BY <1>0, <2>1, <2>2, <2>4, <2>5 DEF Memory!Idle, MemoryOrderly, Memory!Stages
  <2>6. CASE /\ writer'.next = "latest" /\ writer'.of = writer.of
             /\ writer' \in [of : Memory!Sources \cup {NoId}, next : Memory!Stages, artifact : Nat]
    BY <1>0, <2>1, <2>2, <2>4, <2>6 DEF MemoryOrderly
  <2> QED
    BY <2>1, <2>3, <2>5, <2>6, MemoryThenWrites
<1>3. CASE Memory!WriteLatest \/ Memory!WriteObserved \/ Memory!WriteFailure
  <2>1. ledger' \in Memory!Ledger /\ file' \in Memory!Ledger /\ UNCHANGED <<snapshot, artifacts>>
    <3>1. CASE Memory!WriteLatest
      BY <1>0, <3>1, MemoryLatestIsLedger DEF Memory!WriteLatest, Memory!Learn, Memory!Held
    <3>2. CASE Memory!WriteObserved
      BY <1>0, <3>2 DEF Memory!WriteObserved, Memory!Learn, Memory!Ledger
    <3>3. CASE Memory!WriteFailure
      BY <1>0, <3>3, MemoryNewFailure DEF Memory!WriteFailure, Memory!Learn, Memory!Held
    <3> QED
      BY <1>3, <3>1, <3>2, <3>3
  <2>2. PICK stage \in {"observed", Memory!FailureWrite(writer.of), Memory!LastWrite(writer.of)} :
          Memory!Then(stage) /\ (stage = "observed" => live[writer.of].steps)
    BY <1>3, MemoryNextWrites DEF Memory!WriteLatest, Memory!WriteObserved, Memory!WriteFailure
  <2>3. /\ stage \in Memory!Stages /\ stage \in {"idle", "observed", "failure", "artifact", "named"}
        /\ stage \in {"artifact", "failure"} => live[writer.of].state \in Memory!Terminal
        /\ stage = "failure" => live[writer.of].state # "completed"
        /\ stage \in {"artifact", "named"} => writer.of \in RunIds
    BY <2>2, MemoryNextWrites DEF Memory!Stages, Memory!Terminal
  <2>4. MemorySnapshotWritten(writer.of)
    BY <1>3 DEF Memory!WriteLatest, Memory!WriteObserved, Memory!WriteFailure, Memory!Writing, MemorySnapshotWritten
  <2>5. CASE writer' = Memory!Idle
    BY <1>0, <2>1, <2>5 DEF Memory!Idle, MemoryOrderly, Memory!Stages
  <2>6. CASE /\ writer'.next = stage /\ writer'.of = writer.of /\ stage # "idle"
             /\ writer' \in [of : Memory!Sources \cup {NoId}, next : Memory!Stages, artifact : Nat]
    <3>1. /\ writer.next # "idle" /\ writer.next # "recovered"
          /\ snapshot[writer.of].state = live[writer.of].state
          /\ snapshot[writer.of].steps = live[writer.of].steps
      BY <1>0, <1>3, <2>4 DEF MemoryOrderly, Memory!WriteLatest, Memory!WriteObserved, Memory!WriteFailure, Memory!Writing
    <3> QED
      BY <1>0, <2>1, <2>2, <2>3, <2>6, <3>1 DEF MemoryOrderly, MemorySnapshotWritten
  <2> QED
    BY <2>2, <2>3, <2>5, <2>6, MemoryThenWrites
<1> QED
  BY <1>1, <1>2, <1>3

(* So do a write that raises, a death and the steps of the repair. *)
LEMMA MemoryRepairChanges ==
  ASSUME Memory!TypeOK, AgentConstants, MemoryOrderly,
         \/ Memory!WriteRaises \/ Memory!Die \/ Memory!ScanTasks \/ Memory!ScanRuns \/ Memory!RecordRecovered \/ Memory!Serve
         \/ \E x \in Memory!Sources : Memory!Recover(x)
  PROVE  Memory!TypeOK' /\ MemoryOrderly'
<1> USE DEF Memory!TypeOK
<1>1. CASE Memory!WriteRaises
  <2>1. writer.of \in Memory!Sources /\ live[writer.of].state \in Memory!States
    BY <1>1 DEF Memory!WriteRaises, MemoryOrderly, Memory!Held
  <2>2. ledger' \in Memory!Ledger
    <3>1. CASE Memory!Writing("latest")
      <4>1. ledger' = Memory!Latest(writer.of)
        BY <1>1, <3>1 DEF Memory!WriteRaises, Memory!Writing
      <4> QED
        BY <2>1, <4>1, MemoryLatestIsLedger
    <3>2. CASE Memory!Writing("observed")
      BY <1>1, <2>1, <3>2 DEF Memory!WriteRaises, Memory!Writing, Memory!Ledger
    <3>3. CASE Memory!Writing("failure")
      BY <1>1, <2>1, <3>3, MemoryNewFailure DEF Memory!WriteRaises, Memory!Writing
    <3>4. CASE ~Memory!Writing("latest") /\ ~Memory!Writing("observed") /\ ~Memory!Writing("failure")
      BY <1>1, <3>4 DEF Memory!WriteRaises
    <3> QED
      BY <3>1, <3>2, <3>3, <3>4
  <2>3. /\ writer' = Memory!Idle /\ losses' \in Nat
        /\ UNCHANGED <<live, snapshot, artifacts, file, clock, phase, todo>>
    BY <1>1 DEF Memory!WriteRaises
  <2>4. Memory!Idle \in [of : Memory!Sources \cup {NoId}, next : Memory!Stages, artifact : Nat] /\ Memory!Idle.next = "idle"
    BY DEF Memory!Idle, Memory!Stages
  <2>5. Memory!TypeOK'
    BY <2>2, <2>3, <2>4
  <2>6. phase = "serving"
    BY <1>1 DEF Memory!WriteRaises
  <2> QED
    BY <2>3, <2>4, <2>5, <2>6 DEF MemoryOrderly
<1>2. CASE Memory!Die
  <2>1. [x \in Memory!Sources |-> Memory!Absent] \in [Memory!Sources -> Memory!Held]
    BY MemoryAbsentIsHeld
  <2>2. Memory!Idle \in [of : Memory!Sources \cup {NoId}, next : Memory!Stages, artifact : Nat] /\ Memory!Idle.next = "idle"
    BY DEF Memory!Idle, Memory!Stages
  <2>3. Memory!TypeOK'
    BY <1>2, <2>1, <2>2 DEF Memory!Die
  <2> QED
    BY <1>2, <2>2, <2>3 DEF Memory!Die, MemoryOrderly, Memory!Absent
<1>3. CASE Memory!ScanTasks
  BY <1>3 DEF Memory!ScanTasks, MemoryOrderly, Memory!Sources, Memory!Unfinished
<1>4. CASE Memory!ScanRuns
  BY <1>4 DEF Memory!ScanRuns, MemoryOrderly, Memory!Sources, Memory!Unfinished
<1>5. CASE Memory!RecordRecovered
  <2>1. writer.of \in Memory!Sources /\ writer.of \in todo
    BY <1>5 DEF Memory!RecordRecovered, Memory!Writing, MemoryOrderly
  <2>2. ledger' \in Memory!Ledger /\ file' \in Memory!Ledger
    BY <1>5, <2>1, MemoryNewFailure DEF Memory!RecordRecovered, Memory!Learn, Memory!States, Memory!Terminal
  <2>3. Memory!Idle \in [of : Memory!Sources \cup {NoId}, next : Memory!Stages, artifact : Nat] /\ Memory!Idle.next = "idle"
    BY DEF Memory!Idle, Memory!Stages
  <2>4. /\ UNCHANGED <<live, snapshot, artifacts, clock, phase, losses>>
        /\ writer' = Memory!Idle /\ todo' = todo \ {writer.of}
    BY <1>5 DEF Memory!RecordRecovered, Memory!Learn
  <2>5. Memory!TypeOK'
    BY <2>2, <2>3, <2>4
  <2>6. \A x \in todo' : Memory!Unfinished(x)'
    BY <2>4 DEF MemoryOrderly, Memory!Unfinished
  <2> QED
    BY <2>1, <2>3, <2>4, <2>5, <2>6 DEF MemoryOrderly
<1>6. CASE Memory!Serve
  BY <1>6 DEF Memory!Serve, MemoryOrderly, Memory!Unfinished
<1>7. ASSUME NEW x \in Memory!Sources, Memory!Recover(x)
      PROVE  Memory!TypeOK' /\ MemoryOrderly'
  <2> DEFINE s == Memory!Interrupted(snapshot[x])
  <2>1. /\ snapshot' = [snapshot EXCEPT ![x] = s]
        /\ writer' = [of |-> x, next |-> "recovered", artifact |-> 0]
        /\ clock' \in Nat /\ x \in todo /\ writer = Memory!Idle
        /\ UNCHANGED <<live, artifacts, ledger, file, phase, todo, losses>>
    BY <1>7 DEF Memory!Recover
  <2>2. s \in Memory!Saved /\ s.state = "aborted"
    <3>1. snapshot[x] \in Memory!Saved /\ clock + 1 \in Nat
      OBVIOUS
    <3> QED
      BY <3>1 DEF Memory!Interrupted, Memory!Saved, Memory!States, Memory!Terminal
  <2> HIDE DEF s
  <2>3. Memory!TypeOK'
    BY <2>1, <2>2 DEF Memory!Stages
  <2>4. snapshot'[x].state = "aborted" /\ \A y \in Memory!Sources \ {x} : snapshot'[y] = snapshot[y]
    BY <2>1, <2>2
  <2>5. phase \notin {"down", "serving"}
    BY <2>1 DEF MemoryOrderly
  <2>6. \A y \in todo \ {x} : Memory!Unfinished(y)'
    BY <2>1, <2>4 DEF MemoryOrderly, Memory!Unfinished, Memory!Idle
  <2> QED
    BY <2>1, <2>3, <2>4, <2>5, <2>6 DEF MemoryOrderly
<1> QED
  BY <1>1, <1>2, <1>3, <1>4, <1>5, <1>6, <1>7

-----------------------------------------------------------------------------
(* The Cardinality of the instance is that of the library. *)
LEMMA MemoryCounts ==
  ASSUME NEW S
  PROVE  Memory!Cardinality(S) = Cardinality(S)
BY DEF Memory!Cardinality, Cardinality, Memory!IsFiniteSet, IsFiniteSet

(* A snapshot that is as it was, and those newer than it, which only become    *)
(* newer still: what was beyond the reach of the repair stays beyond it.     *)
LEMMA MemoryStaysBehind ==
  ASSUME AgentConstants, Memory!TypeOK, NEW t \in TaskIds, NEW w \in Memory!Sources, w # t,
         NEW s \in Memory!Saved, snapshot' = [snapshot EXCEPT ![w] = s],
         s.state # "absent", \A x \in Memory!Sources : snapshot[x].at <= s.at,
         ~Memory!Scanned(t)
  PROVE  ~Memory!Scanned(t)'
<1>1. \A u \in Memory!Sources : snapshot[u] \in Memory!Saved /\ snapshot'[u] = IF u = w THEN s ELSE snapshot[u]
  BY DEF Memory!TypeOK
<1>2. \A u \in Memory!Sources : snapshot[u].at \in Nat /\ snapshot'[u].at \in Nat
  BY <1>1 DEF Memory!Saved
<1>3. Memory!Newer(t) \subseteq Memory!Newer(t)'
  BY <1>1, <1>2 DEF Memory!Newer, Memory!Sources
<1>4. IsFiniteSet(Memory!Newer(t)') /\ IsFiniteSet(Memory!Newer(t))
  BY FS_Subset DEF Memory!Newer, AgentConstants
<1>5. Cardinality(Memory!Newer(t)) <= Cardinality(Memory!Newer(t)')
  BY <1>3, <1>4, FS_Subset
<1>6. Cardinality(Memory!Newer(t)) \in Nat /\ Cardinality(Memory!Newer(t)') \in Nat
  BY <1>4, FS_CardinalityType
<1> QED
  BY <1>5, <1>6, MemoryCounts DEF Memory!Scanned, AgentConstants

LEMMA MemorySavesRepaired ==
  ASSUME Memory!TypeOK, MemoryRepaired, NEW x \in Memory!Sources, NEW h \in Memory!Held, Memory!Save(x, h), h.state # "absent"
  PROVE  MemoryRepaired'
<1>1. /\ phase = "serving" /\ UNCHANGED <<snapshot, phase, todo>>
      /\ clock' = clock + 1 /\ live' = [live EXCEPT ![x] = h] /\ clock \in Nat
  BY DEF Memory!Save, Memory!TypeOK
<1>2. /\ live'[x] = h /\ \A y \in Memory!Sources \ {x} : live'[y] = live[y]
      /\ h # Memory!Absent
  BY <1>1 DEF Memory!TypeOK, Memory!Absent
<1>3. \A y \in Memory!Sources : /\ Memory!Unfinished(y)' = Memory!Unfinished(y)
                        /\ Memory!Scanned(y)' = Memory!Scanned(y)
                        /\ snapshot[y].at \in Nat
  BY <1>1 DEF Memory!Unfinished, Memory!Scanned, Memory!Newer, Memory!TypeOK, Memory!Saved
<1> QED
  BY <1>1, <1>2, <1>3 DEF MemoryRepaired, Memory!Sources

(* The snapshot of w is written. *)
MemoryRewritten(w, s) ==
  /\ snapshot' = [snapshot EXCEPT ![w] = s] /\ UNCHANGED <<live, phase, todo>>
  /\ clock' \in Nat /\ clock <= clock' /\ s.at = clock'
  /\ s.state # "absent" /\ (s.state \in Memory!Terminal \/ (live[w] # Memory!Absent /\ phase = "serving"))

LEMMA MemoryWritesRepaired ==
  ASSUME AgentConstants, Memory!TypeOK, MemoryRepaired, NEW w \in Memory!Sources, NEW s \in Memory!Saved, MemoryRewritten(w, s)
  PROVE  MemoryRepaired'
<1> USE DEF MemoryRewritten
<1>1. /\ snapshot'[w] = s
      /\ \A y \in Memory!Sources \ {w} : snapshot'[y] = snapshot[y] /\ Memory!Unfinished(y)' = Memory!Unfinished(y)
      /\ s.state \in Memory!Terminal => ~Memory!Unfinished(w)'
  BY DEF Memory!TypeOK, Memory!Unfinished
<1>2. \A x \in Memory!Sources : snapshot[x].at <= clock' /\ snapshot[x].at \in Nat
  BY DEF MemoryRepaired, Memory!TypeOK, Memory!Saved
<1>3. \A t \in TaskIds : t # w /\ ~Memory!Scanned(t) => ~Memory!Scanned(t)'
  BY <1>2, MemoryStaysBehind
<1>4. \A x \in Memory!Sources : snapshot'[x].at <= clock'
  BY <1>1, <1>2
<1>5. \A x \in Memory!Sources : Memory!Unfinished(x)' =>
        \/ x # w /\ Memory!Unfinished(x)
        \/ x = w /\ live[w] # Memory!Absent /\ phase = "serving"
  BY <1>1
<1>6. \A t \in TaskIds : phase # "down" /\ Memory!Unfinished(t)' /\ live[t] = Memory!Absent /\ t \notin todo => ~Memory!Scanned(t)'
  BY <1>3, <1>5 DEF MemoryRepaired, Memory!Sources
<1> QED
  BY <1>4, <1>5, <1>6 DEF MemoryRepaired, Memory!Sources

LEMMA MemoryRepairedStep ==
  ASSUME AgentConstants, Memory!TypeOK, MemoryOrderly, MemoryRepaired, [Memory!Next]_(Memory!vars)
  PROVE  MemoryRepaired'
<1> DEFINE Same == \A y \in Memory!Sources : /\ Memory!Unfinished(y)' = Memory!Unfinished(y)
                                     /\ Memory!Scanned(y)' = Memory!Scanned(y)
<1>0. ASSUME UNCHANGED snapshot
      PROVE  Same
  BY <1>0 DEF Memory!Unfinished, Memory!Scanned, Memory!Newer
<1>1. ASSUME NEW x \in Memory!Sources, Memory!Begin(x) \/ Memory!Goes(x) \/ Memory!Ends(x)
      PROVE  MemoryRepaired'
  BY <1>1, MemoryBeginSaves, MemoryGoesSaves, MemoryEndsSaves, MemorySavesRepaired
<1>2. ASSUME NEW x \in Memory!Sources, Memory!Recover(x)
      PROVE  MemoryRepaired'
  <2>1. snapshot[x] \in Memory!Saved /\ clock + 1 \in Nat /\ clock <= clock + 1
    BY DEF Memory!TypeOK
  <2>2. /\ Memory!Interrupted(snapshot[x]) \in Memory!Saved
        /\ Memory!Interrupted(snapshot[x]).at = clock + 1 /\ Memory!Interrupted(snapshot[x]).state = "aborted"
    BY <2>1 DEF Memory!Interrupted, Memory!Saved, Memory!States, Memory!Terminal
  <2> DEFINE s == Memory!Interrupted(snapshot[x])
  <2>3. /\ snapshot' = [snapshot EXCEPT ![x] = s]
        /\ UNCHANGED <<live, phase, todo>> /\ clock' = clock + 1
    BY <1>2 DEF Memory!Recover
  <2>4. s \in Memory!Saved /\ s.at = clock + 1 /\ s.state = "aborted"
    BY <2>2
  <2> HIDE DEF s
  <2>5. MemoryRewritten(x, s)
    BY <2>1, <2>3, <2>4 DEF MemoryRewritten, Memory!Terminal
  <2> QED
    BY <2>4, <2>5, MemoryWritesRepaired
<1>3. CASE Memory!WriteSnapshot
  <2> DEFINE w == [state |-> live[writer.of].state, steps |-> live[writer.of].steps,
                   said |-> live[writer.of].said, at |-> clock, artifact |-> writer.artifact]
  <2>1. /\ writer.of \in Memory!Sources /\ live[writer.of].state # "absent"
        /\ live[writer.of] \in Memory!Held /\ live[writer.of] # Memory!Absent /\ phase = "serving"
    BY <1>3 DEF Memory!WriteSnapshot, Memory!Writing, MemoryOrderly, Memory!TypeOK, Memory!Absent
  <2>2. w \in Memory!Saved /\ w.at = clock /\ w.state = live[writer.of].state /\ clock \in Nat
    BY <2>1 DEF Memory!Saved, Memory!Held, Memory!TypeOK
  <2>3. snapshot' = [snapshot EXCEPT ![writer.of] = w] /\ UNCHANGED <<live, clock, phase, todo>>
    BY <1>3 DEF Memory!WriteSnapshot
  <2>4. MemoryRewritten(writer.of, w)
    BY <2>1, <2>2, <2>3 DEF MemoryRewritten
  <2> HIDE DEF w
  <2> QED
    BY <2>1, <2>2, <2>4, MemoryWritesRepaired
<1>4. CASE Memory!WriteArtifact \/ Memory!WriteLatest \/ Memory!WriteObserved \/ Memory!WriteFailure \/ Memory!WriteRaises
  <2>1. UNCHANGED <<snapshot, live, clock, phase, todo>>
    BY <1>4 DEF Memory!WriteArtifact, Memory!WriteLatest, Memory!WriteObserved, Memory!WriteFailure, Memory!WriteRaises, Memory!Learn
  <2> QED
    BY <1>0, <2>1 DEF MemoryRepaired, Memory!Sources
<1>5. CASE Memory!Die
  BY <1>0, <1>5 DEF Memory!Die, MemoryRepaired
<1>6. CASE Memory!ScanTasks
  BY <1>0, <1>6 DEF Memory!ScanTasks, MemoryRepaired, Memory!Sources
<1>7. CASE Memory!ScanRuns
  BY <1>0, <1>7 DEF Memory!ScanRuns, MemoryRepaired, Memory!Sources
<1>8. CASE Memory!RecordRecovered
  <2>1. /\ UNCHANGED <<snapshot, live, clock, phase>> /\ todo' = todo \ {writer.of}
        /\ ~Memory!Unfinished(writer.of) /\ writer.of \in todo
    BY <1>8 DEF Memory!RecordRecovered, Memory!Learn, Memory!Writing, MemoryOrderly, Memory!Unfinished, Memory!Terminal
  <2>2. phase \notin {"serving", "down"}
    BY <2>1 DEF MemoryOrderly
  <2> QED
    BY <1>0, <2>1, <2>2 DEF MemoryRepaired, Memory!Sources
<1>9. CASE Memory!Serve
  <2>1. UNCHANGED <<snapshot, live, clock, todo>> /\ phase = "runs" /\ todo = {} /\ phase' = "serving"
    BY <1>9 DEF Memory!Serve
  <2> QED
    BY <1>0, <2>1 DEF MemoryRepaired, Memory!Sources
<1>10. CASE UNCHANGED Memory!vars
  BY <1>0, <1>10 DEF Memory!vars, MemoryRepaired, Memory!Sources
<1> QED
  BY <1>1, <1>2, <1>3, <1>4, <1>5, <1>6, <1>7, <1>8, <1>9, <1>10 DEF Memory!Next

-----------------------------------------------------------------------------
LEMMA MemoryArtifactStep ==
  ASSUME AgentConstants, Memory!TypeOK, MemoryOrderly, Memory!ArtifactsAgree, MemoryArtifactKnown, [Memory!Next]_(Memory!vars)
  PROVE  Memory!ArtifactsAgree' /\ MemoryArtifactKnown'
<1>1. ASSUME UNCHANGED <<snapshot, artifacts>>, writer'.artifact = 0
      PROVE  Memory!ArtifactsAgree' /\ MemoryArtifactKnown'
  BY <1>1 DEF Memory!ArtifactsAgree, MemoryArtifactKnown
<1>2. ASSUME NEW x \in Memory!Sources, Memory!Begin(x) \/ Memory!Goes(x) \/ Memory!Ends(x)
      PROVE  Memory!ArtifactsAgree' /\ MemoryArtifactKnown'
  <2>1. PICK h \in Memory!Held : Memory!Save(x, h)
    BY <1>2, MemoryBeginSaves, MemoryGoesSaves, MemoryEndsSaves
  <2> QED
    BY <1>1, <2>1 DEF Memory!Save
<1>3. ASSUME NEW x \in Memory!Sources, Memory!Recover(x)
      PROVE  Memory!ArtifactsAgree' /\ MemoryArtifactKnown'
  <2> DEFINE s == Memory!Interrupted(snapshot[x])
  <2>1. snapshot' = [snapshot EXCEPT ![x] = s] /\ writer'.artifact = 0 /\ UNCHANGED artifacts
    BY <1>3 DEF Memory!Recover
  <2>2. s.artifact = snapshot[x].artifact
    BY DEF Memory!Interrupted, Memory!TypeOK, Memory!Saved
  <2>3. Memory!Unfinished(x)
    BY <1>3 DEF Memory!Recover, MemoryOrderly, Memory!Idle
  <2>4. snapshot[x].artifact = 0
    <3>1. SUFFICES ASSUME snapshot[x].artifact # 0
                   PROVE  snapshot[x].state \in Memory!Terminal
      BY <2>3, <3>1 DEF Memory!Unfinished
    <3>2. /\ artifacts[snapshot[x].artifact].state \in Memory!Terminal
          /\ artifacts[snapshot[x].artifact] = [of |-> x, state |-> snapshot[x].state]
      BY <3>1 DEF Memory!ArtifactsAgree, MemoryArtifactKnown
    <3> QED
      BY <3>2
  <2> HIDE DEF s
  <2> QED
    BY <2>1, <2>2, <2>4 DEF Memory!ArtifactsAgree, MemoryArtifactKnown, Memory!TypeOK
<1>4. CASE Memory!WriteArtifact
  <2> DEFINE new == [of |-> writer.of, state |-> live[writer.of].state]
             n   == Len(artifacts) + 1
  <2>1. artifacts' = Append(artifacts, new) /\ UNCHANGED <<snapshot, live>>
    BY <1>4 DEF Memory!WriteArtifact
  <2>2. writer'.artifact = n /\ writer'.of = writer.of
    <3> DEFINE stage == IF writer.of \in RunIds THEN "named" ELSE "snapshot"
    <3>1. writer' = [writer EXCEPT !.artifact = n, !.next = stage]
      BY <1>4 DEF Memory!WriteArtifact
    <3> HIDE DEF n, stage
    <3> QED
      BY <3>1 DEF Memory!TypeOK
  <2>3. new.state \in Memory!Terminal /\ new.of = writer.of /\ new.state = live[writer.of].state
    BY <1>4 DEF Memory!WriteArtifact, Memory!Writing, MemoryOrderly
  <2>4. /\ artifacts \in Seq(Memory!Fact) /\ new \in Memory!Fact
    BY <1>4 DEF Memory!WriteArtifact, Memory!Writing, MemoryOrderly, Memory!TypeOK, Memory!Fact, Memory!Held
  <2>5. /\ DOMAIN artifacts' = DOMAIN artifacts \cup {n} /\ n \notin DOMAIN artifacts /\ n # 0
        /\ \A i \in DOMAIN artifacts : artifacts'[i] = artifacts[i]
        /\ artifacts'[n] = new
    <3> HIDE DEF new
    <3> QED
      BY <2>1, <2>4
  <2>6. artifacts'[n] = [of |-> writer.of, state |-> live[writer.of].state]
    BY <2>5
  <2> HIDE DEF new, n
  <2> QED
    BY <2>1, <2>2, <2>3, <2>5, <2>6 DEF Memory!ArtifactsAgree, MemoryArtifactKnown
<1>5. CASE Memory!WriteSnapshot
  <2> DEFINE w == [state |-> live[writer.of].state, steps |-> live[writer.of].steps,
                   said |-> live[writer.of].said, at |-> clock, artifact |-> writer.artifact]
             stage == IF Memory!Writing("named") THEN "idle" ELSE "latest"
  <2>1. /\ snapshot' = [snapshot EXCEPT ![writer.of] = w] /\ Memory!Then(stage)
        /\ UNCHANGED <<artifacts, live>>
    BY <1>5 DEF Memory!WriteSnapshot
  <2>2. w.state = live[writer.of].state /\ w.artifact = writer.artifact
    OBVIOUS
  <2>3. stage \in Memory!Stages
    BY DEF Memory!Stages
  <2> HIDE DEF w, stage
  <2>4. writer' = Memory!Idle \/ (writer'.of = writer.of /\ writer'.artifact = writer.artifact)
    BY <2>1, <2>3, MemoryThenWrites DEF Memory!TypeOK
  <2>5. Memory!ArtifactsAgree'
    BY <2>1, <2>2 DEF Memory!ArtifactsAgree, MemoryArtifactKnown, Memory!TypeOK
  <2> QED
    BY <2>1, <2>4, <2>5 DEF MemoryArtifactKnown, Memory!Idle
<1>6. CASE Memory!WriteLatest \/ Memory!WriteObserved \/ Memory!WriteFailure
  <2>1. PICK stage \in {"observed", Memory!FailureWrite(writer.of), Memory!LastWrite(writer.of)} : Memory!Then(stage)
    BY <1>6 DEF Memory!WriteLatest, Memory!WriteObserved, Memory!WriteFailure
  <2>2. stage \in Memory!Stages
    BY <2>1, MemoryNextWrites DEF Memory!Stages
  <2>3. writer' = Memory!Idle \/ (writer'.of = writer.of /\ writer'.artifact = writer.artifact)
    BY <2>1, <2>2, MemoryThenWrites DEF Memory!TypeOK
  <2>4. UNCHANGED <<snapshot, artifacts, live>>
    BY <1>6 DEF Memory!WriteLatest, Memory!WriteObserved, Memory!WriteFailure, Memory!Learn
  <2> QED
    BY <2>3, <2>4 DEF Memory!ArtifactsAgree, MemoryArtifactKnown, Memory!Idle
<1>7. CASE Memory!WriteRaises \/ Memory!Die \/ Memory!RecordRecovered
  <2>1. UNCHANGED <<snapshot, artifacts>> /\ writer' = Memory!Idle
    BY <1>7 DEF Memory!WriteRaises, Memory!Die, Memory!RecordRecovered, Memory!Learn
  <2> QED
    BY <1>1, <2>1 DEF Memory!Idle
<1>8. CASE Memory!ScanTasks \/ Memory!ScanRuns \/ Memory!Serve \/ UNCHANGED Memory!vars
  <2>1. UNCHANGED <<snapshot, artifacts, live, writer>>
    BY <1>8 DEF Memory!ScanTasks, Memory!ScanRuns, Memory!Serve, Memory!vars
  <2> QED
    BY <2>1 DEF Memory!ArtifactsAgree, MemoryArtifactKnown
<1> QED
  BY <1>2, <1>3, <1>4, <1>5, <1>6, <1>7, <1>8 DEF Memory!Next

-----------------------------------------------------------------------------
(* Whatever keeps what is known of every task and run keeps a ledger true. *)
MemoryKept ==
  \A x \in Memory!Sources : /\ MemoryFailedOnce(x) => MemoryFailedOnce(x)'
                            /\ MemoryCompleted(x) => MemoryCompleted(x)'
                            /\ MemoryStepped(x) => MemoryStepped(x)'

LEMMA MemoryLedgerStaysTold ==
  ASSUME AgentConstants, ledger' \in Memory!Ledger, MemoryTold(ledger'), MemoryKept
  PROVE  MemoryTold(ledger)'
BY DEF MemoryTold, MemoryKept, Memory!Ledger

LEMMA MemoryFileStaysTold ==
  ASSUME AgentConstants, file' \in Memory!Ledger, MemoryTold(file'), MemoryKept
  PROVE  MemoryTold(file)'
BY DEF MemoryTold, MemoryKept, Memory!Ledger

(* A save may end what had failed, and nothing else that the ledgers tell of. *)
LEMMA MemorySavesKeep ==
  ASSUME Memory!TypeOK, NEW x \in Memory!Sources, NEW h \in Memory!Held, Memory!Save(x, h), h.state # "absent",
         live[x].state # "absent" => (~live[x].ended /\ (live[x].steps => h.steps)),
         live[x].state = "absent" => (snapshot[x].state = "absent" /\ ~snapshot[x].steps),
         live[x].state = "failed" => (h.ended /\ h.state # "completed")
  PROVE  MemoryKept
<1>1. /\ UNCHANGED snapshot /\ live'[x] = h
      /\ \A y \in Memory!Sources \ {x} : live'[y] = live[y]
  BY DEF Memory!Save, Memory!TypeOK
<1> QED
  BY <1>1 DEF MemoryKept, MemoryFailedOnce, MemoryCompleted, MemoryStepped

(* What the save that is going on adds to a ledger is so. *)
LEMMA MemoryLatestTold ==
  ASSUME AgentConstants, Memory!TypeOK, MemoryOrderly, MemoryTold(ledger), Memory!Writing("latest")
  PROVE  MemoryTold(Memory!Latest(writer.of))
<1> DEFINE x == writer.of
           fact == [of |-> x, state |-> live[x].state]
<1>1. x \in Memory!Sources /\ (live[x].state = "completed" => MemoryCompleted(x))
  BY DEF Memory!Writing, MemoryOrderly, MemorySnapshotWritten, MemoryCompleted
<1>2. fact.of = x /\ fact.state = live[x].state
  OBVIOUS
<1> HIDE DEF fact
<1>3. CASE x \in TaskIds
  <2>1. Memory!Latest(x) = [ledger EXCEPT !.task = fact]
    BY <1>3 DEF Memory!Latest, fact
  <2>2. /\ Memory!Latest(x).task = fact /\ Memory!Latest(x).run = ledger.run
        /\ Memory!Latest(x).observed = ledger.observed /\ Memory!Latest(x).failures = ledger.failures
    BY <2>1 DEF Memory!TypeOK, Memory!Ledger
  <2> QED
    BY <1>1, <1>2, <2>2 DEF MemoryTold
<1>4. CASE x \notin TaskIds
  <2>1. Memory!Latest(x) = [ledger EXCEPT !.run = fact]
    BY <1>4 DEF Memory!Latest, fact
  <2>2. /\ Memory!Latest(x).run = fact /\ Memory!Latest(x).task = ledger.task
        /\ Memory!Latest(x).observed = ledger.observed /\ Memory!Latest(x).failures = ledger.failures
    BY <2>1 DEF Memory!TypeOK, Memory!Ledger
  <2> QED
    BY <1>1, <1>2, <2>2 DEF MemoryTold
<1> QED
  BY <1>3, <1>4

LEMMA MemoryObservedTold ==
  ASSUME AgentConstants, Memory!TypeOK, MemoryOrderly, MemoryTold(ledger), Memory!Writing("observed")
  PROVE  MemoryTold([ledger EXCEPT !.observed = writer.of])
<1> DEFINE new == [ledger EXCEPT !.observed = writer.of]
<1>1. MemoryStepped(writer.of)
  BY DEF Memory!Writing, MemoryOrderly, MemorySnapshotWritten, MemoryStepped
<1>2. /\ new.observed = writer.of /\ new.run = ledger.run
      /\ new.task = ledger.task /\ new.failures = ledger.failures
  BY DEF Memory!TypeOK, Memory!Ledger
<1>3. MemoryTold(new)
  <2> HIDE DEF new
  <2> QED
    BY <1>1, <1>2 DEF MemoryTold
<1> QED
  BY <1>3

LEMMA MemoryFailureTold ==
  ASSUME AgentConstants, Memory!TypeOK, MemoryTold(ledger), NEW x \in Memory!Sources, NEW s \in Memory!States, MemoryFailedOnce(x)
  PROVE  MemoryTold(Memory!WithFailure(x, s))
<1>1. /\ Memory!WithFailure(x, s).task = ledger.task /\ Memory!WithFailure(x, s).run = ledger.run
      /\ Memory!WithFailure(x, s).observed = ledger.observed
      /\ \A i \in DOMAIN Memory!WithFailure(x, s).failures :
           \/ Memory!WithFailure(x, s).failures[i] = [of |-> x, state |-> s]
           \/ \E j \in DOMAIN ledger.failures :
                Memory!WithFailure(x, s).failures[i] = ledger.failures[j]
  BY MemoryNewFailure DEF Memory!TypeOK
<1>2. ASSUME NEW i \in DOMAIN Memory!WithFailure(x, s).failures
      PROVE  LET y == Memory!WithFailure(x, s).failures[i].of IN y \in Memory!Sources /\ MemoryFailedOnce(y)
  <2> DEFINE f == Memory!WithFailure(x, s).failures[i]
  <2>1. CASE f = [of |-> x, state |-> s]
    <3>1. f.of = x
      BY <2>1
    <3> QED
      BY <3>1
  <2>2. CASE \E j \in DOMAIN ledger.failures : f = ledger.failures[j]
    BY <2>2 DEF MemoryTold
  <2> QED
    BY <1>1, <2>1, <2>2
<1> QED
  BY <1>1, <1>2 DEF MemoryTold

LEMMA MemoryFailureIsSo ==
  ASSUME MemoryOrderly, Memory!TypeOK, Memory!Writing("failure")
  PROVE  writer.of \in Memory!Sources /\ MemoryFailedOnce(writer.of) /\ live[writer.of].state \in Memory!States
BY DEF Memory!Writing, MemoryOrderly, MemorySnapshotWritten, MemoryFailedOnce, Memory!Terminal, Memory!TypeOK, Memory!Held

LEMMA MemoryToldStep ==
  ASSUME AgentConstants, Memory!TypeOK, Memory!TypeOK', MemoryOrderly, MemoryTold(ledger), MemoryTold(file), [Memory!Next]_(Memory!vars)
  PROVE  MemoryTold(ledger)' /\ MemoryTold(file)'
<1>0. ledger' \in Memory!Ledger /\ file' \in Memory!Ledger
  BY DEF Memory!TypeOK
<1>1. SUFFICES MemoryKept /\ MemoryTold(ledger') /\ MemoryTold(file')
  BY <1>0, MemoryLedgerStaysTold, MemoryFileStaysTold
<1>2. ASSUME UNCHANGED <<live, snapshot>>
      PROVE  MemoryKept
  BY <1>2 DEF MemoryKept, MemoryFailedOnce, MemoryCompleted, MemoryStepped
<1>3. ASSUME NEW x \in Memory!Sources, Memory!Begin(x) \/ Memory!Goes(x) \/ Memory!Ends(x)
      PROVE  MemoryKept /\ UNCHANGED <<ledger, file>>
  <2>1. CASE Memory!Begin(x)
    <3>1. PICK h \in Memory!Held : /\ Memory!Save(x, h) /\ h.state = "running" /\ ~h.ended
                                   /\ live[x].state = "absent" /\ snapshot[x].state = "absent"
      BY <2>1, MemoryBeginSaves
    <3>2. ~snapshot[x].steps
      BY <3>1 DEF MemoryOrderly
    <3> QED
      BY <3>1, <3>2, MemorySavesKeep DEF Memory!Save
  <2>2. CASE Memory!Goes(x)
    <3>1. PICK h \in Memory!Held : /\ Memory!Save(x, h) /\ h.state \in {"running", "paused", "failed"} /\ ~h.ended
                                   /\ live[x].state \in {"running", "paused"} /\ ~live[x].ended
                                   /\ live[x].steps => h.steps
      BY <2>2, MemoryGoesSaves
    <3>2. MemoryKept
      BY <3>1, MemorySavesKeep
    <3> QED
      BY <3>1, <3>2 DEF Memory!Save
  <2>3. CASE Memory!Ends(x)
    <3>1. PICK h \in Memory!Held : /\ Memory!Save(x, h) /\ h.state # "absent" /\ h.ended
                                   /\ live[x].state # "absent" /\ ~live[x].ended
                                   /\ live[x].state = "failed" => h.state # "completed"
                                   /\ h.steps = live[x].steps
      BY <2>3, MemoryEndsSaves
    <3>2. MemoryKept
      BY <3>1, MemorySavesKeep
    <3> QED
      BY <3>1, <3>2 DEF Memory!Save
  <2> QED
    BY <1>3, <2>1, <2>2, <2>3
<1>4. ASSUME NEW x \in Memory!Sources, Memory!Recover(x)
      PROVE  MemoryKept /\ UNCHANGED <<ledger, file>>
  <2> DEFINE s == Memory!Interrupted(snapshot[x])
  <2>1. snapshot' = [snapshot EXCEPT ![x] = s] /\ UNCHANGED <<live, ledger, file>>
    BY <1>4 DEF Memory!Recover
  <2>2. s.state = "aborted" /\ s.steps = snapshot[x].steps
    BY DEF Memory!Interrupted, Memory!TypeOK, Memory!Saved
  <2>3. Memory!Unfinished(x)
    BY <1>4 DEF Memory!Recover, MemoryOrderly, Memory!Idle
  <2> HIDE DEF s
  <2> QED
    BY <2>1, <2>2, <2>3 DEF MemoryKept, MemoryFailedOnce, MemoryCompleted, MemoryStepped, Memory!Unfinished, Memory!Terminal, Memory!TypeOK
<1>5. CASE Memory!WriteSnapshot
  <2> DEFINE w == [state |-> live[writer.of].state, steps |-> live[writer.of].steps,
                   said |-> live[writer.of].said, at |-> clock, artifact |-> writer.artifact]
  <2>1. writer.of \in Memory!Sources /\ live[writer.of].state # "absent"
    BY <1>5 DEF Memory!WriteSnapshot, Memory!Writing, MemoryOrderly
  <2>2. w.state = live[writer.of].state /\ w.steps = live[writer.of].steps
    OBVIOUS
  <2>3. snapshot' = [snapshot EXCEPT ![writer.of] = w] /\ UNCHANGED <<live, ledger, file>>
    BY <1>5 DEF Memory!WriteSnapshot
  <2> HIDE DEF w
  <2> QED
    BY <2>1, <2>2, <2>3 DEF MemoryKept, MemoryFailedOnce, MemoryCompleted, MemoryStepped, Memory!TypeOK
<1>6. CASE Memory!WriteLatest
  BY <1>2, <1>6, MemoryLatestTold DEF Memory!WriteLatest, Memory!Learn
<1>7. CASE Memory!WriteObserved
  BY <1>2, <1>7, MemoryObservedTold DEF Memory!WriteObserved, Memory!Learn
<1>8. CASE Memory!WriteFailure
  BY <1>2, <1>8, MemoryFailureTold, MemoryFailureIsSo DEF Memory!WriteFailure, Memory!Learn
<1>9. CASE Memory!WriteRaises
  <2>1. UNCHANGED <<live, snapshot, file>>
    BY <1>9 DEF Memory!WriteRaises
  <2>2. CASE Memory!Writing("latest")
    <3>1. ledger' = Memory!Latest(writer.of)
      BY <1>9, <2>2 DEF Memory!WriteRaises, Memory!Writing
    <3> QED
      BY <1>2, <2>1, <2>2, <3>1, MemoryLatestTold
  <2>3. CASE Memory!Writing("observed")
    <3>1. ledger' = [ledger EXCEPT !.observed = writer.of]
      BY <1>9, <2>3 DEF Memory!WriteRaises, Memory!Writing
    <3> QED
      BY <1>2, <2>1, <2>3, <3>1, MemoryObservedTold
  <2>4. CASE Memory!Writing("failure")
    <3>1. ledger' = Memory!WithFailure(writer.of, live[writer.of].state)
      BY <1>9, <2>4 DEF Memory!WriteRaises, Memory!Writing
    <3> QED
      BY <1>2, <2>1, <2>4, <3>1, MemoryFailureTold, MemoryFailureIsSo
  <2>5. CASE ~Memory!Writing("latest") /\ ~Memory!Writing("observed") /\ ~Memory!Writing("failure")
    BY <1>2, <1>9, <2>1, <2>5 DEF Memory!WriteRaises
  <2> QED
    BY <2>2, <2>3, <2>4, <2>5
<1>10. CASE Memory!Die
  <2>1. UNCHANGED <<snapshot, file>> /\ ledger' = file /\ live' = [x \in Memory!Sources |-> Memory!Absent]
    BY <1>10 DEF Memory!Die
  <2>2. MemoryKept
    BY <2>1 DEF MemoryKept, MemoryFailedOnce, MemoryCompleted, MemoryStepped, Memory!Absent
  <2> QED
    BY <2>1, <2>2
<1>11. CASE Memory!RecordRecovered
  <2>1. writer.of \in Memory!Sources /\ MemoryFailedOnce(writer.of) /\ "aborted" \in Memory!States
    BY <1>11 DEF Memory!RecordRecovered, Memory!Writing, MemoryOrderly, MemoryFailedOnce, Memory!States, Memory!Terminal, Memory!Absent, Memory!TypeOK
  <2> QED
    BY <1>2, <1>11, <2>1, MemoryFailureTold DEF Memory!RecordRecovered, Memory!Learn
<1>12. CASE Memory!WriteArtifact \/ Memory!ScanTasks \/ Memory!ScanRuns \/ Memory!Serve \/ UNCHANGED Memory!vars
  BY <1>2, <1>12 DEF Memory!WriteArtifact, Memory!ScanTasks, Memory!ScanRuns, Memory!Serve, Memory!vars
<1> QED
  BY <1>3, <1>4, <1>5, <1>6, <1>7, <1>8, <1>9, <1>10, <1>11, <1>12 DEF Memory!Next

-----------------------------------------------------------------------------
LEMMA MemoryInvInit == ASSUME AgentConstants PROVE Memory!Init => MemoryInv
<1> SUFFICES ASSUME Memory!Init PROVE MemoryInv
  OBVIOUS
<1>1. Memory!Idle \in [of : Memory!Sources \cup {NoId}, next : Memory!Stages, artifact : Nat] /\ Memory!Idle.next = "idle" /\ Memory!Idle.artifact = 0
  BY DEF Memory!Idle, Memory!Stages
<1>2. /\ Memory!Empty \in Memory!Ledger /\ Memory!Empty.failures = <<>> /\ Memory!Empty.task.state = "absent"
      /\ Memory!Empty.run.state = "absent" /\ Memory!Empty.observed = NoId
  BY DEF Memory!Empty, Memory!NoFact, Memory!Ledger, Memory!Fact, Memory!States
<1>3. \A x \in Memory!Sources : snapshot[x] = [state |-> "absent", steps |-> FALSE, said |-> FALSE, at |-> 0, artifact |-> 0]
  BY DEF Memory!Init
<1>4. Memory!TypeOK
  BY <1>1, <1>2, MemoryAbsentIsHeld DEF Memory!Init, Memory!TypeOK, Memory!Saved, Memory!States
<1>5. MemoryOrderly
  BY <1>1, <1>3 DEF Memory!Init, MemoryOrderly, Memory!Absent, MemorySnapshotWritten
<1>6. MemoryRepaired /\ Memory!ArtifactsAgree /\ MemoryArtifactKnown
  BY <1>1, <1>3 DEF Memory!Init, MemoryRepaired, Memory!ArtifactsAgree, MemoryArtifactKnown
<1>7. MemoryTold(ledger) /\ MemoryTold(file)
  BY <1>2 DEF Memory!Init, MemoryTold
<1> QED
  BY <1>4, <1>5, <1>6, <1>7 DEF MemoryInv

LEMMA MemoryInvStep == ASSUME AgentConstants PROVE MemoryInv /\ [Memory!Next]_(Memory!vars) => MemoryInv'
<1> SUFFICES ASSUME MemoryInv, [Memory!Next]_(Memory!vars) PROVE MemoryInv'
  OBVIOUS
<1>1. Memory!TypeOK' /\ MemoryOrderly'
  <2>1. ASSUME NEW x \in Memory!Sources, Memory!Begin(x) \/ Memory!Goes(x) \/ Memory!Ends(x)
        PROVE  Memory!TypeOK' /\ MemoryOrderly'
    <3>1. PICK h \in Memory!Held : /\ Memory!Save(x, h) /\ h.state # "absent"
                                   /\ h.state \in {"completed", "aborted"} => h.ended
      BY <2>1, MemoryBeginSaves, MemoryGoesSaves, MemoryEndsSaves DEF MemoryInv
    <3>2. Memory!TypeOK /\ MemoryOrderly
      BY DEF MemoryInv
    <3> QED
      BY <3>1, <3>2, MemorySaveChanges
  <2>2. CASE UNCHANGED Memory!vars
    BY <2>2 DEF MemoryInv, Memory!vars, Memory!TypeOK, MemoryOrderly, MemorySnapshotWritten, Memory!Unfinished
  <2> QED
    BY <2>1, <2>2, MemoryWriteChanges, MemoryRepairChanges DEF Memory!Next, MemoryInv
<1> QED
  BY <1>1, MemoryRepairedStep, MemoryArtifactStep, MemoryToldStep DEF MemoryInv

LEMMA MemoryInvSound == ASSUME AgentConstants, MemoryInv PROVE Memory!NoStaleRecord /\ Memory!ArtifactsAgree /\ Memory!FactsAgree
<1>1. Memory!NoStaleRecord
  BY DEF MemoryInv, MemoryOrderly, MemoryRepaired, Memory!NoStaleRecord, Memory!Sources
<1>2. Memory!FactsAgree
  BY DEF MemoryInv, MemoryTold, MemoryFailedOnce, MemoryCompleted, MemoryStepped, Memory!FactsAgree
<1> QED
  BY <1>1, <1>2 DEF MemoryInv

LEMMA MemoryMoves == [Next]_vars => [Memory!Next]_(Memory!vars)
BY DEF Next, vars, memoryVars, Memory!vars

(* run_memory.py, fact_store.py, artifact_store.py: wherever a save or a      *)
(* repair is cut off and whichever writes raise, for any number of tasks, runs *)
(* and restarts, a serving agent shows nothing of an earlier process as going *)
(* on that the repair looked at, an artifact is of the task that names it as   *)
(* it ended, and the facts tell nothing that the snapshots do not.            *)
THEOREM MemoryHolds == Spec => []MemoryIsSound
<1>1. Init => MemoryInv
  BY MemoryInvInit, AgentConstants DEF Init
<1>2. MemoryInv /\ [Next]_vars => MemoryInv'
  BY MemoryInvStep, MemoryMoves, AgentConstants
<1>3. MemoryInv => MemoryIsSound
  BY MemoryInvSound, AgentConstants DEF MemoryIsSound
<1> QED
  BY <1>1, <1>2, <1>3, PTL DEF Spec

-----------------------------------------------------------------------------
(* The workload panel: workloads.py.                                          *)

PanelRan  == [state : {"up", "dying", "gone"}, password : Requests \cup {Panel!Nobody}]
PanelMade == [kind : DOMAIN Panel!Program \cup {"none"}, at : 1 .. 9, sent : BOOLEAN, exit : BOOLEAN, ok : BOOLEAN,
         secret : Requests \cup {Panel!Nobody}]

(* Counting within the component is counting. *)
LEMMA PanelCounts ==
  ASSUME NEW S
  PROVE  Panel!Cardinality(S) = Cardinality(S)
BY DEF Panel!Cardinality, Cardinality, Panel!IsFiniteSet, IsFiniteSet

LEMMA PanelNobodyAsks == ASSUME AgentConstants PROVE Panel!Nobody \notin Requests
BY DEF AgentConstants, Panel!Nobody

PanelActs == {"create", "write", "stop", "start", "exec"}

PanelTyped ==
  /\ server \in Seq(PanelRan) /\ Len(server) <= MaxServers /\ pid \in 0 .. Len(server)
  /\ password \in Requests \cup {Panel!Nobody} /\ post \in [Requests -> PanelMade]
  /\ named \in BOOLEAN /\ recorded \in BOOLEAN /\ excused \in BOOLEAN
  /\ \A r \in Requests : post[r].sent => Panel!Step(r) \in PanelActs

(* Who is about to start a server has stopped the one there was. *)
PanelCleared(r) ==
  \/ Panel!Step(r) = "stop" /\ post[r].sent /\ post[r].exit
  \/ Panel!Step(r) = "start" /\ ~post[r].sent /\ post[r].kind # "start"

(* Who has started one, or would have been told that it could not be.         *)
PanelRestarted(r) ==
  \/ post[r].at > 5
  \/ Panel!Step(r) = "start" /\ post[r].sent /\ post[r].exit

(* The password of the file is of the one setup that wrote it last. *)
PanelWriters ==
  /\ ~recorded => pid = 0
  /\ password # Panel!Nobody => post[password].kind = "setup"

(* While one request at a time controls the workload, there is one server, it *)
(* is the one server.pid names, and no request that has cleared the way finds *)
(* another; a setup that went well has its password in it.                    *)
PanelOneAtATime ==
  ~excused =>
    /\ \A r, q \in Panel!UnderWay(Panel!Controls) : r = q
    /\ \A s, t \in Panel!Up : s = t
    /\ recorded => Panel!Up \subseteq {pid}
    /\ \A r \in Requests : PanelCleared(r) => Panel!Up = {}
    /\ \A r \in Requests : password = r /\ post[r].ok /\ PanelRestarted(r) =>
         \A s \in Panel!Up : server[s].password = r

PanelInv == PanelTyped /\ PanelWriters /\ PanelOneAtATime

-----------------------------------------------------------------------------
(* The programs, step by step. *)
PanelStepAt(k, i) == IF k = "none" \/ i > Len(Panel!Program[k]) THEN "none" ELSE Panel!Program[k][i]

LEMMA PanelPrograms ==
  ASSUME NEW k \in DOMAIN Panel!Program, NEW i \in Nat \ {0}
  PROVE  /\ Len(Panel!Program[k]) \in 3 .. 8
         /\ PanelStepAt(k, i) = "none" <=> i > Len(Panel!Program[k])
         /\ PanelStepAt(k, i) = "write" => k = "setup" /\ i = 2
         /\ PanelStepAt(k, i) = "stop" <=> <<k, i>> \in {<<"stop", 2>>, <<"restart", 2>>, <<"setup", 4>>}
         /\ PanelStepAt(k, i) = "start" <=> <<k, i>> \in {<<"start", 2>>, <<"restart", 3>>, <<"setup", 5>>}
         /\ PanelStepAt(k, i) = "create" => k = "create" /\ i = 2
         /\ PanelStepAt(k, i) = "exec" => k = "exec" /\ i = 4
<1> DEFINE P == Panel!Program[k]
<1>1. DOMAIN Panel!Program = {"look", "create", "start", "stop", "restart", "setup", "exec"}
  BY DEF Panel!Program
<1>2. CASE k = "look"
  <2>1. P = <<"find", "look", "find">> /\ Len(P) = 3
    BY <1>2 DEF Panel!Program
  <2> HIDE DEF P
  <2>2. i > 3 \/ i = 1 \/ i = 2 \/ i = 3
    OBVIOUS
  <2> QED
    BY <1>2, <2>1, <2>2 DEF PanelStepAt, P
<1>3. CASE k = "create"
  <2>1. P = <<"find", "create", "find">> /\ Len(P) = 3
    BY <1>3 DEF Panel!Program
  <2> HIDE DEF P
  <2>2. i > 3 \/ i = 1 \/ i = 2 \/ i = 3
    OBVIOUS
  <2> QED
    BY <1>3, <2>1, <2>2 DEF PanelStepAt, P
<1>4. CASE k = "start"
  <2>1. P = <<"find", "start", "verify", "find">> /\ Len(P) = 4
    BY <1>4 DEF Panel!Program
  <2> HIDE DEF P
  <2>2. i > 4 \/ i = 1 \/ i = 2 \/ i = 3 \/ i = 4
    OBVIOUS
  <2> QED
    BY <1>4, <2>1, <2>2 DEF PanelStepAt, P
<1>5. CASE k = "stop"
  <2>1. P = <<"find", "stop", "verify", "find">> /\ Len(P) = 4
    BY <1>5 DEF Panel!Program
  <2> HIDE DEF P
  <2>2. i > 4 \/ i = 1 \/ i = 2 \/ i = 3 \/ i = 4
    OBVIOUS
  <2> QED
    BY <1>5, <2>1, <2>2 DEF PanelStepAt, P
<1>6. CASE k = "restart"
  <2>1. P = <<"find", "stop", "start", "verify", "find">> /\ Len(P) = 5
    BY <1>6 DEF Panel!Program
  <2> HIDE DEF P
  <2>2. i > 5 \/ i = 1 \/ i = 2 \/ i = 3 \/ i = 4 \/ i = 5
    OBVIOUS
  <2> QED
    BY <1>6, <2>1, <2>2 DEF PanelStepAt, P
<1>7. CASE k = "setup"
  <2>1. P = <<"find", "write", "find", "stop", "start", "verify", "find", "find">> /\ Len(P) = 8
    BY <1>7 DEF Panel!Program
  <2> HIDE DEF P
  <2>2. i > 8 \/ i = 1 \/ i = 2 \/ i = 3 \/ i = 4 \/ i = 5 \/ i = 6 \/ i = 7 \/ i = 8
    OBVIOUS
  <2> QED
    BY <1>7, <2>1, <2>2 DEF PanelStepAt, P
<1>8. CASE k = "exec"
  <2>1. P = <<"find", "probe", "secret", "exec", "find">> /\ Len(P) = 5
    BY <1>8 DEF Panel!Program
  <2> HIDE DEF P
  <2>2. i > 5 \/ i = 1 \/ i = 2 \/ i = 3 \/ i = 4 \/ i = 5
    OBVIOUS
  <2> QED
    BY <1>8, <2>1, <2>2 DEF PanelStepAt, P
<1> QED
  BY <1>1, <1>2, <1>3, <1>4, <1>5, <1>6, <1>7, <1>8

LEMMA PanelPositions ==
  ASSUME NEW k \in DOMAIN Panel!Program \cup {"none"}, NEW i \in Nat \ {0}
  PROVE  /\ (IF k = "none" THEN {} ELSE i .. Len(Panel!Program[k])) = {} <=> PanelStepAt(k, i) = "none"
         /\ PanelStepAt(k, i) = IF (IF k = "none" THEN {} ELSE i .. Len(Panel!Program[k])) = {} THEN "none"
                           ELSE Panel!Program[k][i]
<1>1. CASE k = "none"
  BY <1>1 DEF PanelStepAt
<1>2. CASE k # "none"
  <2>1. k \in DOMAIN Panel!Program
    BY <1>2
  <2>2. /\ Len(Panel!Program[k]) \in 3 .. 8 /\ (PanelStepAt(k, i) = "none" <=> i > Len(Panel!Program[k]))
    BY <2>1, PanelPrograms
  <2>3. i .. Len(Panel!Program[k]) = {} <=> i > Len(Panel!Program[k])
    <3> DEFINE l == Len(Panel!Program[k])
    <3>1. l \in Nat
      BY <2>2
    <3> HIDE DEF l
    <3>2. i .. l = {} <=> i > l
      <4>1. i <= l => i \in i .. l
        BY <3>1
      <4>2. i > l => i .. l = {}
        BY <3>1
      <4> QED
        BY <3>1, <4>1, <4>2
    <3> QED
      BY <3>2 DEF l
  <2> QED
    BY <1>2, <2>2, <2>3 DEF PanelStepAt
<1> QED
  BY <1>1, <1>2

(* A request moves on from where it is; the others are as they were. *)
LEMMA PanelOneRequest ==
  ASSUME post \in [Requests -> PanelMade], NEW r \in Requests, NEW g \in PanelMade,
         post' = [post EXCEPT ![r] = g]
  PROVE  /\ post' \in [Requests -> PanelMade] /\ post'[r] = g
         /\ Panel!Step(r) = PanelStepAt(post[r].kind, post[r].at)
         /\ Panel!Left(r) = {} <=> Panel!Step(r) = "none"
         /\ Panel!Step(r)' = PanelStepAt(g.kind, g.at)
         /\ r \in Panel!UnderWay(Panel!Controls)' <=> g.kind \in Panel!Controls /\ Panel!Step(r)' # "none"
         /\ r \in Panel!UnderWay(Panel!Controls) <=> post[r].kind \in Panel!Controls /\ Panel!Step(r) # "none"
         /\ \A q \in Requests \ {r} :
              /\ post'[q] = post[q] /\ Panel!Step(q)' = Panel!Step(q)
              /\ PanelCleared(q)' <=> PanelCleared(q)
              /\ PanelRestarted(q)' <=> PanelRestarted(q)
              /\ q \in Panel!UnderWay(Panel!Controls)' <=> q \in Panel!UnderWay(Panel!Controls)
<1>1. /\ post' \in [Requests -> PanelMade] /\ post'[r] = g
      /\ \A q \in Requests \ {r} : post'[q] = post[q]
  OBVIOUS
<1>2. post[r] \in PanelMade
  OBVIOUS
<1>3. /\ g.kind \in DOMAIN Panel!Program \cup {"none"} /\ g.at \in Nat \ {0}
      /\ post[r].kind \in DOMAIN Panel!Program \cup {"none"} /\ post[r].at \in Nat \ {0}
  BY <1>2 DEF PanelMade
<1>4. Panel!Step(r) = PanelStepAt(post[r].kind, post[r].at) /\ (Panel!Left(r) = {} <=> Panel!Step(r) = "none")
  BY <1>3, PanelPositions DEF Panel!Step, Panel!Left
<1>5. Panel!Step(r)' = PanelStepAt(g.kind, g.at) /\ (Panel!Left(r)' = {} <=> Panel!Step(r)' = "none")
  BY <1>1, <1>3, PanelPositions DEF Panel!Step, Panel!Left
<1>6. ASSUME NEW q \in Requests \ {r}
      PROVE  /\ post'[q] = post[q] /\ Panel!Step(q)' = Panel!Step(q) /\ Panel!Left(q)' = Panel!Left(q)
             /\ PanelCleared(q)' <=> PanelCleared(q)
             /\ PanelRestarted(q)' <=> PanelRestarted(q)
  <2>1. post'[q] = post[q]
    BY <1>1
  <2>2. Panel!Left(q)' = Panel!Left(q)
    BY <2>1 DEF Panel!Left
  <2>3. Panel!Step(q)' = Panel!Step(q)
    BY <2>1, <2>2 DEF Panel!Step
  <2> QED
    BY <2>1, <2>2, <2>3 DEF PanelCleared, PanelRestarted
<1> QED
  BY <1>1, <1>4, <1>5, <1>6 DEF Panel!UnderWay

LEMMA PanelFacts ==
  ASSUME PanelInv, NEW r \in Requests
  PROVE  /\ post \in [Requests -> PanelMade] /\ post[r] \in PanelMade
         /\ post[r].kind \in DOMAIN Panel!Program \cup {"none"} /\ post[r].at \in 1 .. 9
         /\ post[r].sent \in BOOLEAN /\ post[r].exit \in BOOLEAN /\ post[r].ok \in BOOLEAN
         /\ post[r].secret \in Requests \cup {Panel!Nobody}
         /\ password \in Requests \cup {Panel!Nobody}
BY DEF PanelInv, PanelTyped, PanelMade

(* What the step of a request says of where it is. *)
LEMMA PanelAtStep ==
  ASSUME PanelInv, NEW r \in Requests
  PROVE  LET k == post[r].kind
             i == post[r].at
         IN  /\ Panel!Step(r) = PanelStepAt(k, i) /\ (Panel!Left(r) # {} <=> Panel!Step(r) # "none")
             /\ Panel!Step(r) # "none" => k \in DOMAIN Panel!Program /\ i <= Len(Panel!Program[k]) /\ i \in 1 .. 8
             /\ Panel!Step(r) = "write" => k = "setup" /\ i = 2
             /\ Panel!Step(r) = "stop" <=> <<k, i>> \in {<<"stop", 2>>, <<"restart", 2>>, <<"setup", 4>>}
             /\ Panel!Step(r) = "start" <=> <<k, i>> \in {<<"start", 2>>, <<"restart", 3>>, <<"setup", 5>>}
             /\ k \in DOMAIN Panel!Program => Len(Panel!Program[k]) \in 3 .. 8
<1> DEFINE k == post[r].kind
           i == post[r].at
<1>1. k \in DOMAIN Panel!Program \cup {"none"} /\ i \in 1 .. 9 /\ i \in Nat \ {0}
  BY PanelFacts
<1>2. Panel!Step(r) = PanelStepAt(k, i) /\ (Panel!Left(r) # {} <=> Panel!Step(r) # "none")
  BY <1>1, PanelPositions DEF Panel!Step, Panel!Left
<1> HIDE DEF k, i
<1>3. CASE k = "none"
  <2>1. PanelStepAt(k, i) = "none" /\ k \notin {"stop", "restart", "setup", "start"}
    BY <1>3 DEF PanelStepAt
  <2>2. k \notin DOMAIN Panel!Program
    BY <1>3 DEF Panel!Program
  <2> QED
    BY <1>2, <2>1, <2>2 DEF k, i
<1>4. CASE k \in DOMAIN Panel!Program
  <2>1. /\ Len(Panel!Program[k]) \in 3 .. 8
        /\ PanelStepAt(k, i) = "none" <=> i > Len(Panel!Program[k])
        /\ PanelStepAt(k, i) = "write" => k = "setup" /\ i = 2
        /\ PanelStepAt(k, i) = "stop" <=> <<k, i>> \in {<<"stop", 2>>, <<"restart", 2>>, <<"setup", 4>>}
        /\ PanelStepAt(k, i) = "start" <=> <<k, i>> \in {<<"start", 2>>, <<"restart", 3>>, <<"setup", 5>>}
    BY <1>1, <1>4, PanelPrograms
  <2>2. PanelStepAt(k, i) # "none" => i <= Len(Panel!Program[k]) /\ i \in 1 .. 8
    <3> DEFINE l == Len(Panel!Program[k])
    <3>1. l \in 3 .. 8 /\ (PanelStepAt(k, i) = "none" <=> i > l)
      BY <2>1
    <3> HIDE DEF l
    <3>2. PanelStepAt(k, i) # "none" => i <= l /\ i \in 1 .. 8
      BY <1>1, <3>1
    <3> QED
      BY <3>2 DEF l
  <2> QED
    BY <1>2, <1>4, <2>1, <2>2 DEF k, i
<1> QED
  BY <1>1, <1>3, <1>4

-----------------------------------------------------------------------------
(* A step of one request that leaves the target alone. *)
LEMMA PanelMovesKeep ==
  ASSUME AgentConstants, PanelInv, NEW r \in Requests, NEW g \in PanelMade, post' = [post EXCEPT ![r] = g],
         UNCHANGED <<server, pid, password, named, recorded>>, excused' \in BOOLEAN, ~excused' => ~excused,
         g.kind = post[r].kind, g.at >= post[r].at,
         g.sent => Panel!Step(r)' \in PanelActs,
         ~excused' => (PanelCleared(r)' => PanelCleared(r)),
         password = r /\ g.ok /\ PanelRestarted(r)' => post[r].ok /\ PanelRestarted(r)
  PROVE  PanelInv'
<1>1. /\ post' \in [Requests -> PanelMade] /\ post'[r] = g
      /\ Panel!Step(r)' = PanelStepAt(g.kind, g.at)
      /\ r \in Panel!UnderWay(Panel!Controls)' <=> g.kind \in Panel!Controls /\ Panel!Step(r)' # "none"
      /\ r \in Panel!UnderWay(Panel!Controls) <=> post[r].kind \in Panel!Controls /\ Panel!Step(r) # "none"
      /\ \A q \in Requests \ {r} :
           /\ post'[q] = post[q] /\ Panel!Step(q)' = Panel!Step(q)
           /\ PanelCleared(q)' <=> PanelCleared(q)
           /\ PanelRestarted(q)' <=> PanelRestarted(q)
           /\ q \in Panel!UnderWay(Panel!Controls)' <=> q \in Panel!UnderWay(Panel!Controls)
  BY PanelFacts, PanelOneRequest
<1>2. Panel!UnderWay(Panel!Controls)' \subseteq Panel!UnderWay(Panel!Controls)
  <2>1. Panel!UnderWay(Panel!Controls)' \subseteq Requests
    BY DEF Panel!UnderWay
  <2>2. r \in Panel!UnderWay(Panel!Controls)' => r \in Panel!UnderWay(Panel!Controls)
    <3>1. SUFFICES ASSUME g.kind \in Panel!Controls, Panel!Step(r)' # "none" PROVE Panel!Step(r) # "none"
      BY <1>1
    <3>2. g.kind \in DOMAIN Panel!Program /\ g.at \in Nat \ {0} /\ post[r].at \in Nat \ {0}
      BY <3>1, PanelFacts DEF Panel!Controls, Panel!Program, PanelMade
    <3>3. g.at <= Len(Panel!Program[g.kind]) /\ Len(Panel!Program[g.kind]) \in Nat
      BY <1>1, <3>1, <3>2, PanelPrograms
    <3>4. ~(post[r].at > Len(Panel!Program[g.kind]))
      BY <3>2, <3>3
    <3> QED
      BY <3>2, <3>4, PanelPrograms, PanelAtStep
  <2> QED
    BY <1>1, <2>1, <2>2
<1>3. PanelTyped'
  BY <1>1 DEF PanelInv, PanelTyped
<1>4. PanelWriters'
  BY <1>1, PanelFacts, AgentConstants DEF PanelInv, PanelWriters
<1>5. Panel!Up' = Panel!Up
  BY DEF Panel!Up
<1>6. PanelOneAtATime'
  <2> SUFFICES ASSUME ~excused'
               PROVE  /\ \A q \in Requests : PanelCleared(q)' => Panel!Up' = {}
                      /\ \A q \in Requests : password' = q /\ post'[q].ok /\ PanelRestarted(q)' =>
                           \A s \in Panel!Up' : server'[s].password = q
    BY <1>2, <1>5 DEF PanelInv, PanelOneAtATime
  <2>1. ASSUME NEW q \in Requests, PanelCleared(q)' PROVE Panel!Up' = {}
    BY <1>1, <1>5, <2>1 DEF PanelInv, PanelOneAtATime
  <2>2. ASSUME NEW q \in Requests, password' = q, post'[q].ok, PanelRestarted(q)', NEW s \in Panel!Up'
        PROVE  server'[s].password = q
    <3>1. post[q].ok /\ PanelRestarted(q)
      BY <1>1, <2>2
    <3> QED
      BY <1>5, <2>2, <3>1 DEF PanelInv, PanelOneAtATime
  <2> QED
    BY <2>1, <2>2
<1> QED
  BY <1>3, <1>4, <1>6 DEF PanelInv

(* The records of a request, field by field. *)
LEMMA PanelEnded ==
  ASSUME NEW k \in DOMAIN Panel!Program, NEW i \in 1 .. 9
  PROVE  LET g == [Panel!Idle EXCEPT !.kind = k, !.ok = FALSE, !.at = i]
         IN  g \in PanelMade /\ g.kind = k /\ g.at = i /\ g.sent = FALSE /\ g.ok = FALSE
BY DEF PanelMade, Panel!Idle

LEMMA PanelSentOff ==
  ASSUME NEW old \in PanelMade, NEW exit \in BOOLEAN
  PROVE  LET g == [old EXCEPT !.sent = TRUE, !.exit = exit]
         IN  /\ g \in PanelMade /\ g.kind = old.kind /\ g.at = old.at /\ g.sent = TRUE
             /\ g.exit = exit /\ g.ok = old.ok
BY DEF PanelMade

LEMMA PanelCameBack ==
  ASSUME NEW old \in PanelMade, NEW i \in 1 .. 9, NEW ok \in BOOLEAN
  PROVE  LET g == [old EXCEPT !.sent = FALSE, !.exit = FALSE, !.ok = ok, !.at = i]
         IN  /\ g \in PanelMade /\ g.kind = old.kind /\ g.at = i /\ g.sent = FALSE
             /\ g.exit = FALSE /\ g.ok = ok
BY DEF PanelMade

(* A request that raised is at its end. *)
LEMMA PanelRaisesKeeps ==
  ASSUME AgentConstants, PanelInv, NEW r \in Requests, Panel!Raises(r)
  PROVE  PanelInv'
<1> DEFINE k == post[r].kind
           l == Len(Panel!Program[k])
           g == [Panel!Idle EXCEPT !.kind = k, !.ok = FALSE, !.at = l + 1]
<1>1. Panel!Step(r) # "none"
  BY PanelAtStep DEF Panel!Raises
<1>2. k \in DOMAIN Panel!Program /\ post[r].at <= l /\ post[r].at \in 1 .. 8 /\ l \in 3 .. 8
  BY <1>1, PanelAtStep
<1>3. post' = [post EXCEPT ![r] = g] /\ UNCHANGED <<made, server, pid, password, named, recorded, excused>>
  BY DEF Panel!Raises, Panel!target, Panel!script
<1>4. PanelStepAt(k, l + 1) = "none" /\ l + 1 \in 1 .. 9
  <2>1. l + 1 \in 1 .. 9 /\ l + 1 \in Nat \ {0} /\ l + 1 > l
    <3> HIDE DEF l
    <3> QED
      BY <1>2
  <2>2. PanelStepAt(k, l + 1) = "none" <=> l + 1 > Len(Panel!Program[k])
    <3> HIDE DEF l
    <3> QED
      BY <1>2, <2>1, PanelPrograms
  <2> QED
    BY <2>1, <2>2
<1> HIDE DEF l
<1>5. g \in PanelMade /\ g.kind = k /\ g.at = l + 1 /\ ~g.sent /\ ~g.ok /\ l + 1 >= post[r].at
  <2>1. l + 1 >= post[r].at
    BY <1>2
  <2> HIDE DEF k
  <2> QED
    BY <1>2, <1>4, <2>1, PanelEnded
<1> HIDE DEF g
<1>6. Panel!Step(r)' = "none" /\ post'[r] = g
  <2>1. Panel!Step(r)' = PanelStepAt(g.kind, g.at) /\ post'[r] = g
    BY <1>3, <1>5, PanelFacts, PanelOneRequest
  <2> QED
    BY <1>4, <1>5, <2>1
<1>7. ~PanelCleared(r)'
  BY <1>6 DEF PanelCleared
<1>8. excused' \in BOOLEAN /\ (~excused' => ~excused)
  BY <1>3 DEF PanelInv, PanelTyped
<1> QED
  BY <1>3, <1>5, <1>7, <1>8, PanelMovesKeep

LEMMA PanelReadsKeeps ==
  ASSUME AgentConstants, PanelInv, NEW r \in Requests, Panel!Reads(r)
  PROVE  PanelInv'
<1> DEFINE old == post[r]
           x == IF Panel!Step(r) = "secret" THEN password ELSE old.secret
           i == old.at + 1
           g == [old EXCEPT !.at = i, !.secret = x]
<1>1. /\ Panel!Step(r) \in {"find", "look", "verify", "probe", "secret"}
      /\ post' = [post EXCEPT ![r].at = @ + 1, ![r].secret = IF Panel!Step(r) = "secret" THEN password ELSE @]
      /\ UNCHANGED <<made, server, pid, password, named, recorded, excused>>
  BY DEF Panel!Reads, Panel!target, Panel!script
<1>2. /\ old \in PanelMade /\ old.at \in 1 .. 8 /\ x \in Requests \cup {Panel!Nobody}
      /\ old.kind \in DOMAIN Panel!Program /\ ~old.sent
  <2>1. ~old.sent
    BY <1>1, PanelFacts DEF PanelInv, PanelTyped, PanelActs
  <2> QED
    BY <1>1, <2>1, PanelFacts, PanelAtStep
<1>3. post' = [post EXCEPT ![r] = g]
  BY <1>1
<1>4. i \in 1 .. 9 /\ i >= old.at
  BY <1>2
<1> HIDE DEF x, i, old
<1>5. g \in PanelMade /\ g.kind = old.kind /\ g.at = i /\ g.sent = old.sent /\ g.ok = old.ok
  <2>1. old \in PanelMade /\ i \in 1 .. 9 /\ x \in Requests \cup {Panel!Nobody}
    BY <1>2, <1>4
  <2> QED
    BY <2>1 DEF PanelMade
<1> HIDE DEF g
<1>6. Panel!Step(r)' = PanelStepAt(old.kind, i) /\ post'[r] = g
  <2>1. Panel!Step(r)' = PanelStepAt(g.kind, g.at) /\ post'[r] = g
    BY <1>3, <1>5, PanelFacts, PanelOneRequest
  <2> QED
    BY <1>5, <2>1
<1>7. Panel!Step(r)' = "start" => <<old.kind, i>> \in {<<"start", 2>>, <<"restart", 3>>, <<"setup", 5>>}
  <2>1. i \in Nat \ {0}
    BY <1>4
  <2>2. PanelStepAt(old.kind, i) = "start" <=> <<old.kind, i>> \in {<<"start", 2>>, <<"restart", 3>>, <<"setup", 5>>}
    BY <1>2, <2>1, PanelPrograms
  <2> QED
    BY <1>6, <2>2
<1>8. ~PanelCleared(r)'
  <2> SUFFICES ASSUME Panel!Step(r)' = "start", old.kind # "start" PROVE FALSE
    BY <1>2, <1>5, <1>6 DEF PanelCleared
  <2>1. <<old.kind, old.at>> \in {<<"restart", 2>>, <<"setup", 4>>}
    BY <1>2, <1>7 DEF i
  <2>2. Panel!Step(r) = "stop"
    BY <2>1, PanelAtStep DEF old
  <2> QED
    BY <1>1, <2>2
<1>9. password = r /\ g.ok /\ PanelRestarted(r)' => post[r].ok /\ PanelRestarted(r)
  <2> SUFFICES ASSUME password = r, g.ok, PanelRestarted(r)' PROVE old.at > 5
    BY <1>5 DEF PanelRestarted, old
  <2>1. i > 5
    BY <1>2, <1>5, <1>6 DEF PanelRestarted
  <2>2. old.kind = "setup"
    BY PanelNobodyAsks DEF PanelInv, PanelWriters, old
  <2>3. old.at # 5
    BY <1>1, <2>2, PanelAtStep DEF old
  <2> QED
    BY <1>2, <2>1, <2>3 DEF i
<1>10. excused' \in BOOLEAN /\ (~excused' => ~excused)
  BY <1>1 DEF PanelInv, PanelTyped
<1>11. g.kind = post[r].kind /\ g.at >= post[r].at /\ (g.sent => Panel!Step(r)' \in PanelActs)
  BY <1>2, <1>4, <1>5 DEF old
<1> QED
  BY <1>1, <1>3, <1>5, <1>8, <1>9, <1>10, <1>11, PanelMovesKeep

(* A command that was sent and did nothing that matters here; where it was    *)
(* sent from says what it was.                                               *)
LEMMA PanelSentKeeps ==
  ASSUME AgentConstants, PanelInv, NEW r \in Requests, NEW exit \in BOOLEAN, Panel!Sent(r, exit),
         Panel!Step(r) \in PanelActs, ~(Panel!Step(r) \in {"stop", "start"} /\ exit),
         UNCHANGED <<server, pid, password, named, recorded>>, excused' \in BOOLEAN, ~excused' => ~excused
  PROVE  PanelInv'
<1> DEFINE old == post[r]
           g == [old EXCEPT !.sent = TRUE, !.exit = exit]
<1>1. post' = [post EXCEPT ![r] = g]
  BY DEF Panel!Sent
<1>2. old \in PanelMade /\ old.at \in 1 .. 9
  BY PanelFacts
<1> HIDE DEF old
<1>3. g \in PanelMade /\ g.kind = old.kind /\ g.at = old.at /\ g.sent = TRUE /\ g.exit = exit /\ g.ok = old.ok
  BY <1>2, PanelSentOff
<1> HIDE DEF g
<1>4. Panel!Step(r)' = Panel!Step(r) /\ post'[r] = g
  <2>1. Panel!Step(r)' = PanelStepAt(g.kind, g.at) /\ post'[r] = g /\ Panel!Step(r) = PanelStepAt(old.kind, old.at)
    BY <1>1, <1>3, PanelFacts, PanelOneRequest DEF old
  <2> QED
    BY <1>3, <2>1
<1>5. PanelRestarted(r)' => PanelRestarted(r)
  BY <1>3, <1>4 DEF PanelRestarted, old
<1>6. ~PanelCleared(r)'
  BY <1>3, <1>4 DEF PanelCleared
<1>7. g.kind = post[r].kind /\ g.at >= post[r].at /\ g.ok = post[r].ok
  BY <1>2, <1>3 DEF old
<1> QED
  BY <1>1, <1>3, <1>4, <1>5, <1>6, <1>7, PanelMovesKeep

LEMMA PanelReturnedKeeps ==
  ASSUME AgentConstants, PanelInv, NEW r \in Requests, Panel!Returned(r)
  PROVE  PanelInv'
<1> DEFINE old == post[r]
           failed == ~old.exit /\ Panel!Step(r) \in {"stop", "start"}
           i == IF failed /\ Panel!Step(r) = "stop" /\ old.kind # "stop" THEN old.at + 2 ELSE old.at + 1
           ok == old.ok /\ ~failed
           g == [old EXCEPT !.sent = FALSE, !.exit = FALSE, !.ok = ok, !.at = i]
<1>1. post' = [post EXCEPT ![r] = g] /\ old.sent
      /\ UNCHANGED <<made, server, pid, password, named, recorded, excused>>
  BY DEF Panel!Returned, Panel!target, Panel!script
<1>2. /\ old \in PanelMade /\ old.at \in 1 .. 8 /\ old.kind \in DOMAIN Panel!Program /\ old.exit \in BOOLEAN
      /\ old.ok \in BOOLEAN /\ Panel!Step(r) \in PanelActs
  <2>1. Panel!Step(r) \in PanelActs /\ Panel!Step(r) # "none"
    BY <1>1 DEF PanelInv, PanelTyped, PanelActs
  <2> QED
    BY <2>1, PanelFacts, PanelAtStep
<1>3. Panel!Step(r) = "stop" => <<old.kind, old.at>> \in {<<"stop", 2>>, <<"restart", 2>>, <<"setup", 4>>}
  BY PanelAtStep
<1>4. Panel!Step(r) = "start" <=> <<old.kind, old.at>> \in {<<"start", 2>>, <<"restart", 3>>, <<"setup", 5>>}
  BY PanelAtStep
<1> HIDE DEF old
<1>5. i \in 1 .. 9 /\ i > old.at /\ ok \in BOOLEAN /\ failed \in BOOLEAN
  <2>1. old.at + 2 \in 1 .. 9 \/ Panel!Step(r) # "stop"
    BY <1>2, <1>3
  <2> QED
    BY <1>2, <2>1
<1>6. g \in PanelMade /\ g.kind = old.kind /\ g.at = i /\ g.sent = FALSE /\ g.ok = ok
  <2> HIDE DEF i, ok
  <2> QED
    BY <1>2, <1>5 DEF PanelMade
<1> HIDE DEF g
<1>7. Panel!Step(r)' = PanelStepAt(old.kind, i) /\ post'[r] = g
  <2>1. Panel!Step(r)' = PanelStepAt(g.kind, g.at) /\ post'[r] = g
    BY <1>1, <1>6, PanelFacts, PanelOneRequest
  <2> QED
    BY <1>6, <2>1
<1>8. Panel!Step(r)' = "start" <=> <<old.kind, i>> \in {<<"start", 2>>, <<"restart", 3>>, <<"setup", 5>>}
  <2> HIDE DEF i
  <2>1. i \in Nat \ {0}
    BY <1>5
  <2>2. PanelStepAt(old.kind, i) = "start" <=> <<old.kind, i>> \in {<<"start", 2>>, <<"restart", 3>>, <<"setup", 5>>}
    BY <1>2, <2>1, PanelPrograms
  <2> QED
    BY <1>7, <2>2
<1>9. PanelCleared(r)' => PanelCleared(r)
  <2> SUFFICES ASSUME Panel!Step(r)' = "start", old.kind # "start" PROVE Panel!Step(r) = "stop" /\ old.exit
    BY <1>1, <1>6, <1>7 DEF PanelCleared, old
  <2>1. <<old.kind, i>> \in {<<"restart", 3>>, <<"setup", 5>>}
    BY <1>8
  <2>2. CASE i = old.at + 1
    <3>1. <<old.kind, old.at>> \in {<<"restart", 2>>, <<"setup", 4>>}
      BY <1>2, <2>1, <2>2
    <3>2. Panel!Step(r) = "stop"
      BY <3>1, PanelAtStep DEF old
    <3> QED
      BY <1>2, <2>1, <2>2, <3>1, <3>2
  <2>3. CASE i = old.at + 2 /\ Panel!Step(r) = "stop" /\ old.kind # "stop"
    <3> HIDE DEF i
    <3> QED
      BY <1>2, <1>3, <2>1, <2>3
  <2> QED
    BY <2>2, <2>3
<1>10. password = r /\ g.ok /\ PanelRestarted(r)' => post[r].ok /\ PanelRestarted(r)
  <2> SUFFICES ASSUME password = r, ok, i > 5
               PROVE  old.ok /\ (old.at > 5 \/ (Panel!Step(r) = "start" /\ old.exit))
    BY <1>1, <1>6, <1>7 DEF PanelRestarted, old
  <2>1. old.kind = "setup"
    BY PanelNobodyAsks DEF PanelInv, PanelWriters, old
  <2>2. i = old.at + 1
    OBVIOUS
  <2>3. old.at > 5 \/ old.at = 5
    BY <1>2, <2>2
  <2>4. old.at = 5 => Panel!Step(r) = "start"
    BY <1>4, <2>1
  <2> QED
    BY <1>2, <2>3, <2>4
<1>11. g.kind = post[r].kind /\ g.at >= post[r].at /\ (g.sent => Panel!Step(r)' \in PanelActs)
  <2> HIDE DEF i
  <2> QED
    BY <1>2, <1>5, <1>6 DEF old
<1>12. excused' \in BOOLEAN /\ (~excused' => ~excused)
  BY <1>1 DEF PanelInv, PanelTyped
<1> QED
  BY <1>1, <1>6, <1>9, <1>10, <1>11, <1>12, PanelMovesKeep

LEMMA PanelBeginKeeps ==
  ASSUME AgentConstants, PanelInv, NEW r \in Requests, Panel!Begin(r)
  PROVE  PanelInv'
<1>1. PICK kind \in DOMAIN Panel!Program :
        /\ post' = [post EXCEPT ![r] = [Panel!Idle EXCEPT !.kind = kind]]
        /\ excused' = (excused \/ (kind \in Panel!Controls /\ Panel!UnderWay(Panel!Controls) # {}))
  BY DEF Panel!Begin
<1>2. post[r] = Panel!Idle /\ UNCHANGED <<made, server, pid, password, named, recorded>>
  BY DEF Panel!Begin, Panel!target, Panel!script
<1> DEFINE g == [Panel!Idle EXCEPT !.kind = kind]
<1>3. g \in PanelMade /\ g.kind = kind /\ g.at = 1 /\ g.sent = FALSE
  <2>1. Panel!Idle \in PanelMade /\ Panel!Idle.at = 1 /\ Panel!Idle.sent = FALSE
    BY DEF Panel!Idle, PanelMade
  <2> QED
    BY <2>1 DEF PanelMade
<1> HIDE DEF g
<1>4. post' = [post EXCEPT ![r] = g]
  BY <1>1 DEF g
<1>5. /\ post' \in [Requests -> PanelMade] /\ post'[r] = g
      /\ Panel!Step(r)' = PanelStepAt(g.kind, g.at)
      /\ r \in Panel!UnderWay(Panel!Controls)' <=> g.kind \in Panel!Controls /\ Panel!Step(r)' # "none"
      /\ \A q \in Requests \ {r} :
           /\ post'[q] = post[q] /\ Panel!Step(q)' = Panel!Step(q)
           /\ PanelCleared(q)' <=> PanelCleared(q)
           /\ PanelRestarted(q)' <=> PanelRestarted(q)
           /\ q \in Panel!UnderWay(Panel!Controls)' <=> q \in Panel!UnderWay(Panel!Controls)
  BY <1>3, <1>4, PanelFacts, PanelOneRequest
<1>6. Panel!Step(r)' \notin {"stop", "start"}
  BY <1>3, <1>5, PanelPrograms
<1>7. ~PanelCleared(r)' /\ ~PanelRestarted(r)'
  BY <1>3, <1>5, <1>6 DEF PanelCleared, PanelRestarted
<1>8. PanelTyped'
  BY <1>1, <1>2, <1>3, <1>5 DEF PanelInv, PanelTyped
<1>9. password # r
  BY <1>2, PanelNobodyAsks DEF PanelInv, PanelWriters, Panel!Idle
<1>10. PanelWriters'
  BY <1>2, <1>5, <1>9, PanelFacts DEF PanelInv, PanelWriters
<1>11. Panel!Up' = Panel!Up
  BY <1>2 DEF Panel!Up
<1>12. PanelOneAtATime'
  <2> SUFFICES ASSUME ~excused' PROVE PanelOneAtATime'
    BY DEF PanelOneAtATime
  <2>1. ~excused /\ (kind \in Panel!Controls => Panel!UnderWay(Panel!Controls) = {})
    BY <1>1
  <2>2. \A o, q \in Panel!UnderWay(Panel!Controls)' : o = q
    <3>1. Panel!UnderWay(Panel!Controls)' \subseteq Requests
      BY DEF Panel!UnderWay
    <3>2. CASE kind \in Panel!Controls
      BY <1>5, <2>1, <3>1, <3>2
    <3>3. CASE kind \notin Panel!Controls
      BY <1>3, <1>5, <2>1, <3>1, <3>3 DEF PanelInv, PanelOneAtATime
    <3> QED
      BY <3>2, <3>3
  <2>3. \A q \in Requests : PanelCleared(q)' => Panel!Up' = {}
    BY <1>5, <1>7, <1>11, <2>1 DEF PanelInv, PanelOneAtATime
  <2>4. ASSUME NEW q \in Requests, password' = q, post'[q].ok, PanelRestarted(q)', NEW s \in Panel!Up'
        PROVE  server'[s].password = q
    <3>1. q # r /\ post[q].ok /\ PanelRestarted(q)
      BY <1>5, <1>7, <2>4
    <3> QED
      BY <1>2, <1>11, <2>1, <2>4, <3>1 DEF PanelInv, PanelOneAtATime
  <2> QED
    BY <1>2, <1>11, <2>1, <2>2, <2>3, <2>4 DEF PanelInv, PanelOneAtATime
<1> QED
  BY <1>8, <1>10, <1>12 DEF PanelInv

(* A request whose command was sent is where it was. *)
LEMMA PanelSentOut ==
  ASSUME PanelInv, NEW r \in Requests, NEW exit \in BOOLEAN, Panel!Sent(r, exit)
  PROVE  /\ post' \in [Requests -> PanelMade] /\ Panel!Step(r)' = Panel!Step(r)
         /\ post'[r].kind = post[r].kind /\ post'[r].at = post[r].at
         /\ post'[r].sent = TRUE /\ post'[r].exit = exit /\ post'[r].ok = post[r].ok
         /\ Panel!UnderWay(Panel!Controls)' = Panel!UnderWay(Panel!Controls)
         /\ \A q \in Requests \ {r} :
              /\ post'[q] = post[q] /\ Panel!Step(q)' = Panel!Step(q)
              /\ PanelCleared(q)' <=> PanelCleared(q)
              /\ PanelRestarted(q)' <=> PanelRestarted(q)
<1> DEFINE old == post[r]
           g == [old EXCEPT !.sent = TRUE, !.exit = exit]
<1>1. post' = [post EXCEPT ![r] = g]
  BY DEF Panel!Sent
<1>2. old \in PanelMade
  BY PanelFacts
<1> HIDE DEF old
<1>3. g \in PanelMade /\ g.kind = old.kind /\ g.at = old.at /\ g.sent = TRUE /\ g.exit = exit /\ g.ok = old.ok
  BY <1>2, PanelSentOff
<1> HIDE DEF g
<1>4. /\ post' \in [Requests -> PanelMade] /\ post'[r] = g
      /\ Panel!Step(r) = PanelStepAt(old.kind, old.at) /\ Panel!Step(r)' = PanelStepAt(g.kind, g.at)
      /\ r \in Panel!UnderWay(Panel!Controls)' <=> g.kind \in Panel!Controls /\ Panel!Step(r)' # "none"
      /\ r \in Panel!UnderWay(Panel!Controls) <=> old.kind \in Panel!Controls /\ Panel!Step(r) # "none"
      /\ \A q \in Requests \ {r} :
           /\ post'[q] = post[q] /\ Panel!Step(q)' = Panel!Step(q)
           /\ PanelCleared(q)' <=> PanelCleared(q)
           /\ PanelRestarted(q)' <=> PanelRestarted(q)
           /\ q \in Panel!UnderWay(Panel!Controls)' <=> q \in Panel!UnderWay(Panel!Controls)
  BY <1>1, <1>3, PanelFacts, PanelOneRequest DEF old
<1>5. Panel!Step(r)' = Panel!Step(r)
  BY <1>3, <1>4
<1>6. Panel!UnderWay(Panel!Controls)' = Panel!UnderWay(Panel!Controls)
  <2>1. Panel!UnderWay(Panel!Controls)' \subseteq Requests /\ Panel!UnderWay(Panel!Controls) \subseteq Requests
    BY DEF Panel!UnderWay
  <2> QED
    BY <1>3, <1>4, <1>5, <2>1
<1> QED
  BY <1>3, <1>4, <1>5, <1>6 DEF old

(* The file gets the password of a setup that has its restart before it. *)
LEMMA PanelWriteKeeps ==
  ASSUME AgentConstants, PanelInv, NEW r \in Requests, Panel!WriteArrives(r)
  PROVE  PanelInv'
<1>1. PICK exit \in BOOLEAN : password' = (IF exit THEN r ELSE password) /\ Panel!Sent(r, exit)
  BY DEF Panel!WriteArrives
<1>2. /\ Panel!Step(r) = "write" /\ UNCHANGED <<server, pid, named, recorded, excused>>
  BY DEF Panel!WriteArrives, Panel!script
<1>3. post[r].kind = "setup" /\ post[r].at = 2
  BY <1>2, PanelAtStep
<1>4. /\ post' \in [Requests -> PanelMade] /\ Panel!Step(r)' = Panel!Step(r)
      /\ post'[r].kind = post[r].kind /\ post'[r].at = post[r].at
      /\ Panel!UnderWay(Panel!Controls)' = Panel!UnderWay(Panel!Controls)
      /\ \A q \in Requests \ {r} :
           /\ post'[q] = post[q] /\ Panel!Step(q)' = Panel!Step(q)
           /\ PanelCleared(q)' <=> PanelCleared(q)
           /\ PanelRestarted(q)' <=> PanelRestarted(q)
  BY <1>1, PanelSentOut
<1>5. ~PanelCleared(r)' /\ ~PanelRestarted(r)'
  BY <1>2, <1>3, <1>4 DEF PanelCleared, PanelRestarted
<1>6. PanelTyped'
  BY <1>1, <1>2, <1>4, PanelFacts DEF PanelInv, PanelTyped, PanelActs
<1>7. PanelWriters'
  BY <1>1, <1>2, <1>3, <1>4, PanelFacts DEF PanelInv, PanelWriters
<1>8. Panel!Up' = Panel!Up
  BY <1>2 DEF Panel!Up
<1>9. PanelOneAtATime'
  <2> SUFFICES ASSUME ~excused' PROVE PanelOneAtATime'
    BY DEF PanelOneAtATime
  <2>1. \A q \in Requests : PanelCleared(q)' => Panel!Up' = {}
    BY <1>2, <1>4, <1>5, <1>8 DEF PanelInv, PanelOneAtATime
  <2>2. ASSUME NEW q \in Requests, password' = q, post'[q].ok, PanelRestarted(q)', NEW s \in Panel!Up'
        PROVE  server'[s].password = q
    <3>1. q # r
      BY <1>5, <2>2
    <3>2. password = q /\ post[q].ok /\ PanelRestarted(q)
      BY <1>1, <1>4, <2>2, <3>1
    <3> QED
      BY <1>2, <1>8, <2>2, <3>2 DEF PanelInv, PanelOneAtATime
  <2> QED
    BY <1>2, <1>4, <1>8, <2>1, <2>2 DEF PanelInv, PanelOneAtATime
<1> QED
  BY <1>6, <1>7, <1>9 DEF PanelInv

-----------------------------------------------------------------------------
LEMMA PanelServerFacts ==
  ASSUME PanelInv
  PROVE  /\ server \in Seq(PanelRan) /\ Len(server) \in Nat /\ DOMAIN server = 1 .. Len(server)
         /\ server \in [1 .. Len(server) -> PanelRan] /\ Panel!Up \subseteq 1 .. Len(server)
         /\ pid \in 0 .. Len(server)
BY LenProperties DEF PanelInv, PanelTyped, Panel!Up

(* Servers that end, and none that comes up. *)
PanelDying(f, D) == [s \in DOMAIN f |-> IF s \in D THEN [f[s] EXCEPT !.state = "dying"] ELSE f[s]]

LEMMA PanelDyingFacts ==
  ASSUME NEW I, NEW f \in [I -> PanelRan], NEW D
  PROVE  /\ PanelDying(f, D) \in [I -> PanelRan]
         /\ \A s \in I : PanelDying(f, D)[s].state = "up" => f[s].state = "up"
         /\ \A s \in I : PanelDying(f, D)[s].password = f[s].password
  BY DEF PanelDying, PanelRan

LEMMA PanelFewer ==
  ASSUME PanelInv, server' \in [1 .. Len(server) -> PanelRan],
         \A s \in DOMAIN server : server'[s].state = "up" => server[s].state = "up",
         \A s \in DOMAIN server : server'[s].password = server[s].password
  PROVE  /\ server' \in Seq(PanelRan) /\ Len(server') = Len(server) /\ Panel!Up' \subseteq Panel!Up
         /\ \A s \in Panel!Up' : server'[s].password = server[s].password
<1>1. server' \in Seq(PanelRan)
  BY PanelServerFacts, SeqDef
<1>2. DOMAIN server' = 1 .. Len(server')
  BY <1>1, LenProperties
<1>3. 1 .. Len(server') = 1 .. Len(server) /\ Len(server') \in Nat /\ Len(server) \in Nat
  BY <1>1, <1>2, PanelServerFacts, LenProperties
<1>4. Len(server') = Len(server)
  BY <1>3
<1>5. Panel!Up' \subseteq Panel!Up /\ \A s \in Panel!Up' : server'[s].password = server[s].password
  BY <1>2, <1>4, PanelServerFacts DEF Panel!Up
<1> QED
  BY <1>1, <1>4, <1>5

LEMMA PanelStopKeeps ==
  ASSUME AgentConstants, PanelInv, NEW r \in Requests, Panel!StopArrives(r)
  PROVE  PanelInv'
<1> DEFINE recognised == pid \in Panel!Alive
           doomed == IF recognised THEN {pid} ELSE IF named THEN Panel!Alive ELSE {}
<1>1. /\ Panel!Step(r) = "stop" /\ Panel!Kill(doomed) /\ Panel!Sent(r, recognised)
      /\ UNCHANGED <<pid, password, named, recorded, excused>>
  BY DEF Panel!StopArrives, Panel!script
<1>2. /\ post' \in [Requests -> PanelMade] /\ Panel!Step(r)' = Panel!Step(r)
      /\ post'[r].kind = post[r].kind /\ post'[r].at = post[r].at
      /\ post'[r].exit = recognised
      /\ Panel!UnderWay(Panel!Controls)' = Panel!UnderWay(Panel!Controls)
      /\ \A q \in Requests \ {r} :
           /\ post'[q] = post[q] /\ Panel!Step(q)' = Panel!Step(q)
           /\ PanelCleared(q)' <=> PanelCleared(q)
           /\ PanelRestarted(q)' <=> PanelRestarted(q)
  <2> HIDE DEF doomed
  <2>1. recognised \in BOOLEAN
    OBVIOUS
  <2> HIDE DEF recognised
  <2> QED
    BY <1>1, <2>1, PanelSentOut
<1>3. <<post[r].kind, post[r].at>> \in {<<"stop", 2>>, <<"restart", 2>>, <<"setup", 4>>}
  BY <1>1, PanelAtStep
<1>4. ~PanelRestarted(r)'
  BY <1>1, <1>2, <1>3 DEF PanelRestarted
<1>5. /\ server' \in Seq(PanelRan) /\ Len(server') = Len(server) /\ Panel!Up' \subseteq Panel!Up
      /\ \A s \in Panel!Up' : server'[s].password = server[s].password
  <2>1. server' = PanelDying(server, doomed)
    BY <1>1 DEF Panel!Kill, PanelDying
  <2> HIDE DEF doomed
  <2>2. server \in [1 .. Len(server) -> PanelRan] /\ DOMAIN server = 1 .. Len(server)
    BY PanelServerFacts
  <2>3. /\ server' \in [1 .. Len(server) -> PanelRan]
        /\ \A s \in DOMAIN server : server'[s].state = "up" => server[s].state = "up"
        /\ \A s \in DOMAIN server : server'[s].password = server[s].password
    BY <2>1, <2>2, PanelDyingFacts
  <2> QED
    BY <2>3, PanelFewer
<1>6. PanelTyped'
  BY <1>1, <1>2, <1>5 DEF PanelInv, PanelTyped, PanelActs
<1>7. PanelWriters'
  BY <1>1, <1>2, PanelFacts DEF PanelInv, PanelWriters
<1>8. ASSUME ~excused, recognised PROVE Panel!Up' = {}
  <2>1. pid # 0 /\ pid \in DOMAIN server
    BY <1>8, PanelServerFacts DEF Panel!Alive
  <2>2. recorded /\ Panel!Up \subseteq {pid}
    BY <1>8, <2>1 DEF PanelInv, PanelTyped, PanelWriters, PanelOneAtATime
  <2>3. pid \notin Panel!Up'
    <3>1. server'[pid].state = "dying"
      BY <1>1, <1>8, <2>1, PanelServerFacts DEF Panel!Kill, PanelRan
    <3> QED
      BY <3>1 DEF Panel!Up
  <2> QED
    BY <1>5, <2>2, <2>3
<1>9. PanelOneAtATime'
  <2> SUFFICES ASSUME ~excused' PROVE PanelOneAtATime'
    BY DEF PanelOneAtATime
  <2>1. ~excused
    BY <1>1
  <2>2. ASSUME NEW q \in Requests, PanelCleared(q)' PROVE Panel!Up' = {}
    <3>1. CASE q = r
      <4>1. recognised
        BY <1>1, <1>2, <2>2, <3>1 DEF PanelCleared
      <4> QED
        BY <1>8, <2>1, <4>1
    <3>2. CASE q # r
      BY <1>2, <1>5, <2>1, <2>2, <3>2 DEF PanelInv, PanelOneAtATime
    <3> QED
      BY <3>1, <3>2
  <2>3. ASSUME NEW q \in Requests, password' = q, post'[q].ok, PanelRestarted(q)', NEW s \in Panel!Up'
        PROVE  server'[s].password = q
    <3>1. password = q /\ post[q].ok /\ PanelRestarted(q) /\ s \in Panel!Up
      BY <1>1, <1>2, <1>4, <1>5, <2>3
    <3> QED
      BY <1>5, <2>1, <2>3, <3>1 DEF PanelInv, PanelOneAtATime
  <2> QED
    BY <1>1, <1>2, <1>5, <2>1, <2>2, <2>3 DEF PanelInv, PanelOneAtATime
<1> QED
  BY <1>6, <1>7, <1>9 DEF PanelInv

LEMMA PanelExitsKeeps ==
  ASSUME AgentConstants, PanelInv, NEW s \in DOMAIN server, Panel!Exits(s)
  PROVE  PanelInv'
<1>1. /\ server' = [server EXCEPT ![s].state = "gone"]
      /\ UNCHANGED <<pid, password, post, named, recorded, excused>>
  BY DEF Panel!Exits, Panel!script
<1>2. /\ server' \in Seq(PanelRan) /\ Len(server') = Len(server) /\ Panel!Up' \subseteq Panel!Up
      /\ \A t \in Panel!Up' : server'[t].password = server[t].password
  <2> DEFINE g == [server[s] EXCEPT !.state = "gone"]
  <2>1. g \in PanelRan /\ g.state = "gone" /\ g.password = server[s].password
    BY PanelServerFacts DEF PanelRan
  <2>2. server' = [server EXCEPT ![s] = g]
    BY <1>1
  <2> HIDE DEF g
  <2>3. /\ server' \in [1 .. Len(server) -> PanelRan] /\ server'[s] = g
        /\ \A t \in DOMAIN server \ {s} : server'[t] = server[t]
    <3>1. server \in [1 .. Len(server) -> PanelRan] /\ DOMAIN server = 1 .. Len(server)
      BY PanelServerFacts
    <3> QED
      BY <2>1, <2>2, <3>1
  <2>4. \A t \in DOMAIN server : /\ server'[t].state = "up" => server[t].state = "up"
                                /\ server'[t].password = server[t].password
    BY <2>1, <2>3
  <2> QED
    BY <2>3, <2>4, PanelFewer
<1>3. \A q \in Requests : Panel!Step(q)' = Panel!Step(q) /\ (PanelCleared(q)' <=> PanelCleared(q)) /\ (PanelRestarted(q)' <=> PanelRestarted(q))
  BY <1>1 DEF Panel!Step, Panel!Left, PanelCleared, PanelRestarted
<1>4. Panel!UnderWay(Panel!Controls)' = Panel!UnderWay(Panel!Controls)
  BY <1>1 DEF Panel!UnderWay, Panel!Left
<1>5. PanelTyped' /\ PanelWriters'
  BY <1>1, <1>2, <1>3 DEF PanelInv, PanelTyped, PanelWriters
<1>6. PanelOneAtATime'
  BY <1>1, <1>2, <1>3, <1>4 DEF PanelInv, PanelOneAtATime
<1> QED
  BY <1>5, <1>6 DEF PanelInv

(* Whoever starts a server finds none, unless it is excused. *)
LEMMA PanelStartKeeps ==
  ASSUME AgentConstants, PanelInv, NEW r \in Requests, Panel!StartArrives(r)
  PROVE  PanelInv'
<1>1. /\ Panel!Step(r) = "start" /\ ~post[r].sent
      /\ excused' = (excused \/ (post[r].kind = "start" /\ Panel!Up # {}))
      /\ UNCHANGED <<password, named, recorded>>
  BY DEF Panel!StartArrives, Panel!script
<1>2. <<post[r].kind, post[r].at>> \in {<<"start", 2>>, <<"restart", 3>>, <<"setup", 5>>}
  BY <1>1, PanelAtStep
<1>3. excused' \in BOOLEAN /\ (~excused' => ~excused)
  BY <1>1 DEF PanelInv, PanelTyped
<1>4. CASE UNCHANGED <<server, pid>> /\ Panel!Sent(r, FALSE)
  BY <1>1, <1>3, <1>4, PanelSentKeeps DEF PanelActs
<1>5. ASSUME Len(server) < MaxServers, server' = Append(server, [state |-> "up", password |-> password]),
             pid' = (IF recorded THEN Len(server') ELSE pid), NEW exit \in BOOLEAN, Panel!Sent(r, exit)
      PROVE  PanelInv'
  <2> DEFINE n == Len(server) + 1
             new == [state |-> "up", password |-> password]
  <2>1. new \in PanelRan /\ new.state = "up" /\ new.password = password
    BY PanelFacts DEF PanelRan
  <2> HIDE DEF new
  <2>2. /\ server' \in Seq(PanelRan) /\ Len(server') = n /\ server'[n] = new
        /\ \A s \in 1 .. Len(server) : server'[s] = server[s]
    <3>1. server' = Append(server, new)
      BY <1>5 DEF new
    <3> QED
      BY <2>1, <3>1, PanelServerFacts, AppendProperties
  <2>3. DOMAIN server' = 1 .. n /\ n \in Nat /\ 1 .. n = 1 .. Len(server) \cup {n}
    <3>1. n \in Nat /\ 1 .. n = 1 .. Len(server) \cup {n}
      BY PanelServerFacts
    <3> QED
      BY <2>2, <3>1, LenProperties
  <2> HIDE DEF n
  <2>4. Panel!Up' = Panel!Up \cup {n} /\ \A s \in Panel!Up : server'[s] = server[s]
    BY <2>1, <2>2, <2>3, PanelServerFacts DEF Panel!Up
  <2>5. /\ post' \in [Requests -> PanelMade] /\ Panel!Step(r)' = Panel!Step(r)
        /\ post'[r].kind = post[r].kind /\ post'[r].at = post[r].at
        /\ post'[r].sent = TRUE
        /\ Panel!UnderWay(Panel!Controls)' = Panel!UnderWay(Panel!Controls)
        /\ \A q \in Requests \ {r} :
             /\ post'[q] = post[q] /\ Panel!Step(q)' = Panel!Step(q)
             /\ PanelCleared(q)' <=> PanelCleared(q)
             /\ PanelRestarted(q)' <=> PanelRestarted(q)
    BY <1>5, PanelSentOut
  <2>6. PanelTyped'
    <3>1. Len(server') <= MaxServers /\ pid' \in 0 .. Len(server')
      BY <1>5, <2>2, <2>3, PanelServerFacts DEF n, PanelInv, PanelTyped
    <3> QED
      BY <1>1, <1>3, <2>2, <2>5, <3>1 DEF PanelInv, PanelTyped, PanelActs
  <2>7. PanelWriters'
    BY <1>1, <1>5, <2>5, PanelFacts DEF PanelInv, PanelWriters
  <2>8. PanelOneAtATime'
    <3> SUFFICES ASSUME ~excused' PROVE PanelOneAtATime'
      BY DEF PanelOneAtATime
    <3>1. ~excused /\ (post[r].kind = "start" => Panel!Up = {})
      BY <1>1
    <3>2. Panel!Up = {}
      <4>1. post[r].kind # "start" => PanelCleared(r)
        BY <1>1 DEF PanelCleared
      <4> QED
        BY <3>1, <4>1 DEF PanelInv, PanelOneAtATime
    <3>3. Panel!Up' = {n} /\ server'[n].password = password
      BY <2>1, <2>2, <2>4, <3>2
    <3>4. recorded' => Panel!Up' \subseteq {pid'}
      BY <1>1, <1>5, <2>2, <3>3
    <3>5. r \in Panel!UnderWay(Panel!Controls)
      <4>1. post[r].kind \in Panel!Controls /\ Panel!Left(r) # {}
        BY <1>1, <1>2, PanelAtStep DEF Panel!Controls
      <4> QED
        BY <4>1 DEF Panel!UnderWay
    <3>6. ASSUME NEW q \in Requests, PanelCleared(q)' PROVE FALSE
      <4>1. q # r
        BY <1>1, <2>5, <3>6 DEF PanelCleared
      <4>2. PanelCleared(q)
        BY <2>5, <3>6, <4>1
      <4>3. <<post[q].kind, post[q].at>> \in
              {<<"stop", 2>>, <<"restart", 2>>, <<"setup", 4>>, <<"start", 2>>, <<"restart", 3>>, <<"setup", 5>>}
        BY <4>2, PanelAtStep DEF PanelCleared
      <4>4. q \in Panel!UnderWay(Panel!Controls)
        <5>1. post[q].kind \in Panel!Controls
          BY <4>3 DEF Panel!Controls
        <5>2. Panel!Left(q) # {}
          BY <4>2, PanelAtStep DEF PanelCleared
        <5> QED
          BY <5>1, <5>2 DEF Panel!UnderWay
      <4> QED
        BY <3>1, <3>5, <4>1, <4>4 DEF PanelInv, PanelOneAtATime
    <3>7. \A q \in Requests : password' = q => \A s \in Panel!Up' : server'[s].password = q
      BY <1>1, <3>3
    <3> QED
      BY <2>5, <3>1, <3>3, <3>4, <3>6, <3>7 DEF PanelInv, PanelOneAtATime
  <2> QED
    BY <2>6, <2>7, <2>8 DEF PanelInv
<1> QED
  BY <1>4, <1>5 DEF Panel!StartArrives

-----------------------------------------------------------------------------
LEMMA PanelInvInit == ASSUME AgentConstants PROVE Panel!Init => PanelInv
<1> SUFFICES ASSUME Panel!Init PROVE PanelInv
  OBVIOUS
<1> DEFINE none == <<>>
<1>1. none \in Seq(PanelRan) /\ Len(none) = 0
  BY EmptySeq
<1>2. DOMAIN none = {}
  OBVIOUS
<1>3. server = none
  BY DEF Panel!Init
<1> HIDE DEF none
<1>4. Panel!Idle \in PanelMade /\ Panel!Idle.kind = "none" /\ Panel!Idle.sent = FALSE
  BY DEF Panel!Idle, PanelMade
<1>5. Panel!Up = {}
  BY <1>2, <1>3 DEF Panel!Up
<1>6. post \in [Requests -> PanelMade] /\ \A r \in Requests : post[r] = Panel!Idle
  BY <1>4 DEF Panel!Init
<1>7. \A r \in Requests : Panel!Left(r) = {} /\ Panel!Step(r) = "none"
  BY <1>4, <1>6 DEF Panel!Left, Panel!Step
<1>8. PanelTyped
  <2>1. /\ pid = 0 /\ password = Panel!Nobody /\ excused = FALSE
        /\ named \in BOOLEAN /\ recorded \in BOOLEAN
    BY DEF Panel!Init
  <2>2. server \in Seq(PanelRan) /\ Len(server) = 0
    BY <1>1, <1>3
  <2>3. Len(server) <= MaxServers /\ pid \in 0 .. Len(server)
    BY <2>1, <2>2 DEF AgentConstants
  <2>4. \A r \in Requests : ~post[r].sent
    BY <1>4, <1>6
  <2> QED
    BY <1>6, <2>1, <2>2, <2>3, <2>4 DEF PanelTyped
<1>9. PanelWriters
  BY DEF Panel!Init, PanelWriters
<1>10. PanelOneAtATime
  BY <1>5, <1>7 DEF PanelOneAtATime, Panel!UnderWay
<1> QED
  BY <1>8, <1>9, <1>10 DEF PanelInv

LEMMA PanelInvStep == ASSUME AgentConstants PROVE PanelInv /\ [Panel!Next]_(Panel!vars) => PanelInv'
<1> SUFFICES ASSUME PanelInv, [Panel!Next]_(Panel!vars) PROVE PanelInv'
  OBVIOUS
<1>1. ASSUME NEW r \in Requests, Panel!CreateArrives(r) \/ Panel!ExecArrives(r) PROVE PanelInv'
  <2>1. /\ Panel!Step(r) \in {"create", "exec"} /\ UNCHANGED <<server, pid, password, named, recorded, excused>>
    BY <1>1 DEF Panel!CreateArrives, Panel!ExecArrives, Panel!target, Panel!script
  <2>2. excused' \in BOOLEAN /\ (~excused' => ~excused)
    BY <2>1 DEF PanelInv, PanelTyped
  <2>3. Panel!Sent(r, TRUE) \/ Panel!Sent(r, FALSE)
    BY <1>1 DEF Panel!CreateArrives, Panel!ExecArrives, Panel!Sent
  <2> QED
    BY <2>1, <2>2, <2>3, PanelSentKeeps DEF PanelActs
<1>2. CASE UNCHANGED Panel!vars
  <2>1. UNCHANGED <<server, pid, password, post, named, recorded, excused>>
    BY <1>2 DEF Panel!vars
  <2>2. /\ \A q \in Requests : Panel!Step(q)' = Panel!Step(q) /\ (PanelCleared(q)' <=> PanelCleared(q)) /\ (PanelRestarted(q)' <=> PanelRestarted(q))
        /\ Panel!Up' = Panel!Up /\ Panel!UnderWay(Panel!Controls)' = Panel!UnderWay(Panel!Controls)
    BY <2>1 DEF Panel!Step, Panel!Left, PanelCleared, PanelRestarted, Panel!Up, Panel!UnderWay
  <2> QED
    BY <2>1, <2>2 DEF PanelInv, PanelTyped, PanelWriters, PanelOneAtATime
<1> QED
  BY <1>1, <1>2, PanelBeginKeeps, PanelRaisesKeeps, PanelReadsKeeps, PanelReturnedKeeps, PanelWriteKeeps, PanelStopKeeps, PanelStartKeeps, PanelExitsKeeps
     DEF Panel!Next

LEMMA PanelInvHolds ==
  ASSUME AgentConstants, PanelInv
  PROVE  Panel!OneServer /\ Panel!ConsoleAgrees
<1>1. Panel!OneServer
  <2> SUFFICES ASSUME ~excused PROVE Panel!Cardinality(Panel!Up) <= 1
    BY DEF Panel!OneServer
  <2>1. \A s, t \in Panel!Up : s = t
    BY DEF PanelInv, PanelOneAtATime
  <2>2. CASE Panel!Up = {}
    BY <2>2, FS_EmptySet, PanelCounts
  <2>3. CASE Panel!Up # {}
    <3>1. PICK s \in Panel!Up : TRUE
      BY <2>3
    <3>2. Panel!Up = {s}
      BY <2>1, <3>1
    <3>3. Cardinality(Panel!Up) = 1
      BY <3>2, FS_Singleton
    <3>4. Panel!Cardinality(Panel!Up) = Cardinality(Panel!Up)
      BY PanelCounts
    <3> QED
      BY <3>3, <3>4
  <2> QED
    BY <2>2, <2>3
<1>2. Panel!ConsoleAgrees
  <2> SUFFICES ASSUME NEW r \in Requests, ~excused, password = r, post[r].ok,
                      \A i \in Panel!Left(r) : Panel!Program[post[r].kind][i] # "start"
               PROVE  \A s \in Panel!Up : server[s].password = r
    BY DEF Panel!ConsoleAgrees
  <2>1. post[r].kind = "setup"
    BY PanelNobodyAsks DEF PanelInv, PanelWriters
  <2>2. Panel!Left(r) = post[r].at .. 8 /\ Panel!Program["setup"][5] = "start"
    BY <2>1 DEF Panel!Left, Panel!Program
  <2>3. post[r].at > 5
    <3>1. post[r].at \in 1 .. 9
      BY PanelFacts
    <3>2. 5 \notin Panel!Left(r)
      BY <2>1, <2>2
    <3> QED
      BY <2>2, <3>1, <3>2
  <2> QED
    BY <2>3 DEF PanelInv, PanelOneAtATime, PanelRestarted
<1> QED
  BY <1>1, <1>2

LEMMA PanelMoves == [Next]_vars => [Panel!Next]_(Panel!vars)
BY DEF Next, vars, panelVars, Panel!vars

(* workloads.py: however the steps of any number of panel requests mix, while  *)
(* one of them at a time controls the workload there is one server, and the    *)
(* password the console file names is that of the server the last setup       *)
(* started.                                                                  *)
THEOREM WorkloadsAreOne == Spec => []WorkloadIsOne
<1>1. Init => PanelInv
  BY PanelInvInit, AgentConstants DEF Init
<1>2. PanelInv /\ [Next]_vars => PanelInv'
  BY PanelInvStep, PanelMoves, AgentConstants
<1>3. PanelInv => WorkloadIsOne
  BY PanelInvHolds, AgentConstants DEF WorkloadIsOne
<1> QED
  BY <1>1, <1>2, <1>3, PTL DEF Spec
-----------------------------------------------------------------------------
(* All of the components together. *)

AgentInv ==
  /\ SessionInv /\ HubInv /\ MonitorInv /\ ShellInv /\ ShellLink /\ ConfirmInv /\ MemoryInv
  /\ PanelInv

LEMMA AgentTyped == AgentInv => TypeOK
<1> SUFFICES ASSUME AgentInv PROVE TypeOK
  OBVIOUS
<1>1. Session!TypeOK
  BY DEF AgentInv, SessionInv, SessionTyped, SessionStored, Session!TypeOK
<1>2. Hub!TypeOK
  BY HubInvHolds, AgentConstants DEF AgentInv
<1>3. Monitor!TypeOK
  BY DEF AgentInv, MonitorInv, MonitorTyped, MonitorFits, MonitorRecord, MonitorPlaces, Monitor!TypeOK
<1>4. Shell!TypeOK
  BY ShellTyped DEF AgentInv
<1>5. Confirm!TypeOK
  BY ConfirmTyped DEF AgentInv
<1>6. Panel!TypeOK
  BY DEF AgentInv, PanelInv, PanelTyped, PanelMade, Panel!TypeOK
<1>7. Memory!TypeOK
  BY DEF AgentInv, MemoryInv
<1> QED
  BY <1>1, <1>2, <1>3, <1>4, <1>5, <1>6, <1>7 DEF TypeOK

(* The variables of every component keep their types, and its counters their *)
(* limits: the history of the hub, the restarts of a service, the servers of  *)
(* the workload, the connections of the ssh channel.                         *)
THEOREM TypeCorrect == Spec => []TypeOK
<1>1. Init => AgentInv
  BY SessionInvInit, HubInvInit, MonitorInvInit, ShellInvInit, ShellLinkInit, ConfirmInvInit,
     MemoryInvInit, PanelInvInit, AgentConstants
  DEF Init, AgentInv
<1>2. AgentInv /\ [Next]_vars => AgentInv'
  <2> SUFFICES ASSUME AgentInv, [Next]_vars PROVE AgentInv'
    OBVIOUS
  <2>1. SessionInv' /\ HubInv' /\ MonitorInv'
    BY SessionInvStep, HubInvStep, MonitorInvStep, SessionMoves, HubMoves, MonitorMoves, AgentConstants
    DEF AgentInv
  <2>2. ShellInv' /\ ShellLink' /\ ConfirmInv'
    BY ShellInvStep, ShellLinkStep, ConfirmInvStep, ShellMoves, ConfirmMoves DEF AgentInv
  <2>3. MemoryInv' /\ PanelInv'
    BY MemoryInvStep, PanelInvStep, MemoryMoves, PanelMoves, AgentConstants DEF AgentInv
  <2> QED
    BY <2>1, <2>2, <2>3 DEF AgentInv
<1>3. AgentInv => TypeOK
  BY AgentTyped
<1> QED
  BY <1>1, <1>2, <1>3, PTL DEF Spec

=============================================================================
