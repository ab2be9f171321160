--------------------------- MODULE PassiveMonitor ---------------------------
(***************************************************************************)
(* The passive monitor (core/passive.py): a background loop that looks at the *)
(* screen and at services, and acts when something is wrong.  It is started   *)
(* and stopped by requests, which may overlap, and a stop waits for the loop  *)
(* it cancelled.  A skill run as an action swallows the cancellation.         *)
(***************************************************************************)
EXTENDS Integers, FiniteSets

CONSTANTS
  Loops,       \* bound: loop tasks ever created
  Services,    \* monitored services, 1 .. n, in the order of the list
  Cooldown, MaxRestarts, BlackTimeout, \* of the configuration
  ActsBySkill, \* is the action for a service a skill?
  MaxTime      \* bound: ticks of the clock

VARIABLES
  now,        \* the clock
  running,    \* self.running
  handle,     \* self._task
  loop,       \* of each loop task: where it is suspended, the time and service of its
              \* cycle, what it acts for, and whether it is to be cancelled
  stopping,   \* the loop each suspended stop() waits for
  blackSince, \* black_since, 0 when the screen was not black
  service,    \* restart_count and last_restart of each service
  tried,      \* history: when each service was last restarted
  rushed,     \* history: was a service restarted too early?
  overlapped  \* history: was the monitor started while a stop was waiting?

vars == <<now, running, handle, loop, stopping, blackSince, service, tried, rushed, overlapped>>

NoLoop  == 0
Unmade  == [at |-> "none", time |-> 0, svc |-> 0, for |-> "none", cancel |-> FALSE]
Alive(l) == loop[l].at \notin {"none", "ended"}
Clocks  == UNCHANGED <<now, tried, rushed>>
Control == UNCHANGED <<running, handle, stopping, overlapped>>

-----------------------------------------------------------------------------
(* start(): nothing while it runs, else a new loop. *)
Start ==
  /\ \/ running /\ UNCHANGED <<running, handle, loop, overlapped>>
     \/ /\ ~running
        /\ \E l \in Loops :
             /\ loop[l].at = "none" /\ \A k \in Loops : k < l => loop[k].at # "none"
             /\ handle' = l
             /\ loop' = [loop EXCEPT ![l].at = "begun"]
        /\ running' = TRUE
        /\ overlapped' = (overlapped \/ stopping # {})
  /\ Clocks /\ UNCHANGED <<stopping, blackSince, service>>

(* Mutant: the loop is told to end and not waited for. *)
StopNoWait ==
  /\ running' = FALSE /\ handle' = NoLoop
  /\ UNCHANGED <<stopping, loop, blackSince, service, overlapped>> /\ Clocks

(* stop() cancels the loop it knows of and waits for it. *)
Stop ==
  /\ running' = FALSE
  /\ \/ handle = NoLoop /\ UNCHANGED <<stopping, loop>>
     \/ /\ handle # NoLoop
        /\ stopping' = stopping \cup {handle}
        /\ loop' = [loop EXCEPT ![handle].cancel = Alive(handle)]
  /\ Clocks /\ UNCHANGED <<handle, blackSince, service, overlapped>>

(* It then forgets the task there is, which need not be the one it waited for. *)
StopReturns ==
  /\ \E l \in stopping : ~Alive(l) /\ stopping' = stopping \ {l}
  /\ handle' = NoLoop
  /\ Clocks /\ UNCHANGED <<running, loop, blackSince, service, overlapped>>

-----------------------------------------------------------------------------
(* _monitor_loop and _check_cycle. *)
Goes(l, record) == loop' = [loop EXCEPT ![l] = record]

(* The head of the loop; with or without a screen to look at. *)
Cycle(l) ==
  /\ loop[l].at \in {"begun", "sleeping"} /\ ~loop[l].cancel
  /\ Goes(l, IF ~running THEN [loop[l] EXCEPT !.at = "ended"]
             ELSE [loop[l] EXCEPT !.at = "looking", !.time = now, !.svc = 0])
  /\ Control /\ Clocks /\ UNCHANGED <<blackSince, service>>

(* The next service to be checked; none, when there is no shell. *)
NextService(l) ==
  \/ \E s \in Services : s = loop[l].svc + 1
       /\ Goes(l, [loop[l] EXCEPT !.at = "checking", !.time = 0, !.svc = s, !.for = "none"])
  \/ Goes(l, [loop[l] EXCEPT !.at = "custom", !.time = 0, !.svc = 0, !.for = "none"])

Acts(l, why) == Goes(l, [loop[l] EXCEPT !.at = "acting", !.time = 0, !.for = why])

(* _check_visual: a screen that was black for too long.  A frozen screen is   *)
(* told by the frame before, in the same way.                                *)
Look(l) ==
  LET time == loop[l].time
  IN  /\ loop[l].at = "looking" /\ ~loop[l].cancel
      /\ \/ /\ blackSince # 0 /\ time - blackSince > BlackTimeout
            /\ Acts(l, "screen") /\ UNCHANGED blackSince
         \/ /\ blackSince = 0 \/ time - blackSince <= BlackTimeout
            /\ blackSince' = (IF blackSince = 0 THEN time ELSE blackSince)
            /\ NextService(l)
         \/ blackSince' = 0 /\ NextService(l)
         \/ UNCHANGED blackSince /\ NextService(l)
      /\ Control /\ Clocks /\ UNCHANGED service

(* Mutant: the time of a restart is noted when its action is over. *)
HandleDownLate(l) ==
  LET s == loop[l].svc
  IN  \/ /\ now - service[s].last < Cooldown
         /\ NextService(l) /\ UNCHANGED <<service, tried, rushed>>
      \/ /\ now - service[s].last >= Cooldown
         /\ Acts(l, "restart")
         /\ UNCHANGED service
         /\ tried' = [tried EXCEPT ![s] = now]
         /\ rushed' = (rushed \/ now - tried[s] < Cooldown)

(* _handle_service_down: in its cooldown nothing; escalation, when it was     *)
(* restarted too often; else it is restarted.                                *)
HandleDown(l) ==
  LET s == loop[l].svc
  IN  \/ /\ now - service[s].last < Cooldown
         /\ NextService(l) /\ UNCHANGED <<service, tried, rushed>>
      \/ /\ now - service[s].last >= Cooldown /\ service[s].count >= MaxRestarts
         /\ Acts(l, "escalate") /\ UNCHANGED <<service, tried, rushed>>
      \/ /\ now - service[s].last >= Cooldown /\ service[s].count < MaxRestarts
         /\ Acts(l, "restart")
         /\ service' = [service EXCEPT ![s] = [count |-> @.count + 1, last |-> now]]
         /\ tried' = [tried EXCEPT ![s] = now]
         /\ rushed' = (rushed \/ now - tried[s] < Cooldown)

(* _check_single_service returns: the service is up, which leaves its counter *)
(* alone, or it is down, or the check failed, which counts as down.           *)
Check(l) ==
  /\ loop[l].at = "checking" /\ ~loop[l].cancel
  /\ \/ NextService(l) /\ UNCHANGED <<service, tried, rushed>>
     \/ HandleDown(l)
  /\ Control /\ UNCHANGED <<now, blackSince>>

(* _check_ssh_triggers: one of them fires, or none does. *)
Custom(l) ==
  /\ loop[l].at = "custom" /\ ~loop[l].cancel
  /\ Acts(l, "custom") \/ Goes(l, [loop[l] EXCEPT !.at = "sleeping"])
  /\ Control /\ Clocks /\ UNCHANGED <<blackSince, service>>

(* The action of a trigger is over, or it failed, or it was a skill and the   *)
(* cancellation ended the skill only.                                        *)
Acted(l) ==
  /\ loop[l].at = "acting"
  /\ ~loop[l].cancel \/ (ActsBySkill /\ loop[l].for \in {"restart", "escalate"})
  /\ \/ /\ loop[l].for = "screen" /\ blackSince' = 0
        /\ NextService(l) /\ UNCHANGED service
     \/ /\ loop[l].for \in {"restart", "escalate"}
        /\ service' = [service EXCEPT ![loop[l].svc].count = IF loop[l].for = "escalate" THEN 0 ELSE @]
        /\ \/ \E s \in Services : s = loop[l].svc + 1
                /\ Goes(l, [loop[l] EXCEPT !.at = "checking", !.svc = s, !.for = "none", !.cancel = FALSE])
           \/ Goes(l, [loop[l] EXCEPT !.at = "custom", !.svc = 0, !.for = "none", !.cancel = FALSE])
        /\ UNCHANGED blackSince
     \/ /\ loop[l].for = "custom"
        /\ Goes(l, [loop[l] EXCEPT !.at = "sleeping", !.for = "none"])
        /\ UNCHANGED <<blackSince, service>>
  /\ Control /\ Clocks

(* Anywhere else the cancellation ends the loop. *)
Cancelled(l) ==
  /\ Alive(l) /\ loop[l].cancel
  /\ ~(loop[l].at = "acting" /\ ActsBySkill /\ loop[l].for \in {"restart", "escalate"})
  /\ Goes(l, [Unmade EXCEPT !.at = "ended"])
  /\ Control /\ Clocks /\ UNCHANGED <<blackSince, service>>

Tick ==
  /\ now < MaxTime /\ now' = now + 1
  /\ UNCHANGED <<running, handle, loop, stopping, blackSince, service, tried, rushed, overlapped>>

Init ==
  /\ now = Cooldown /\ running = FALSE /\ handle = NoLoop
  /\ loop = [l \in Loops |-> Unmade] /\ stopping = {}
  /\ blackSince = 0
  /\ service = [s \in Services |-> [count |-> 0, last |-> 0]]
  /\ tried = [s \in Services |-> 0] /\ rushed = FALSE /\ overlapped = FALSE

MonitorLoop(l) == Cycle(l) \/ Look(l) \/ Check(l) \/ Custom(l) \/ Acted(l) \/ Cancelled(l)

Next == Start \/ Stop \/ StopReturns \/ Tick \/ \E l \in Loops : MonitorLoop(l)

Spec == Init /\ [][Next]_vars

-----------------------------------------------------------------------------
TypeOK ==
  /\ handle \in Loops \cup {NoLoop} /\ stopping \subseteq Loops
  /\ \A l \in Loops : loop[l].at \in {"none", "begun", "sleeping", "looking", "checking", "custom",
                                      "acting", "ended"}
  /\ \A s \in Services : service[s].count \in 0 .. MaxRestarts

(* Unless a start came while a stop was waiting, at most the loop that stop() *)
(* can reach is alive, and none once every stop has returned and nothing was  *)
(* started since: a stopped monitor acts no more.                            *)
StopHolds ==
  ~overlapped =>
    /\ \A l \in Loops : Alive(l) => l = handle
    /\ ~running /\ stopping = {} => \A l \in Loops : ~Alive(l)

(* A service is restarted at most once in a cooldown, however many loops      *)
(* overlapping requests have left behind.                                    *)
RestartsAreSpaced == ~rushed
=============================================================================
