---------------------------- MODULE ConfirmWatch ----------------------------
(***************************************************************************)
(* The terminals that follow a supervised run and answer for its operator     *)
(* (cli/watchers.py, cli/app.py): each reads the run, from the event stream   *)
(* or by polling, and asks about the step that waits.  The answer it sends    *)
(* names the run, not the step (api/routes.py): the run applies it to         *)
(* whichever step waits when it comes.  The run is taken from PlanRun as the  *)
(* steps it waits on, one after the other.                                    *)
(***************************************************************************)
EXTENDS Integers, Sequences

CONSTANTS
  Watchers, \* terminals
  Steps     \* bound: dangerous steps of the run, 1..Steps

VARIABLES
  waiting,  \* the step that waits for an answer, 0 if none
  settled,  \* steps answered so far
  ended,    \* the run is over
  events,   \* what the stream has told: the step that waited, 0 for the end
  watcher   \* of each terminal: where it is and what it knows

vars == <<waiting, settled, ended, events, watcher>>

\* how: "stream" or "poll"; step: the step asked about; stale: somebody else has
\* answered since it looked, or it could not look; crossed: answered another step
Fresh(how) == [how |-> how, pc |-> "reading", read |-> 0, step |-> 0, handled |-> {},
               stale |-> FALSE, crossed |-> FALSE]

TheRun == <<waiting, settled, ended, events>>

-----------------------------------------------------------------------------
(* The run: a step waits and says so; the last one answered, it ends.         *)
StepWaits ==
  /\ ~ended /\ waiting = 0 /\ settled < Steps
  /\ waiting' = settled + 1
  /\ events' = Append(events, waiting')
  /\ UNCHANGED <<settled, ended, watcher>>

RunEnds ==
  /\ ~ended /\ waiting = 0
  /\ ended' = TRUE /\ events' = Append(events, 0)
  /\ UNCHANGED <<waiting, settled, watcher>>

(* confirm_step: whoever answers, the step that waits is settled; of the      *)
(* others, those that asked about it do not know.                            *)
Settles(others) ==
  /\ waiting' = 0 /\ settled' = waiting
  /\ watcher' = [w \in Watchers |->
       IF w \in others THEN [watcher[w] EXCEPT !.stale = @ \/ watcher[w].pc = "asking"]
       ELSE [watcher[w] EXCEPT !.pc = "reading", !.handled = @ \cup {watcher[w].step},
                               !.crossed = @ \/ (watcher[w].step # waiting /\ ~watcher[w].stale)]]
  /\ UNCHANGED <<ended, events>>

(* The dashboard answers the step it shows. *)
DashboardAnswers == waiting # 0 /\ Settles(Watchers)

-----------------------------------------------------------------------------
(* A terminal. *)
Moves(w, pc, step, handled) ==
  /\ watcher' = [watcher EXCEPT ![w] = [@ EXCEPT !.pc = pc, !.step = step, !.handled = handled,
                                                 !.stale = FALSE]]
  /\ UNCHANGED TheRun

(* watch_plan: the run is read, and a step that waits asked about.            *)
PollReads(w) ==
  /\ watcher[w].how = "poll" /\ watcher[w].pc = "reading"
  /\ IF waiting # 0 THEN Moves(w, "asking", waiting, watcher[w].handled)
     ELSE ended /\ Moves(w, "left", 0, watcher[w].handled)

(* Mutant: what the stream tells is asked about without another look. *)
StreamReadsTrusting(w) ==
  /\ watcher[w].how = "stream" /\ watcher[w].pc = "reading"
  /\ watcher[w].read < Len(events)
  /\ LET seen == events[watcher[w].read + 1]
         pc   == IF seen = 0 THEN "left" ELSE IF seen \in watcher[w].handled THEN "reading" ELSE "asking"
     IN watcher' = [watcher EXCEPT ![w] = [@ EXCEPT !.read = watcher[w].read + 1, !.pc = pc, !.step = seen,
                                                    !.stale = FALSE]]
  /\ UNCHANGED TheRun

(* watch_plan_stream, watch_session_stream: the next event of the stream,     *)
(* which may be an old one; a step not handled yet is looked at first.        *)
StreamReads(w) ==
  /\ watcher[w].how = "stream" /\ watcher[w].pc = "reading"
  /\ watcher[w].read < Len(events)
  /\ LET seen == events[watcher[w].read + 1]
         pc   == IF seen = 0 THEN "left" ELSE IF seen \in watcher[w].handled THEN "reading" ELSE "looking"
     IN watcher' = [watcher EXCEPT ![w] = [@ EXCEPT !.read = watcher[w].read + 1, !.pc = pc, !.step = seen]]
  /\ UNCHANGED TheRun

(* run_still_waiting_confirmation: it waits on that step, or not any more; if *)
(* nobody can tell, the operator is asked.                                   *)
Looks(w) ==
  /\ watcher[w].pc = "looking"
  /\ IF waiting = watcher[w].step
     THEN Moves(w, "asking", watcher[w].step, watcher[w].handled)
     ELSE Moves(w, "reading", 0, watcher[w].handled \cup {watcher[w].step})

CannotLook(w) ==
  /\ watcher[w].pc = "looking"
  /\ watcher' = [watcher EXCEPT ![w].pc = "asking", ![w].stale = TRUE]
  /\ UNCHANGED TheRun

(* The operator answers, or --yes does. *)
Answers(w) ==
  /\ watcher[w].pc = "asking" /\ waiting # 0
  /\ Settles(Watchers \ {w})

(* The run waits on nothing (409), the server cannot be reached or the stream *)
(* breaks: a terminal that streams polls from then on, one that polls leaves. *)
Refused(w) ==
  /\ \/ watcher[w].pc = "asking" /\ waiting = 0
     \/ watcher[w].pc = "reading"
  /\ watcher' = [watcher EXCEPT ![w] =
       IF @.how = "stream" THEN [Fresh("poll") EXCEPT !.crossed = watcher[w].crossed]
       ELSE [@ EXCEPT !.pc = "left"]]
  /\ UNCHANGED TheRun

Init ==
  /\ waiting = 0 /\ settled = 0 /\ ended = FALSE /\ events = <<>>
  /\ watcher \in [Watchers -> {Fresh("stream"), Fresh("poll")}]

Next ==
  \/ StepWaits \/ RunEnds \/ DashboardAnswers
  \/ \E w \in Watchers :
       PollReads(w) \/ StreamReads(w) \/ Looks(w) \/ CannotLook(w) \/ Answers(w) \/ Refused(w)

Spec == Init /\ [][Next]_vars

-----------------------------------------------------------------------------
TypeOK ==
  /\ waiting \in 0..Steps /\ settled \in 0..Steps /\ ended \in BOOLEAN
  /\ events \in Seq(0..Steps)
  /\ \A w \in Watchers :
       /\ watcher[w].how \in {"stream", "poll"}
       /\ watcher[w].pc \in {"reading", "looking", "asking", "left"}
       /\ watcher[w].handled \subseteq 0..Steps

(* An operator's answer settles the step the operator was asked about, unless *)
(* somebody else answered while the question stood or the run could not be    *)
(* looked at: the answer alone does not say which step it is for.             *)
AnswersItsStep == \A w \in Watchers : ~watcher[w].crossed
=============================================================================
