---------------------------- MODULE PowerButton ----------------------------
(***************************************************************************)
(* The power and reset buttons of the managed host, pressed over GPIO by the *)
(* CM4 server: classes GPIOPin and GPIOController of                         *)
(* armhost-cm4/server/modules/gpio_ctrl.py.  A press is a request handler    *)
(* that writes 1, sleeps and writes 0.  Nothing keeps two handlers from      *)
(* pressing the same button, every write goes through a thread pool and may  *)
(* fail, and the kernel keeps a line as it is when the server dies.          *)
(***************************************************************************)
EXTENDS Integers, Sequences, SequencesExt

CONSTANTS
  Buttons,   \* output lines that are pressed: PWR and RST
  Presses,   \* identifiers of request handlers
  Durations, \* ticks a press may last: short_press_ms, long_press_ms, pulse_ms
  LogMax     \* entries _action_log keeps (100)

VARIABLES
  server, \* "down" or "up": lifespan of the server
  usable, \* _exported of each line
  level,  \* what the host sees on the line
  press,  \* of each handler: the button, where it is suspended, ticks it still sleeps
  failed, \* history: lines on which a write failed since they were last set up
  actions \* _action_log

vars == <<server, usable, level, press, failed, actions>>

Idle == [at |-> "none", on |-> "none", left |-> 0]
Busy(p) == press[p].at \in {"rising", "held", "falling"}

(* Mutant: the list is never cut. *)
LoggedUncut(log, entry) == Append(log, entry)

(* _log_action: the list is cut to its last entries. *)
Logged(log, entry) ==
  LET longer == Append(log, entry)
  IN  IF Len(longer) > LogMax THEN Tail(longer) ELSE longer

(* GPIOController.setup, before any request is served: a line that could be   *)
(* configured is driven low; one that could not stays as it is, and only      *)
(* ignores its presses.                                                       *)
Setup ==
  /\ server = "down"
  /\ usable' \in [Buttons -> BOOLEAN]
  /\ level' = [b \in Buttons |-> IF usable'[b] THEN 0 ELSE level[b]]
  /\ failed' = {b \in Buttons : ~usable'[b]}
  /\ server' = "up"
  /\ UNCHANGED <<press, actions>>

(* power_on, power_off, reset up to the first write. *)
Request(p, b, ticks) ==
  /\ server = "up" /\ press[p] = Idle
  /\ actions' = Logged(actions, b)
  /\ press' = IF usable[b] THEN [press EXCEPT ![p] = [at |-> "rising", on |-> b, left |-> ticks]]
                           ELSE press
  /\ UNCHANGED <<server, usable, level, failed>>

Write(p, value) == level' = [level EXCEPT ![press[p].on] = value]

(* A write that fails raises: the handler ends and leaves the line alone. *)
WriteFails(p) ==
  /\ press[p].at \in {"rising", "falling"}
  /\ press' = [press EXCEPT ![p] = Idle]
  /\ failed' = failed \cup {press[p].on}
  /\ UNCHANGED <<server, usable, level, actions>>

Rise(p) ==
  /\ press[p].at = "rising" /\ Write(p, 1)
  /\ press' = [press EXCEPT ![p].at = "held"]
  /\ UNCHANGED <<server, usable, failed, actions>>

(* Time passes for every sleeping handler. *)
Tick ==
  /\ \E p \in Presses : press[p].at = "held"
  /\ press' = [p \in Presses |->
       IF press[p].at # "held" THEN press[p]
       ELSE IF press[p].left > 1 THEN [press[p] EXCEPT !.left = @ - 1]
       ELSE [press[p] EXCEPT !.at = "falling", !.left = 0]]
  /\ UNCHANGED <<server, usable, level, failed, actions>>

(* Mutant: the second write repeats the first. *)
FallWritesOne(p) ==
  /\ press[p].at = "falling" /\ Write(p, 1)
  /\ press' = [press EXCEPT ![p] = Idle]
  /\ UNCHANGED <<server, usable, failed, actions>>

Fall(p) ==
  /\ press[p].at = "falling" /\ Write(p, 0)
  /\ press' = [press EXCEPT ![p] = Idle]
  /\ UNCHANGED <<server, usable, failed, actions>>

(* An orderly stop waits for the handlers; cleanup drives the lines low.  A   *)
(* write that fails there is ignored.                                         *)
Cleanup ==
  /\ server = "up" /\ \A p \in Presses : press[p] = Idle
  /\ \E stuck \in SUBSET Buttons :
       /\ level' = [b \in Buttons |-> IF usable[b] /\ b \notin stuck THEN 0 ELSE level[b]]
       /\ failed' = failed \cup stuck
  /\ usable' = [b \in Buttons |-> FALSE]
  /\ server' = "down" /\ actions' = <<>>
  /\ UNCHANGED press

Crash ==
  /\ server = "up"
  /\ server' = "down" /\ actions' = <<>>
  /\ press' = [p \in Presses |-> Idle]
  /\ UNCHANGED <<usable, level, failed>>

Init ==
  /\ server = "down"
  /\ usable = [b \in Buttons |-> FALSE]
  /\ level \in [Buttons -> {0, 1}]
  /\ press = [p \in Presses |-> Idle]
  /\ failed = {} /\ actions = <<>>

Handler(p) == Rise(p) \/ Fall(p) \/ WriteFails(p)

Next ==
  \/ Setup \/ Tick \/ Cleanup \/ Crash
  \/ \E p \in Presses :
       \/ Handler(p)
       \/ \E b \in Buttons, ticks \in Durations : Request(p, b, ticks)

Spec == Init /\ [][Next]_vars

(* The pool performs the writes and the timers fire. *)
Fairness == WF_vars(Tick) /\ \A p \in Presses : WF_vars(Handler(p))

-----------------------------------------------------------------------------
TypeOK ==
  /\ server \in {"down", "up"}
  /\ usable \in [Buttons -> BOOLEAN] /\ level \in [Buttons -> {0, 1}]
  /\ press \in [Presses -> [at : {"none", "rising", "held", "falling"},
                            on : Buttons \cup {"none"}, left : Int]]
  /\ failed \subseteq Buttons
  /\ actions \in Seq(Buttons) /\ Len(actions) <= LogMax

(* A button nobody is pressing is not pressed, whatever presses overlapped    *)
(* and even after a server died in the middle of one, unless a write failed.  *)
ReleasedAtRest ==
  \A b \in Buttons : server = "up" /\ b \notin failed =>
    \/ level[b] = 0
    \/ \E p \in Presses : Busy(p) /\ press[p].on = b
=============================================================================
