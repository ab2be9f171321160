------------------------------ MODULE EspHost ------------------------------
(***************************************************************************)
(* The host that is an ESP32-S3 itself (esphost-esp32s3/firmware): setup()   *)
(* and loop() of main.cpp, GPIOController of gpio_ctrl.cpp, and the power     *)
(* routes of web_server.cpp.  The routes run in a task of the asynchronous    *)
(* web server, loop() in another; the board has two cores, the tasks run side *)
(* by side and neither takes a lock.  One action is one statement of a pulse. *)
(*                                                                          *)
(* millis() counts modulo Wrap (2^32 in the firmware).                        *)
(***************************************************************************)
EXTENDS Integers

CONSTANTS
  Wrap,      \* values of the millisecond counter
  Short,     \* POWER_SHORT_PRESS_MS
  Long,      \* POWER_LONG_PRESS_MS
  Pulse      \* RESET_PULSE_MS

Pins == {"pwr", "rst"}
Kinds == {"on", "off", "reset"}
PinOf(kind) == IF kind = "reset" THEN "rst" ELSE "pwr"
Lasts(kind) == CASE kind = "on" -> Short [] kind = "off" -> Long [] OTHER -> Pulse

VARIABLES
  network, \* networkReady: the web server runs
  line,    \* is the button of the pin pressed?
  pulse,   \* _pulsing, _pulsePin, _pulseEndTime
  now,     \* millis()
  web,     \* the web task: the statement it is at and the kind of its request
  loop,    \* the loop task: the statement it is at, and whether it ran since the tick
  age,     \* history: ticks since the end of the last pulse was computed
  due,     \* history: ticks that press was to last, 0 when its end wrapped
  raced    \* history: update() has found over a pulse that was being started,
           \* since one began with both buttons released and loop() elsewhere

vars == <<network, line, pulse, now, web, loop, age, due, raced>>

WebIdle  == web.at = "idle"
Starting == web.at \in {"pin", "time", "assert"}
Ending   == loop.at \in {"deassert", "clear"}

(* GPIOController.begin, and the first network.begin(). *)
Init ==
  /\ network \in BOOLEAN
  /\ line = [p \in Pins |-> FALSE]
  /\ pulse = [on |-> FALSE, pin |-> "pwr", end |-> 0]
  /\ now = 0
  /\ web = [at |-> "idle", kind |-> "on"]
  /\ loop = [at |-> "head", ran |-> FALSE]
  /\ age = 0 /\ due = 0 /\ raced = FALSE

(* A request is admitted: checkRequestAuth is passed.  One that is not       *)
(* changes nothing.                                                          *)
Route(kind) ==
  /\ network /\ WebIdle
  /\ web' = [at |-> "check", kind |-> kind]
  /\ UNCHANGED <<network, line, pulse, now, loop, age, due, raced>>

(* Mutant: a press does not look whether another is under way. *)
CheckNothing ==
  /\ web.at = "check"
  /\ web' = [web EXCEPT !.at = "mark"]
  /\ UNCHANGED <<network, line, pulse, now, loop, age, due, raced>>

(* powerOn, powerOff, reset: if (_pulsing) return. *)
Check ==
  /\ web.at = "check"
  /\ web' = [web EXCEPT !.at = IF pulse.on THEN "idle" ELSE "mark"]
  /\ UNCHANGED <<network, line, pulse, now, loop, age, due, raced>>

(* _startPulse, statement by statement. *)
Mark ==
  /\ web.at = "mark"
  /\ pulse' = [pulse EXCEPT !.on = TRUE]
  /\ web' = [web EXCEPT !.at = "pin"]
  /\ raced' = (raced /\ (Ending \/ \E p \in Pins : line[p]))
  /\ UNCHANGED <<network, line, now, loop, age, due>>

SetPin ==
  /\ web.at = "pin"
  /\ pulse' = [pulse EXCEPT !.pin = PinOf(web.kind)]
  /\ web' = [web EXCEPT !.at = "time"]
  /\ UNCHANGED <<network, line, now, loop, age, due, raced>>

SetTime ==
  /\ web.at = "time"
  /\ pulse' = [pulse EXCEPT !.end = (now + Lasts(web.kind)) % Wrap]
  /\ web' = [web EXCEPT !.at = "assert"]
  /\ age' = 0
  /\ due' = IF now + Lasts(web.kind) < Wrap THEN Lasts(web.kind) ELSE 0
  /\ UNCHANGED <<network, line, now, loop, raced>>

Assert ==
  /\ web.at = "assert"
  /\ line' = [line EXCEPT ![PinOf(web.kind)] = TRUE]
  /\ web' = [web EXCEPT !.at = "idle"]
  /\ UNCHANGED <<network, pulse, now, loop, age, due, raced>>

-----------------------------------------------------------------------------
(* loop(): the network is tried again until it is there. *)
Retry ==
  /\ loop.at = "head" /\ ~network
  /\ network' \in BOOLEAN
  /\ loop' = [loop EXCEPT !.at = "update"]
  /\ UNCHANGED <<line, pulse, now, web, age, due, raced>>

Head ==
  /\ loop.at = "head" /\ network
  /\ loop' = [loop EXCEPT !.at = "update"]
  /\ UNCHANGED <<network, line, pulse, now, web, age, due, raced>>

IsOver(over) ==
  /\ loop.at = "update"
  /\ loop' = IF over THEN [loop EXCEPT !.at = "deassert"] ELSE [at |-> "head", ran |-> TRUE]
  /\ raced' = (raced \/ (over /\ Starting))
  /\ UNCHANGED <<network, line, pulse, now, web, age, due>>

(* Mutant: the end of the pulse is one tick early. *)
UpdateEarly == IsOver(pulse.on /\ now + 1 >= pulse.end)

(* update(): is a pulse over?  The comparison does not survive a wrap. *)
Update == IsOver(pulse.on /\ now >= pulse.end)

(* _endPulse. *)
Deassert ==
  /\ loop.at = "deassert"
  /\ line' = [line EXCEPT ![pulse.pin] = FALSE]
  /\ loop' = [loop EXCEPT !.at = "clear"]
  /\ UNCHANGED <<network, pulse, now, web, age, due, raced>>

Clear ==
  /\ loop.at = "clear"
  /\ pulse' = [pulse EXCEPT !.on = FALSE]
  /\ loop' = [at |-> "head", ran |-> TRUE]
  /\ UNCHANGED <<network, line, now, web, age, due, raced>>

(* A tick of the counter: loop() runs at least once in each. *)
Tick ==
  /\ loop.ran
  /\ now' = (now + 1) % Wrap
  /\ loop' = [loop EXCEPT !.ran = FALSE]
  /\ age' = IF age < Long THEN age + 1 ELSE age
  /\ UNCHANGED <<network, line, pulse, web, due, raced>>

-----------------------------------------------------------------------------
Web  == Check \/ Mark \/ SetPin \/ SetTime \/ Assert
Loop == Retry \/ Head \/ Update \/ Deassert \/ Clear
Next == (\E kind \in Kinds : Route(kind)) \/ Web \/ Loop \/ Tick

Spec     == Init /\ [][Next]_vars

(* Both tasks run and the counter counts. *)
Fairness == WF_vars(Web) /\ WF_vars(Loop) /\ WF_vars(Tick)
FairSpec == Spec /\ Fairness

-----------------------------------------------------------------------------
TypeOK ==
  /\ network \in BOOLEAN /\ line \in [Pins -> BOOLEAN]
  /\ pulse \in [on : BOOLEAN, pin : Pins, end : 0 .. Wrap - 1]
  /\ now \in 0 .. Wrap - 1
  /\ web \in [at : {"idle", "check", "mark", "pin", "time", "assert"}, kind : Kinds]
  /\ loop \in [at : {"head", "update", "deassert", "clear"}, ran : BOOLEAN]
  /\ raced \in BOOLEAN

(* A pressed button is one whose release is under way: the pulse in progress  *)
(* is its own, so that update() will let it go.  With it, at most one of the  *)
(* two buttons is pressed.                                                    *)
PressIsTimed ==
  WebIdle => \A p \in Pins : line[p] => pulse.on /\ pulse.pin = p

(* A press is not let go before its time, though other requests come in the   *)
(* middle of it, unless its end was computed past the wrap of the counter     *)
(* (the last seconds of each 49.7 days), when it ends at once, or update() has *)
(* looked at the end of an earlier pulse while _startPulse began one.         *)
PressLasts == [][\A p \in Pins : line[p] /\ ~line'[p] => age >= due \/ raced]_vars

(* Every press is let go, both buttons are released at once and presses are    *)
(* accepted again, unless update() has met _startPulse half way: that race,    *)
(* which PressIsTimed shows, is the only one that leaves a button pressed.     *)
PressEnds == (\E p \in Pins : line[p]) ~> (raced \/ (~pulse.on /\ \A p \in Pins : ~line[p]))
=============================================================================
