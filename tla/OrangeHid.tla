----------------------------- MODULE OrangeHid -----------------------------
(***************************************************************************)
(* The keyboard and mouse of the Orange Pi server: HIDKeyboard, HIDMouse and *)
(* HIDManager of armhost-orangepi4/server/modules/hid.py.  One WebSocket      *)
(* client, whose messages are awaited one after the other, and the life of    *)
(* the server: the devices are opened at its start, or missing; stop()        *)
(* releases the keys and closes them; a crash leaves the host with the last   *)
(* reports it got.                                                           *)
(***************************************************************************)
EXTENDS Integers, Sequences, SequencesExt

CONSTANTS
  Modifiers, \* codes in MODIFIER_KEYS
  Keys,      \* codes in JS_TO_HID_KEYCODE
  Buttons,   \* mouse buttons
  Slots      \* keys in a report (6)

VARIABLES
  server,   \* "down", "up" or "stopping"
  open,     \* _available of the two devices (and _fd is not None)
  mods,     \* keyboard._modifier_state
  pressed,  \* keyboard._pressed_keys
  held,     \* mouse._buttons
  message,  \* the message in progress: where it is suspended, and the report it writes
  seen,     \* the host: codes and buttons of the last reports
  unclean   \* history: reports were lost, or the server died, since the last report

vars == <<server, open, mods, pressed, held, message, seen, unclean>>

None == [at |-> "none", report |-> {}, button |-> "none"]
Served(device) == server = "up" /\ message = None /\ device \in open

(* _send_report of the keyboard, handed to the pool. *)
Types(m, k, then) ==
  /\ mods' = m /\ pressed' = k
  /\ message' = [at |-> then, report |-> m \cup ToSet(k), button |-> "none"]

KeyDown(code) ==
  /\ Served("keyboard")
  /\ \/ code \in Modifiers /\ Types(mods \cup {code}, pressed, "typing")
     \/ code \in Keys
        /\ Types(mods, IF code \in ToSet(pressed) \/ Len(pressed) >= Slots
                       THEN pressed ELSE Append(pressed, code), "typing")
  /\ UNCHANGED <<server, open, held, seen, unclean>>

KeyUp(code) ==
  /\ Served("keyboard")
  /\ \/ code \in Modifiers /\ Types(mods \ {code}, pressed, "typing")
     \/ code \in Keys \ ToSet(pressed) /\ Types(mods, pressed, "typing")
     \/ \E i \in DOMAIN pressed : pressed[i] = code /\ Types(mods, RemoveAt(pressed, i), "typing")
  /\ UNCHANGED <<server, open, held, seen, unclean>>

(* send_combo, first half. *)
Combo(ms, ks) ==
  /\ Served("keyboard")
  /\ Types(ms, SubSeq(ks, 1, IF Len(ks) < Slots THEN Len(ks) ELSE Slots), "combo")
  /\ UNCHANGED <<server, open, held, seen, unclean>>

ReleaseAll ==
  /\ Served("keyboard")
  /\ Types({}, <<>>, "typing")
  /\ UNCHANGED <<server, open, held, seen, unclean>>

(* button_down, button_up and the first half of click. *)
Clicks(bs, then, b) ==
  /\ Served("mouse")
  /\ held' = bs
  /\ message' = [at |-> then, report |-> bs, button |-> b]
  /\ UNCHANGED <<server, open, mods, pressed, seen, unclean>>

(* The write of a report, or its failure, which is only logged. *)
Written ==
  /\ message.at \in {"typing", "combo", "clicking", "click"}
  /\ LET device == IF message.at \in {"typing", "combo"} THEN "keyboard" ELSE "mouse"
     IN  \/ /\ seen' = [seen EXCEPT ![device] = message.report]
            /\ unclean' = unclean \ {device}
         \/ unclean' = unclean \cup {device} /\ UNCHANGED seen
  /\ message' = IF message.at \in {"typing", "clicking"} THEN None
                ELSE [message EXCEPT !.at = IF @ = "combo" THEN "comboing" ELSE "held"]
  /\ UNCHANGED <<server, open, mods, pressed, held>>

(* The second halves, after the sleep. *)
ComboEnds ==
  /\ message.at = "comboing"
  /\ Types({}, <<>>, "typing")
  /\ UNCHANGED <<server, open, held, seen, unclean>>

ClickEnds ==
  /\ message.at = "held"
  /\ held' = held \ {message.button}
  /\ message' = [at |-> "clicking", report |-> held', button |-> "none"]
  /\ UNCHANGED <<server, open, mods, pressed, seen, unclean>>

-----------------------------------------------------------------------------
(* start(): a device that cannot be opened ignores its messages. *)
Start ==
  /\ server = "down"
  /\ server' = "up"
  /\ open' \in SUBSET {"keyboard", "mouse"}
  /\ mods' = {} /\ pressed' = <<>> /\ held' = {} /\ message' = None
  /\ UNCHANGED <<seen, unclean>>

(* Mutant: stop() closes the devices and releases nothing. *)
StopClosesOnly ==
  /\ server = "up" /\ message = None
  /\ server' = "down" /\ open' = {}
  /\ UNCHANGED <<mods, pressed, held, message, seen, unclean>>

(* stop(): the keys are released (and no button), then the devices closed. *)
Stop ==
  /\ server = "up" /\ message = None
  /\ \/ /\ "keyboard" \in open
        /\ server' = "stopping" /\ Types({}, <<>>, "typing")
        /\ UNCHANGED open
     \/ /\ "keyboard" \notin open
        /\ server' = "down" /\ open' = {}
        /\ UNCHANGED <<mods, pressed, message>>
  /\ UNCHANGED <<held, seen, unclean>>

Close ==
  /\ server = "stopping" /\ message = None
  /\ server' = "down" /\ open' = {}
  /\ UNCHANGED <<mods, pressed, held, message, seen, unclean>>

Crash ==
  /\ server \in {"up", "stopping"}
  /\ server' = "down" /\ open' = {} /\ message' = None
  /\ unclean' = {"keyboard", "mouse"}
  /\ UNCHANGED <<mods, pressed, held, seen>>

Init ==
  /\ server = "down" /\ open = {}
  /\ mods = {} /\ pressed = <<>> /\ held = {} /\ message = None
  /\ seen = [device \in {"keyboard", "mouse"} |-> {}]
  /\ unclean = {}

(* handle_ws_message: a mouse move or scroll repeats the buttons. *)
Message ==
  \/ \E code \in Modifiers \cup Keys : KeyDown(code) \/ KeyUp(code)
  \/ \E ms \in SUBSET Modifiers, k \in Keys : Combo(ms, <<k>>)
  \/ ReleaseAll
  \/ Clicks(held, "clicking", "none")
  \/ \E b \in Buttons :
       \/ Clicks(held \cup {b}, "clicking", "none")
       \/ Clicks(held \ {b}, "clicking", "none")
       \/ Clicks(held \cup {b}, "click", b)

Next == Message \/ Written \/ ComboEnds \/ ClickEnds \/ Start \/ Stop \/ Close \/ Crash

Spec == Init /\ [][Next]_vars

-----------------------------------------------------------------------------
TypeOK ==
  /\ server \in {"down", "up", "stopping"}
  /\ open \subseteq {"keyboard", "mouse"}
  /\ mods \subseteq Modifiers /\ pressed \in Seq(Keys) /\ Len(pressed) <= Slots
  /\ held \subseteq Buttons /\ unclean \subseteq {"keyboard", "mouse"}

(* A server that stopped in order left no key pressed on the host, even one   *)
(* that a combo or a client that went away had pressed, and between messages  *)
(* the host sees what the server counts as pressed, unless a report was lost. *)
StopReleasesKeys ==
  "keyboard" \notin unclean /\ message = None =>
    seen["keyboard"] = (IF server = "down" THEN {} ELSE mods \cup ToSet(pressed))
=============================================================================
