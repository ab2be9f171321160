----------------------------- MODULE GadgetHid -----------------------------
(***************************************************************************)
(* The keyboard and mouse of the CM4 server in "gadget" mode: HIDManager,    *)
(* GadgetHIDKeyboard and GadgetHIDMouse of armhost-cm4/server/modules/hid.py.*)
(* Each WebSocket client has a handler (hid_websocket of main.py) that        *)
(* awaits one message after the other; all share one HIDManager.  A report    *)
(* is put together at once and written by a thread pool, where the device     *)
(* may be full, and two writes may be performed in either order.              *)
(*                                                                          *)
(* The devices are opened by start() and closed by stop(), which releases     *)
(* nothing; nor does the handler of a browser that goes.  The flasher stops   *)
(* and starts the manager while the browsers are there.  When the server ends *)
(* the host is left with the last reports it got.                             *)
(***************************************************************************)
EXTENDS Integers, Sequences, SequencesExt

CONSTANTS
  Clients,   \* WebSocket handlers
  Modifiers, \* codes in MODIFIER_KEYS
  Keys,      \* codes in JS_TO_HID_KEYCODE
  Buttons,   \* mouse buttons
  Slots      \* keys in a report (6)

VARIABLES
  open,    \* the devices that are _available
  mods,    \* _modifier_state
  pressed, \* _pressed_keys
  buttons, \* _mouse_buttons
  handler, \* of each client: where its message is suspended, and the report it writes
  typed,   \* the host: codes in the last keyboard report it got
  clicked, \* the host: buttons in the last mouse report it got
  spoilt,  \* history: was the last keyboard report lost, overtaken, or of an earlier server?
  owner    \* history: of each code, the client that pressed it last, as long as none released it

vars == <<open, mods, pressed, buttons, handler, typed, clicked, spoilt, owner>>

Codes   == Modifiers \cup Keys
Devices == {"keyboard", "mouse"}
Idle    == [at |-> "idle", device |-> "keyboard", report |-> {}, then |-> "done", button |-> "none"]

Writing(c, d) == handler[c].at = "writing" /\ handler[c].device = d
Served(c)     == handler[c] = Idle
Nobody        == [code \in Codes |-> "nobody"]

(* The handler goes on after a report: with the next message, or asleep       *)
(* between the two halves of a combo or a click.                              *)
GoesOn(h) == IF h.then = "done" THEN Idle ELSE [h EXCEPT !.at = "asleep", !.report = {}]

(* send_report: the report is fixed here and written later; a device that is  *)
(* not open drops it at once.                                                 *)
Sends(c, d, report, then, b) ==
  LET h == [at |-> "writing", device |-> d, report |-> report, then |-> then, button |-> b]
  IN  /\ \/ /\ d \in open
            /\ handler' = [handler EXCEPT ![c] = h]
            /\ spoilt' = IF d = "keyboard" THEN \E o \in Clients \ {c} : Writing(o, d) ELSE spoilt
         \/ /\ d \notin open
            /\ handler' = [handler EXCEPT ![c] = GoesOn(h)]
            /\ spoilt' = (spoilt \/ d = "keyboard")
      /\ UNCHANGED <<open, typed, clicked>>

(* _send_keyboard_state, _send_mouse_state with the new state. *)
SendsKeys(c, m, k, then) ==
  /\ mods' = m /\ pressed' = k
  /\ Sends(c, "keyboard", m \cup ToSet(SubSeq(k, 1, IF Len(k) < Slots THEN Len(k) ELSE Slots)),
           then, "none")

SendsButtons(c, bs, then, b) ==
  /\ buttons' = bs
  /\ Sends(c, "mouse", bs, then, b)
  /\ UNCHANGED <<mods, pressed, owner>>

KeyDown(c, code) ==
  /\ Served(c)
  /\ \/ code \in Modifiers /\ SendsKeys(c, mods \cup {code}, pressed, "done")
     \/ code \in Keys /\ SendsKeys(c, mods, IF code \in ToSet(pressed) \/ Len(pressed) >= Slots
                                            THEN pressed ELSE Append(pressed, code), "done")
  /\ owner' = [owner EXCEPT ![code] = IF code \in mods' \cup ToSet(pressed') THEN c ELSE @]
  /\ UNCHANGED buttons

KeyUp(c, code) ==
  /\ Served(c)
  /\ \/ code \in Modifiers /\ SendsKeys(c, mods \ {code}, pressed, "done")
     \/ code \in Keys \ ToSet(pressed) /\ SendsKeys(c, mods, pressed, "done")
     \/ \E i \in DOMAIN pressed : pressed[i] = code /\ SendsKeys(c, mods, RemoveAt(pressed, i), "done")
  /\ owner' = [owner EXCEPT ![code] = "nobody"]
  /\ UNCHANGED buttons

(* release_all: the buttons are forgotten, but no mouse report is sent. *)
Releases(c) ==
  /\ SendsKeys(c, {}, <<>>, "done")
  /\ buttons' = {} /\ owner' = Nobody

ReleaseAll(c) == Served(c) /\ Releases(c)

(* A combo takes the place of whatever was pressed. *)
SendCombo(c, ms, ks) ==
  /\ Served(c)
  /\ SendsKeys(c, ms, ks, "combo")
  /\ owner' = [code \in Codes |-> IF code \in ms \cup ToSet(ks) THEN c ELSE "nobody"]
  /\ UNCHANGED buttons

MouseMove(c)     == Served(c) /\ SendsButtons(c, buttons, "done", "none")
MouseDown(c, b)  == Served(c) /\ SendsButtons(c, buttons \cup {b}, "done", "none")
MouseUp(c, b)    == Served(c) /\ SendsButtons(c, buttons \ {b}, "done", "none")
MouseClick(c, b) == Served(c) /\ SendsButtons(c, buttons \cup {b}, "click", b)

(* os.write in the pool, or its failure: the device is full, or has been      *)
(* closed by now.                                                            *)
Written(c) ==
  LET h == handler[c]
  IN  /\ h.at = "writing"
      /\ \/ /\ h.device = "keyboard" /\ typed' = h.report
            /\ UNCHANGED <<clicked, spoilt>>
         \/ /\ h.device = "mouse" /\ clicked' = h.report
            /\ UNCHANGED <<typed, spoilt>>
         \/ /\ spoilt' = (spoilt \/ h.device = "keyboard")
            /\ UNCHANGED <<typed, clicked>>
      /\ handler' = [handler EXCEPT ![c] = GoesOn(h)]
      /\ UNCHANGED <<open, mods, pressed, buttons, owner>>

(* Mutant: the second half of a combo forgets the keys and sends nothing. *)
WakesSilently(c) ==
  /\ handler[c].at = "asleep"
  /\ \/ /\ handler[c].then = "combo"
        /\ mods' = {} /\ pressed' = <<>> /\ buttons' = {} /\ owner' = Nobody
        /\ handler' = [handler EXCEPT ![c] = Idle]
        /\ UNCHANGED <<open, typed, clicked, spoilt>>
     \/ handler[c].then = "click"
        /\ SendsButtons(c, buttons \ {handler[c].button}, "done", "none")

Wakes(c) ==
  /\ handler[c].at = "asleep"
  /\ \/ handler[c].then = "combo" /\ Releases(c)
     \/ handler[c].then = "click"
        /\ SendsButtons(c, buttons \ {handler[c].button}, "done", "none")

-----------------------------------------------------------------------------
(* start(): new device objects, each of which opens or does not.  What is      *)
(* counted as pressed is kept; a report that an older object is writing may    *)
(* still arrive.                                                              *)
Start ==
  /\ open' \in SUBSET Devices
  /\ UNCHANGED <<mods, pressed, buttons, handler, typed, clicked, spoilt, owner>>

Stop ==
  /\ open' = {}
  /\ UNCHANGED <<mods, pressed, buttons, handler, typed, clicked, spoilt, owner>>

(* The browser goes, and another may come in its place: the handler, done      *)
(* with its last message, releases nothing.                                    *)
Disconnect(c) ==
  /\ Served(c)
  /\ owner' = [code \in Codes |-> IF owner[code] = c THEN "gone" ELSE owner[code]]
  /\ UNCHANGED <<open, mods, pressed, buttons, handler, typed, clicked, spoilt>>

(* The server ends, in order or not, and another starts: it counts nothing    *)
(* as pressed, and the host sees what it saw.                                 *)
Anew ==
  /\ mods' = {} /\ pressed' = <<>> /\ buttons' = {}
  /\ handler' = [c \in Clients |-> Idle]
  /\ open' \in SUBSET Devices
  /\ spoilt' = TRUE /\ owner' = Nobody
  /\ UNCHANGED <<typed, clicked>>

Init ==
  /\ mods = {} /\ pressed = <<>> /\ buttons = {}
  /\ handler = [c \in Clients |-> Idle]
  /\ open = {} /\ typed = {} /\ clicked = {}
  /\ spoilt = FALSE /\ owner = Nobody

(* handle_ws_message. *)
Message(c) ==
  \/ \E code \in Codes : KeyDown(c, code) \/ KeyUp(c, code)
  \/ ReleaseAll(c)
  \/ \E ms \in SUBSET Modifiers, k \in Keys : SendCombo(c, ms, <<k>>)
  \/ MouseMove(c)
  \/ \E b \in Buttons : MouseDown(c, b) \/ MouseUp(c, b) \/ MouseClick(c, b)

(* hid_websocket, and the life of the server. *)
Next ==
  \/ \E c \in Clients : Message(c) \/ Written(c) \/ Wakes(c) \/ Disconnect(c)
  \/ Start \/ Stop \/ Anew

Spec == Init /\ [][Next]_vars

-----------------------------------------------------------------------------
TypeOK ==
  /\ mods \subseteq Modifiers /\ pressed \in Seq(Keys) /\ Len(pressed) <= Slots
  /\ buttons \subseteq Buttons /\ typed \subseteq Codes /\ clicked \subseteq Buttons
  /\ spoilt \in BOOLEAN /\ open \subseteq Devices
  /\ owner \in [Codes -> Clients \cup {"nobody", "gone"}]

(* Between messages the host sees exactly the keys the manager counts as      *)
(* pressed, and each of them was pressed by some browser and released by none *)
(* since, whichever clients typed, pressed combos, released and went in       *)
(* between and however often the devices were closed and opened, unless the   *)
(* last report was lost, issued while another was being written, or sent by a *)
(* server that has ended.  The browser may be gone: its keys stay pressed     *)
(* until another releases them.                                               *)
QuietIsCurrent ==
  (\A c \in Clients : ~Writing(c, "keyboard")) /\ ~spoilt
     => /\ typed = mods \cup ToSet(pressed)
        /\ \A code \in typed : owner[code] # "nobody"
=============================================================================
