------------------------------ MODULE ChipHid ------------------------------
(***************************************************************************)
(* The keyboard and mouse an ESP32-S3 presents to the managed host: class    *)
(* USBHIDManager of usb_hid.cpp, the same file in the firmware of the CM4     *)
(* bridge and in that of the ESP32-S3 host.  handleMessage runs one message   *)
(* to its end (a combo waits 50 ms inside), so an action is a message.        *)
(***************************************************************************)
EXTENDS Integers, Sequences, SequencesExt

CONSTANTS
  Modifiers, \* codes in MODIFIER_MAP
  Keys,      \* codes in KEY_MAP
  Buttons,   \* mouse buttons: 0, 2 and any other
  Slots      \* _pressedKeys has 6

VARIABLES
  mods,    \* _modifierState
  pressed, \* _pressedKeys[0 .. _pressedKeyCount - 1]
  report,  \* the codes in the last keyboard report
  flashed, \* the codes in the reports of the last message, the last one excepted
  buttons, \* the mouse buttons the host sees pressed
  holding  \* history: the codes the browser has pressed and not released

vars == <<mods, pressed, report, flashed, buttons, holding>>

Codes == Modifiers \cup Keys

(* _sendKeyboardReport: the target sees the modifiers and the keys in slots. *)
Report(m, k) == m \cup ToSet(k)

Sends(m, k) ==
  /\ mods' = m /\ pressed' = k
  /\ report' = Report(m, k) /\ flashed' = {}

(* keyDown: a key that is down, or finds no free slot, is not added; the      *)
(* report is sent all the same.                                              *)
KeyDown(code) ==
  /\ IF code \in Modifiers
     THEN Sends(mods \cup {code}, pressed)
     ELSE Sends(mods, IF Len(pressed) < Slots /\ code \notin ToSet(pressed)
                      THEN Append(pressed, code) ELSE pressed)
  /\ holding' = holding \cup {code}
  /\ UNCHANGED buttons

(* Mutant: the keys behind the released one are not shifted down. *)
KeyUpUnshifted(code) ==
  /\ IF code \in Modifiers
     THEN Sends(mods \ {code}, pressed)
     ELSE Sends(mods, IF code \in ToSet(pressed) THEN Front(pressed) ELSE pressed)
  /\ holding' = holding \ {code}
  /\ UNCHANGED buttons

(* keyUp: the keys behind the released one are shifted down. *)
KeyUp(code) ==
  /\ \/ code \in Modifiers /\ Sends(mods \ {code}, pressed)
     \/ code \notin Modifiers /\ code \notin ToSet(pressed) /\ Sends(mods, pressed)
     \/ /\ code \notin Modifiers
        /\ \E i \in DOMAIN pressed : pressed[i] = code /\ Sends(mods, RemoveAt(pressed, i))
  /\ holding' = holding \ {code}
  /\ UNCHANGED buttons

(* releaseAllKeys: the mouse is moved by nothing, which releases no button,   *)
(* whatever _mouseButtons is set to.                                         *)
ReleaseAllKeys ==
  /\ Sends({}, <<>>)
  /\ holding' = {}
  /\ UNCHANGED buttons

(* sendCombo: press, wait, release; then the state from before the combo is   *)
(* restored without a report.                                                *)
SendCombo(ms, ks) ==
  /\ report' = {}
  /\ flashed' = Report(ms, SubSeq(ks, 1, IF Len(ks) < Slots THEN Len(ks) ELSE Slots))
  /\ UNCHANGED <<mods, pressed, buttons, holding>>

MouseDown(b) ==
  /\ buttons' = buttons \cup {b}
  /\ UNCHANGED <<mods, pressed, report, flashed, holding>>

MouseUp(b) ==
  /\ buttons' = buttons \ {b}
  /\ UNCHANGED <<mods, pressed, report, flashed, holding>>

Init ==
  /\ mods = {} /\ pressed = <<>> /\ report = {} /\ flashed = {}
  /\ buttons = {} /\ holding = {}

(* handleMessage; "mousemove" and "wheel" move the pointer and change nothing *)
(* else, "click" is a press and a release.                                    *)
Next ==
  \/ \E code \in Codes : KeyDown(code) \/ KeyUp(code)
  \/ ReleaseAllKeys
  \/ \E ms \in SUBSET Modifiers, k1, k2 \in Keys : SendCombo(ms, <<k1, k2>>)
  \/ \E b \in Buttons : MouseDown(b) \/ MouseUp(b)

Spec == Init /\ [][Next]_vars

-----------------------------------------------------------------------------
TypeOK ==
  /\ mods \subseteq Modifiers /\ pressed \in Seq(Keys) /\ Len(pressed) <= Slots
  /\ report \subseteq Codes /\ flashed \subseteq Codes
  /\ buttons \subseteq Buttons /\ holding \subseteq Codes

(* After a message the host sees no key that the browser does not hold, and   *)
(* the state kept for the next report has none either, whatever keys found no *)
(* slot and whatever combos came in between.                                  *)
NoKeyLeftDown == report \cup mods \cup ToSet(pressed) \subseteq holding
=============================================================================
