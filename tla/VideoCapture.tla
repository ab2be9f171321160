---------------------------- MODULE VideoCapture ----------------------------
(***************************************************************************)
(* Video capture of the board (server/modules/video.py): the loop that opens  *)
(* the capture card and reads frames in a pool thread, the card, which may be *)
(* unplugged, and a viewer of the MJPEG stream.  Pictures are told apart by   *)
(* whether the card that took them is still plugged in.                       *)
(***************************************************************************)
EXTENDS Integers

CONSTANT MaxFaults \* bound: times a card that is plugged in cannot be opened or read,
                   \* or its picture not encoded

VARIABLES
  plugged,   \* the card (external)
  cap,       \* _cap: "none", "good", or "bad" since its card was unplugged
  connected, \* _connected
  running,   \* _running
  loop,      \* where _capture_loop is
  frame,     \* _frame: "none", "current" or "old"
  shown,     \* what the viewer was sent last
  faults

vars == <<plugged, cap, connected, running, loop, frame, shown, faults>>

(* start, at the start of the server. *)
Start ==
  /\ loop = "none" /\ ~running
  /\ running' = TRUE /\ loop' = "top"
  /\ UNCHANGED <<plugged, cap, connected, frame, shown, faults>>

(* stop, at its end: the loop notices later; what it opens meanwhile stays.   *)
Stop ==
  /\ running
  /\ running' = FALSE /\ cap' = "none" /\ connected' = FALSE
  /\ UNCHANGED <<plugged, loop, frame, shown, faults>>

Top ==
  /\ loop = "top"
  /\ loop' = IF ~running THEN "ended" ELSE IF connected THEN "reading" ELSE "opening"
  /\ UNCHANGED <<plugged, cap, connected, running, frame, shown, faults>>

Fault == faults < MaxFaults /\ faults' = faults + 1

(* _open_device, in a pool thread: what was open is released. *)
Opened ==
  /\ loop = "opening"
  /\ \/ /\ plugged
        /\ cap' = "good" /\ connected' = TRUE /\ loop' = "reading"
        /\ UNCHANGED faults
     \/ /\ IF plugged THEN Fault ELSE UNCHANGED faults
        /\ cap' = "bad" /\ connected' = FALSE /\ loop' = "sleeping"
  /\ UNCHANGED <<plugged, running, frame, shown>>

(* A frame was read, and is kept if it can be encoded. *)
Captured ==
  /\ loop = "reading" /\ cap = "good"
  /\ \/ frame' = "current" /\ UNCHANGED faults
     \/ Fault /\ UNCHANGED frame
  /\ loop' = "sleeping"
  /\ UNCHANGED <<plugged, cap, connected, running, shown>>

(* Mutant: a read that failed is tried again on the same device. *)
NotCapturedKeeps ==
  /\ loop = "reading"
  /\ IF cap = "good" THEN Fault ELSE UNCHANGED faults
  /\ loop' \in {"top", "sleeping"}
  /\ UNCHANGED <<plugged, cap, connected, running, frame, shown>>

(* It could not be read, which is tried again at once, or something raised.   *)
(* The last frame stays.                                                     *)
NotCaptured ==
  /\ loop = "reading"
  /\ IF cap = "good" THEN Fault ELSE UNCHANGED faults
  /\ connected' = FALSE
  /\ loop' \in {"top", "sleeping"}
  /\ UNCHANGED <<plugged, cap, running, frame, shown>>

Wakes ==
  /\ loop = "sleeping"
  /\ loop' = "top"
  /\ UNCHANGED <<plugged, cap, connected, running, frame, shown, faults>>

CaptureLoop == Top \/ Opened \/ Captured \/ NotCaptured \/ Wakes

(* mjpeg_stream: the frame there is, again and again; get_snapshot likewise.  *)
View ==
  /\ running /\ frame # "none" /\ shown # frame
  /\ shown' = frame
  /\ UNCHANGED <<plugged, cap, connected, running, loop, frame, faults>>

(* A card that was unplugged is another device when it comes back. *)
Ages(picture) == IF picture = "current" THEN "old" ELSE picture
Unplug ==
  /\ plugged
  /\ plugged' = FALSE
  /\ cap' = IF cap = "good" THEN "bad" ELSE cap
  /\ frame' = Ages(frame) /\ shown' = Ages(shown)
  /\ UNCHANGED <<connected, running, loop, faults>>

Plug ==
  /\ ~plugged
  /\ plugged' = TRUE
  /\ UNCHANGED <<cap, connected, running, loop, frame, shown, faults>>

Init ==
  /\ plugged \in BOOLEAN /\ cap = "none" /\ connected = FALSE /\ running = FALSE
  /\ loop = "none" /\ frame = "none" /\ shown = "none" /\ faults = 0

Next == Start \/ Stop \/ CaptureLoop \/ View \/ Unplug \/ Plug

(* The loop's task and the stream's generator are scheduled, and every read   *)
(* and sleep of theirs ends.                                                 *)
Fairness == WF_vars(Start) /\ WF_vars(CaptureLoop) /\ WF_vars(View)

Spec == Init /\ [][Next]_vars /\ Fairness

-----------------------------------------------------------------------------
TypeOK ==
  /\ plugged \in BOOLEAN /\ connected \in BOOLEAN /\ running \in BOOLEAN
  /\ cap \in {"none", "good", "bad"}
  /\ loop \in {"none", "top", "opening", "reading", "sleeping", "ended"}
  /\ frame \in {"none", "current", "old"} /\ shown \in {"none", "current", "old"}
  /\ faults \in 0..MaxFaults

(* Whatever happened to the card: once it stays plugged in, and the server    *)
(* runs, the viewer sees what it shows now, and keeps seeing that.            *)
FramesComeBack == <>[](running /\ plugged) => <>[](shown = "current")
=============================================================================
