-------------------------------- MODULE Host --------------------------------
(***************************************************************************)
(* The components of the host side.  They share no state, so their product    *)
(* would show nothing their parts do not: a behaviour picks one of them in    *)
(* its initial state and only that one moves.                                 *)
(***************************************************************************)
EXTENDS Integers, Sequences

CONSTANTS
  Lines, Presses, Durations, LogMax,        \* PowerButton
  Wrap, Short, Long, Pulse,                 \* EspHost
  Modifiers, Keys, SpareKeys, MouseButtons, \* the keyboards
  ChipSlots, GadgetSlots, OrangeSlots, Clients,
  Scripts, Jsons, MaxFaults, Damages, Corrupt(_, _), Checksum(_), \* HidFrames
  Requests, MaxBridges, Patience,           \* HidLink
  MaxGlitches,                              \* VideoCapture
  Terminals, MaxSessions, MaxLeaks          \* WebTerminal

(* Limits and times are numbers; no press of the ESP32-S3 is longer than the  *)
(* one that forces the power off; no code is in both tables of hid.py.        *)
ASSUME HostConstants ==
  /\ Durations \subseteq Int
  /\ Modifiers \cap Keys = {} /\ Clients \cap {"nobody", "gone"} = {}
  /\ Wrap \in Nat \ {0} /\ Short \in Nat /\ Long \in Nat /\ Pulse \in Nat
  /\ Short <= Long /\ Pulse <= Long
  /\ ChipSlots \in Nat /\ GadgetSlots \in Nat \ {0} /\ OrangeSlots \in Nat \ {0}
  /\ MaxBridges \in Nat \ {0} /\ Patience \in Nat
  /\ MaxSessions \in Nat /\ LogMax \in Nat \ {0}
  /\ MaxGlitches \in Nat /\ MaxLeaks \in Nat /\ MaxFaults \in Nat

VARIABLES
  focus,
  server, usable, level, press, failed, actions,               \* PowerButton
  network, line, pulse, now, web, loop, age, due, raced,       \* EspHost
  mods, pressed, report, flashed, buttons, holding,            \* ChipHid
  gOpen, gMods, gPressed, gButtons, handler, typed, clicked, spoilt, owner, \* GadgetHid
  oServer, open, oMods, oPressed, held, message, seen, unclean,\* OrangeHid
  script, sent, wire, parser, handled, place, replies, faults, silent, \* HidFrames
  bridge, current, request, select, chip, crossed, cut,        \* HidLink
  plugged, cap, connected, capturing, capture, frame, shown, glitches, \* VideoCapture
  serving, consoles, readers, sessions, shells, ptys, leaked   \* WebTerminal

Power  == INSTANCE PowerButton WITH Buttons <- Lines

Esp    == INSTANCE EspHost

Chip   == INSTANCE ChipHid WITH Keys <- Keys \cup SpareKeys, Buttons <- MouseButtons,
                                Slots <- ChipSlots
Gadget == INSTANCE GadgetHid WITH open <- gOpen, mods <- gMods, pressed <- gPressed, buttons <- gButtons,
                                  Buttons <- MouseButtons, Slots <- GadgetSlots
Orange == INSTANCE OrangeHid WITH server <- oServer, mods <- oMods, pressed <- oPressed,
                                  Keys <- Keys \cup SpareKeys, Buttons <- MouseButtons,
                                  Slots <- OrangeSlots

Frames == INSTANCE HidFrames
Link   == INSTANCE HidLink

ASSUME FrameConstants == Frames!ScriptsOK

Video    == INSTANCE VideoCapture WITH running <- capturing, loop <- capture, faults <- glitches,
                                       MaxFaults <- MaxGlitches

Terminal == INSTANCE WebTerminal WITH Conns <- Terminals, running <- serving, handler <- consoles,
                                      reader <- readers, shell <- shells, pty <- ptys

powerVars  == <<server, usable, level, press, failed, actions>>
espVars    == <<network, line, pulse, now, web, loop, age, due, raced>>
chipVars   == <<mods, pressed, report, flashed, buttons, holding>>
gadgetVars == <<gOpen, gMods, gPressed, gButtons, handler, typed, clicked, spoilt, owner>>
orangeVars == <<oServer, open, oMods, oPressed, held, message, seen, unclean>>
framesVars == <<script, sent, wire, parser, handled, place, replies, faults, silent>>
linkVars   == <<bridge, current, request, select, chip, crossed, cut>>
videoVars  == <<plugged, cap, connected, capturing, capture, frame, shown, glitches>>
termVars   == <<serving, consoles, readers, sessions, shells, ptys, leaked>>

vars == <<focus, powerVars, espVars, chipVars, gadgetVars, orangeVars, framesVars, linkVars,
          videoVars, termVars>>

Parts == {"power", "esp", "chip", "gadget", "orange", "frames", "link", "video", "terminal"}

PartsInit ==
  /\ Power!Init /\ Esp!Init /\ Chip!Init /\ Gadget!Init /\ Orange!Init
  /\ Frames!Init /\ Link!Init /\ Video!Init /\ Terminal!Init
  (* The idle parts start in one of their initial states only. *)
  /\ focus # "power"  => level = [b \in Lines |-> 0]
  /\ focus # "esp"    => network
  /\ focus # "frames" => script = 1
  /\ focus # "link"   => bridge[1].open
  /\ focus # "video"  => plugged

Init == focus \in Parts /\ PartsInit

NotPower  == UNCHANGED powerVars
NotEsp    == UNCHANGED espVars
NotKeys   == UNCHANGED <<chipVars, gadgetVars, orangeVars>>
NotSerial == UNCHANGED <<framesVars, linkVars>>
NotBoard  == UNCHANGED <<videoVars, termVars>>

NextDevices ==
  /\ UNCHANGED focus
  /\ \/ focus = "power"  /\ Power!Next  /\ NotEsp   /\ NotKeys /\ NotSerial
     \/ focus = "esp"    /\ Esp!Next    /\ NotPower /\ NotKeys /\ NotSerial
     \/ focus = "chip"   /\ Chip!Next   /\ NotPower /\ NotEsp  /\ NotSerial
                         /\ UNCHANGED <<gadgetVars, orangeVars>>
     \/ focus = "gadget" /\ Gadget!Next /\ NotPower /\ NotEsp  /\ NotSerial
                         /\ UNCHANGED <<chipVars, orangeVars>>
     \/ focus = "orange" /\ Orange!Next /\ NotPower /\ NotEsp  /\ NotSerial
                         /\ UNCHANGED <<chipVars, gadgetVars>>
     \/ focus = "frames" /\ Frames!Next /\ NotPower /\ NotEsp  /\ NotKeys
                         /\ UNCHANGED linkVars
     \/ focus = "link"   /\ Link!Next   /\ NotPower /\ NotEsp  /\ NotKeys
                         /\ UNCHANGED framesVars
  /\ NotBoard

NextBoard ==
  /\ UNCHANGED focus /\ NotPower /\ NotEsp /\ NotKeys /\ NotSerial
  /\ \/ focus = "video"    /\ Video!Next    /\ UNCHANGED termVars
     \/ focus = "terminal" /\ Terminal!Next /\ UNCHANGED videoVars

Next == NextDevices \/ NextBoard

(* The tasks of the ESP32-S3 host and of the capture run (EspHost and          *)
(* VideoCapture, Fairness), when theirs is the part that moves.                *)
Fairness ==
  /\ WF_espVars(focus = "esp" /\ Esp!Web)
  /\ WF_espVars(focus = "esp" /\ Esp!Loop)
  /\ WF_espVars(focus = "esp" /\ Esp!Tick)
  /\ WF_videoVars(focus = "video" /\ Video!Start)
  /\ WF_videoVars(focus = "video" /\ Video!CaptureLoop)
  /\ WF_videoVars(focus = "video" /\ Video!View)

Spec == Init /\ [][Next]_vars /\ Fairness

-----------------------------------------------------------------------------
(* The variables of every component keep their types. *)
PartsTypeOK ==
  /\ Power!TypeOK /\ Esp!TypeOK /\ Chip!TypeOK /\ Gadget!TypeOK /\ Orange!TypeOK
  /\ Frames!TypeOK /\ Link!TypeOK /\ Video!TypeOK /\ Terminal!TypeOK

(* gpio_ctrl.py: no button stays pressed when nobody presses it. *)
ReleasedAtRest == Power!ReleasedAtRest

(* gpio_ctrl.cpp: a press is not cut short by another request, and ends,      *)
(* unless update() looked at it while it was being started.                   *)
PressLasts == Esp!PressLasts
PressEnds  == Esp!PressEnds

(* usb_hid.cpp, and hid.py of both boards: every key the host sees pressed is  *)
(* accounted for.  On the chip, a browser pressed it and has not released it.  *)
(* On the CM4's gadget, the same, browsers that went since included, unless    *)
(* the last report was lost, overtaken or sent by a server that has ended.  On  *)
(* the Orange Pi, the server counts it as pressed, and none is after an        *)
(* orderly stop, unless a report was lost or the server died.                  *)
KeysAccountedFor == Chip!NoKeyLeftDown /\ Gadget!QuietIsCurrent /\ Orange!StopReleasesKeys

(* main.cpp of the bridge: frames are taken whole and in order, all of them    *)
(* when nothing went wrong, and the parser finds back after a fault of the     *)
(* line.                                                                     *)
FramesAreWhole == Frames!LosslessIsWhole
FramesSurvive  == FramesAreWhole /\ Frames!HandledInOrder /\ Frames!FaultPasses

(* esp32_flasher.py: the chip is back in its application when no flash or      *)
(* reset is under way, unless a flash was cut short in between, and esptool    *)
(* had the port for itself, unless another request overlapped or the recovery *)
(* of a flash that could not close the link had replaced it.                  *)
FlashingIsClean == Link!ChipIsBack /\ Link!EsptoolOwnsPort

(* video.py: the picture comes back with the card. *)
FramesComeBack == focus = "video" => Video!FramesComeBack

(* terminal.py: no shell, PTY or reader outlives its connection. *)
NoOrphanShell == Terminal!NoOrphanShell
=============================================================================
