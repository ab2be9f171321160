\* Two handlers press buttons, two WebSocket clients type; a key more than the report has slots;
\* a terminal more than there may be sessions.
CONSTANTS
  Presses = {p1, p2}
  Clients = {c1, c2}
  Modifiers = {shift}
  Keys = {a, b}
  SpareKeys = {c}
  MouseButtons = {left}
  Terminals = {t1, t2, t3}
  Lines = {pwr, rst}
  Durations = {1, 3}
  LogMax = 2
  Wrap = 8
  Short = 2
  Long = 3
  Pulse = 1
  ChipSlots = 2
  GadgetSlots = 1
  OrangeSlots = 2
  Scripts <- SomeScripts
  Jsons <- SomeJsons
  MaxFaults = 1
  Damages = {1, 128}
  Corrupt <- Flipped
  Checksum <- Crc
  Requests = {r1, r2}
  MaxBridges = 2
  Patience = 2
  MaxGlitches = 2
  MaxSessions = 2
  MaxLeaks = 1
SPECIFICATION Spec
CHECK_DEADLOCK FALSE
INVARIANTS
  PartsTypeOK
  ReleasedAtRest
  KeysAccountedFor
  FramesSurvive
  FlashingIsClean
  NoOrphanShell
PROPERTIES
  PressLasts
  PressEnds
  FramesComeBack
