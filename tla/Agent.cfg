\* Two sessions with three children, two event clients, three calls of the ssh channel, two terminals, three requests of
\* the workload panel, two tasks and a plan run in the memory.
CONSTANTS
  Sessions = {s1, s2}
  Children = {c1, c2, c3}
  Clients = {k1, k2}
  Calls = {t1, t2, t3}
  Watchers = {w1, w2}
  Requests = {r1, r2, r3}
  MaxDeaths = 1
  History = 3
  Replay = 2
  MaxEvents = 4
  Burst = 2
  Loops = {1, 2}
  Services = {1, 2}
  Cooldown = 2
  MaxRestarts = 1
  BlackTimeout = 1
  ActsBySkill = TRUE
  MaxTime = 4
  MaxConnects = 2
  Steps = 3
  MaxServers = 3
  TaskIds = {a1, a2}
  RunIds = {p1}
  NoId = nobody
  ScanLimit = 1
  KeptFailures = 1
  MaxSaves = 4
  MaxLosses = 2
SPECIFICATION Spec
SYMMETRY PanelSymmetry
CHECK_DEADLOCK FALSE
INVARIANTS
  TypeOK
  SessionsFollow
  StreamIsGapless
  StopHolds
  RestartsAreSpaced
  NoSecondCopy
  AnswersItsStep
  WorkloadIsOne
  MemoryIsSound
PROPERTIES
  EndIsFinal
