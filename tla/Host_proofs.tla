---------------------------- MODULE Host_proofs -----------------------------
(* The invariants of the components of the host side, for every value of the  *)
(* constants.  A step of the composition is a step of a component or leaves   *)
(* its variables alone, so what a component keeps the composition keeps.      *)
EXTENDS Host, FiniteSetTheorems, SequenceTheorems, TLAPS

-----------------------------------------------------------------------------
(* The power and reset buttons: gpio_ctrl.py.                                 *)

PowerPress == [at : {"none", "rising", "held", "falling"}, on : Lines \cup {"none"}, left : Int]

PowerTypes ==
  /\ server \in {"down", "up"}
  /\ usable \in [Lines -> BOOLEAN]
  /\ level \in [Lines -> {0, 1}]
  /\ press \in [Presses -> PowerPress]
  /\ \A p \in Presses : press[p].at # "none" => press[p].on \in Lines
  /\ server = "down" => \A p \in Presses : ~Power!Busy(p)

(* The property is inductive as it stands, given the types: a press that ends *)
(* leaves its line low or marked as failed.                                  *)
PowerInv == PowerTypes /\ Power!ReleasedAtRest

LEMMA PowerIdleIsPress == Power!Idle \in PowerPress /\ Power!Idle.at = "none"
BY DEF Power!Idle, PowerPress

LEMMA PowerInvInit ==
  ASSUME Power!Init
  PROVE  PowerInv
<1>1. PowerTypes
  BY PowerIdleIsPress DEF Power!Init, PowerTypes, Power!Busy
<1>2. Power!ReleasedAtRest
  BY DEF Power!Init, Power!ReleasedAtRest
<1> QED
  BY <1>1, <1>2 DEF PowerInv

(* A step of one press: the others are as they were. *)
LEMMA PowerOnePress ==
  ASSUME PowerTypes, server = "up", UNCHANGED <<server, usable>>, NEW p \in Presses, NEW k \in PowerPress,
         press' = [press EXCEPT ![p] = k], k.at # "none" => k.on \in Lines,
         level' \in [Lines -> {0, 1}]
  PROVE  /\ PowerTypes'
         /\ \A q \in Presses : q # p => press'[q] = press[q] /\ (Power!Busy(q) <=> Power!Busy(q)')
         /\ press'[p] = k
BY DEF PowerTypes, Power!Busy

(* A line that is low, or whose press goes on, stays accounted for. *)
LEMMA PowerStillPressed ==
  ASSUME Power!ReleasedAtRest, server' = server, failed \subseteq failed',
         \A b \in Lines : b \notin failed' /\ level'[b] # 0 =>
           \/ level[b] # 0 /\ \A p \in Presses : Power!Busy(p) /\ press[p].on = b =>
                                Power!Busy(p)' /\ press'[p].on = b
           \/ \E p \in Presses : Power!Busy(p)' /\ press'[p].on = b
  PROVE  Power!ReleasedAtRest'
BY DEF Power!ReleasedAtRest

LEMMA PowerInvStep ==
  ASSUME Durations \subseteq Int, PowerInv, [Power!Next]_(Power!vars)
  PROVE  PowerInv'
<1>0. /\ PowerTypes
      /\ \A p \in Presses : press[p] \in PowerPress /\ (press[p].at # "none" => press[p].on \in Lines)
      /\ \A p \in Presses : Power!Busy(p) => server # "down"
  BY DEF PowerInv, PowerTypes
<1>1. CASE Power!Setup
  <2>1. PowerTypes'
    BY <1>0, <1>1 DEF Power!Setup, PowerTypes, Power!Busy
  <2>2. Power!ReleasedAtRest'
    BY <1>0, <1>1 DEF Power!Setup, Power!ReleasedAtRest, PowerTypes
  <2> QED
    BY <2>1, <2>2 DEF PowerInv
<1>2. CASE Power!Tick
  <2>1. \A p \in Presses : /\ press'[p] \in PowerPress /\ press'[p].on = press[p].on
                           /\ Power!Busy(p) <=> Power!Busy(p)'
                           /\ press'[p].at # "none" => press[p].at # "none"
    <3> TAKE p \in Presses
    <3>1. press[p] \in PowerPress
      BY <1>0
    <3>2. CASE press[p].at # "held"
      BY <1>2, <3>1, <3>2 DEF Power!Tick, Power!Busy
    <3>3. CASE press[p].at = "held" /\ press[p].left > 1
      <4>1. press'[p] = [press[p] EXCEPT !.left = press[p].left - 1]
        BY <1>2, <3>3 DEF Power!Tick
      <4>2. press[p].left - 1 \in Int
        BY <3>1 DEF PowerPress
      <4> QED
        BY <3>1, <3>3, <4>1, <4>2 DEF PowerPress, Power!Busy
    <3>4. CASE press[p].at = "held" /\ ~(press[p].left > 1)
      <4>1. press'[p] = [press[p] EXCEPT !.at = "falling", !.left = 0]
        BY <1>2, <3>4 DEF Power!Tick
      <4>2. press[p].at = "held" /\ 0 \in Int
        BY <3>4
      <4> QED
        BY <3>1, <4>1, <4>2 DEF PowerPress, Power!Busy
    <3> QED
      BY <3>2, <3>3, <3>4
  <2>2. press' \in [Presses -> PowerPress]
    BY <1>2, <2>1 DEF Power!Tick
  <2>3. PowerTypes'
    BY <1>0, <1>2, <2>1, <2>2 DEF Power!Tick, PowerTypes
  <2>4. Power!ReleasedAtRest'
    <3>1. Power!ReleasedAtRest /\ UNCHANGED <<server, level, failed>>
      BY <1>2 DEF Power!Tick, PowerInv
    <3> QED
      BY <2>1, <3>1, PowerStillPressed
  <2> QED
    BY <2>3, <2>4 DEF PowerInv
<1>3. CASE Power!Cleanup
  <2>1. PowerTypes'
    BY <1>0, <1>3, PowerIdleIsPress DEF Power!Cleanup, PowerTypes, Power!Busy
  <2>2. Power!ReleasedAtRest'
    BY <1>3 DEF Power!Cleanup, Power!ReleasedAtRest
  <2> QED
    BY <2>1, <2>2 DEF PowerInv
<1>4. CASE Power!Crash
  <2>1. PowerTypes'
    BY <1>0, <1>4, PowerIdleIsPress DEF Power!Crash, PowerTypes, Power!Busy
  <2>2. Power!ReleasedAtRest'
    BY <1>4 DEF Power!Crash, Power!ReleasedAtRest
  <2> QED
    BY <2>1, <2>2 DEF PowerInv
<1>5. ASSUME NEW p \in Presses, Power!Rise(p)
      PROVE  PowerInv'
  <2> DEFINE k == [press[p] EXCEPT !.at = "held"]
  <2>1. k \in PowerPress /\ k.at = "held" /\ k.on = press[p].on /\ press[p].on \in Lines
    BY <1>0, <1>5 DEF Power!Rise, PowerPress
  <2>2. /\ press' = [press EXCEPT ![p] = k] /\ server = "up" /\ UNCHANGED <<server, usable, failed>>
        /\ level' = [level EXCEPT ![press[p].on] = 1] /\ level' \in [Lines -> {0, 1}]
    <3>1. Power!Busy(p) /\ (server = "down" => ~Power!Busy(p))
      BY <1>0, <1>5 DEF Power!Rise, Power!Busy
    <3> QED
      BY <1>0, <1>5, <2>1, <3>1 DEF Power!Rise, Power!Write, PowerTypes
  <2> HIDE DEF k
  <2>3. /\ PowerTypes' /\ press'[p] = k
        /\ \A q \in Presses : q # p => press'[q] = press[q] /\ (Power!Busy(q) <=> Power!Busy(q)')
    BY <1>0, <2>1, <2>2, PowerOnePress
  <2>4. Power!ReleasedAtRest'
    <3>1. Power!Busy(p)'
      BY <2>1, <2>3 DEF Power!Busy
    <3>2. \A b \in Lines : level'[b] # 0 => level[b] # 0 \/ b = press[p].on
      BY <1>0, <2>1, <2>2 DEF PowerTypes
    <3>3. \A b \in Lines : b # press[p].on =>
            \A q \in Presses : Power!Busy(q) /\ press[q].on = b => Power!Busy(q)' /\ press'[q].on = b
      BY <2>3
    <3> QED
      BY <2>1, <2>2, <2>3, <3>1, <3>2, <3>3, PowerStillPressed DEF PowerInv
  <2> QED
    BY <2>3, <2>4 DEF PowerInv
<1>6. ASSUME NEW p \in Presses, Power!Fall(p)
      PROVE  PowerInv'
  <2>1. Power!Idle \in PowerPress /\ Power!Idle.at = "none" /\ press[p].on \in Lines
    BY <1>0, <1>6, PowerIdleIsPress DEF Power!Fall
  <2>2. /\ press' = [press EXCEPT ![p] = Power!Idle] /\ server = "up" /\ UNCHANGED <<server, usable, failed>>
        /\ level' = [level EXCEPT ![press[p].on] = 0] /\ level' \in [Lines -> {0, 1}]
    <3>1. Power!Busy(p) /\ (server = "down" => ~Power!Busy(p))
      BY <1>0, <1>6 DEF Power!Fall, Power!Busy
    <3> QED
      BY <1>0, <1>6, <2>1, <3>1 DEF Power!Fall, Power!Write, PowerTypes
  <2>3. /\ PowerTypes'
        /\ \A q \in Presses : q # p => press'[q] = press[q] /\ (Power!Busy(q) <=> Power!Busy(q)')
    BY <1>0, <2>1, <2>2, PowerOnePress
  <2>4. Power!ReleasedAtRest'
    <3>1. \A b \in Lines : level'[b] # 0 => level[b] # 0 /\ b # press[p].on
      BY <1>0, <2>1, <2>2 DEF PowerTypes
    <3>2. \A b \in Lines : b # press[p].on =>
            \A q \in Presses : Power!Busy(q) /\ press[q].on = b => Power!Busy(q)' /\ press'[q].on = b
      BY <2>3
    <3> QED
      BY <2>2, <3>1, <3>2, PowerStillPressed DEF PowerInv
  <2> QED
    BY <2>3, <2>4 DEF PowerInv
<1>7. ASSUME NEW p \in Presses, Power!WriteFails(p)
      PROVE  PowerInv'
  <2>1. Power!Idle \in PowerPress /\ Power!Idle.at = "none" /\ press[p].on \in Lines
    BY <1>0, <1>7, PowerIdleIsPress DEF Power!WriteFails
  <2>2. /\ press' = [press EXCEPT ![p] = Power!Idle] /\ server = "up" /\ UNCHANGED <<server, usable, level>>
        /\ failed' = failed \cup {press[p].on} /\ level' \in [Lines -> {0, 1}]
    <3>1. Power!Busy(p) /\ (server = "down" => ~Power!Busy(p))
      BY <1>0, <1>7 DEF Power!WriteFails, Power!Busy
    <3> QED
      BY <1>0, <1>7, <3>1 DEF Power!WriteFails, PowerTypes
  <2>3. /\ PowerTypes'
        /\ \A q \in Presses : q # p => press'[q] = press[q] /\ (Power!Busy(q) <=> Power!Busy(q)')
    BY <1>0, <2>1, <2>2, PowerOnePress
  <2>4. Power!ReleasedAtRest'
    <3>1. \A b \in Lines : b # press[p].on =>
            \A q \in Presses : Power!Busy(q) /\ press[q].on = b => Power!Busy(q)' /\ press'[q].on = b
      BY <2>3
    <3> QED
      BY <2>2, <3>1, PowerStillPressed DEF PowerInv
  <2> QED
    BY <2>3, <2>4 DEF PowerInv
<1>8. ASSUME NEW p \in Presses, NEW b \in Lines, NEW ticks \in Durations, Power!Request(p, b, ticks)
      PROVE  PowerInv'
  <2>1. server = "up" /\ ~Power!Busy(p) /\ UNCHANGED <<server, usable, level, failed>>
        /\ level' \in [Lines -> {0, 1}]
    BY <1>0, <1>8, PowerIdleIsPress DEF Power!Request, Power!Busy, PowerTypes
  <2>2. CASE ~usable[b]
    <3>1. press' = press
      BY <1>8, <2>2 DEF Power!Request
    <3>2. PowerTypes'
      BY <1>0, <2>1, <3>1 DEF PowerTypes, Power!Busy
    <3>3. Power!ReleasedAtRest'
      BY <2>1, <3>1 DEF Power!ReleasedAtRest, PowerInv, Power!Busy
    <3> QED
      BY <3>2, <3>3 DEF PowerInv
  <2>3. CASE usable[b]
    <3> DEFINE k == [at |-> "rising", on |-> b, left |-> ticks]
    <3>1. k \in PowerPress /\ k.on \in Lines /\ press' = [press EXCEPT ![p] = k]
      BY <1>8, <2>3 DEF Power!Request, PowerPress
    <3> HIDE DEF k
    <3>2. /\ PowerTypes'
          /\ \A q \in Presses : q # p => press'[q] = press[q] /\ (Power!Busy(q) <=> Power!Busy(q)')
      BY <1>0, <2>1, <3>1, PowerOnePress
    <3>3. \A q \in Presses : Power!Busy(q) => Power!Busy(q)' /\ press'[q] = press[q]
      BY <2>1, <3>2
    <3>4. Power!ReleasedAtRest'
      BY <2>1, <3>3, PowerStillPressed DEF PowerInv
    <3> QED
      BY <3>2, <3>4 DEF PowerInv
  <2> QED
    BY <2>2, <2>3
<1>9. CASE UNCHANGED Power!vars
  BY <1>9 DEF Power!vars, PowerInv, PowerTypes, Power!ReleasedAtRest, Power!Busy
<1> QED
  BY <1>1, <1>2, <1>3, <1>4, <1>5, <1>6, <1>7, <1>8, <1>9 DEF Power!Next, Power!Handler

LEMMA PowerMoves == [Next]_vars => [Power!Next]_(Power!vars)
BY DEF Next, NextDevices, NextBoard, NotPower, vars, powerVars, Power!vars

(* gpio_ctrl.py: however many presses of however many buttons overlap, fail   *)
(* or are cut off by the end of the server, a line nobody is pressing is low  *)
(* while the server runs, unless a write to it failed.                       *)
THEOREM ButtonsReleased == Spec => []ReleasedAtRest
<1>1. Init => PowerInv
  BY PowerInvInit, HostConstants DEF Init, PartsInit
<1>2. PowerInv /\ [Next]_vars => PowerInv'
  BY PowerInvStep, PowerMoves, HostConstants
<1>3. PowerInv => ReleasedAtRest
  BY DEF PowerInv, ReleasedAtRest
<1> QED
  BY <1>1, <1>2, <1>3, PTL DEF Spec

-----------------------------------------------------------------------------
(* The web terminal: terminal.py.                                             *)

TerminalTypes ==
  /\ serving \in BOOLEAN
  /\ consoles \in [Terminals -> {"none", "accepted", "open", "closed"}]
  /\ readers \in [Terminals -> {"none", "reading", "ended"}]
  /\ shells \in [Terminals -> {"none", "alive", "gone"}]
  /\ sessions \subseteq Terminals /\ IsFiniteSet(sessions)

(* A session is there exactly while its handler is open, until the server     *)
(* ends; what belongs to it is not there without it.                         *)
TerminalOwned ==
  /\ ptys = sessions
  /\ serving \/ sessions = {}
  /\ \A c \in Terminals :
       /\ serving => (c \in sessions <=> consoles[c] = "open")
       /\ serving /\ readers[c] = "reading" => c \in sessions
       /\ shells[c] = "alive" => c \in sessions

TerminalInv == TerminalTypes /\ TerminalOwned /\ Cardinality(sessions) <= MaxSessions

(* The number of sessions is the same whichever module counts them. *)
LEMMA TerminalCounts ==
  ASSUME NEW S
  PROVE  Terminal!Cardinality(S) = Cardinality(S)
BY DEF Terminal!Cardinality, Cardinality, Terminal!IsFiniteSet, IsFiniteSet

LEMMA TerminalInvHolds ==
  ASSUME MaxSessions \in Nat, TerminalInv
  PROVE  Terminal!NoOrphanShell
BY TerminalCounts DEF TerminalInv, TerminalTypes, TerminalOwned, Terminal!NoOrphanShell

LEMMA TerminalInvInit ==
  ASSUME MaxSessions \in Nat, Terminal!Init
  PROVE  TerminalInv
<1>1. IsFiniteSet({}) /\ Cardinality({}) = 0
  BY FS_EmptySet
<1> QED
  BY <1>1 DEF Terminal!Init, TerminalInv, TerminalTypes, TerminalOwned

(* A session more stays within the limit, one less as well. *)
LEMMA TerminalSessionAdded ==
  ASSUME MaxSessions \in Nat, TerminalInv, NEW c \in Terminals, Cardinality(sessions) < MaxSessions
  PROVE  /\ IsFiniteSet(sessions \cup {c})
         /\ Cardinality(sessions \cup {c}) <= MaxSessions
<1>1. IsFiniteSet(sessions) /\ Cardinality(sessions) \in Nat
  BY FS_CardinalityType DEF TerminalInv, TerminalTypes
<1>2. /\ IsFiniteSet(sessions \cup {c})
      /\ Cardinality(sessions \cup {c}) \in {Cardinality(sessions), Cardinality(sessions) + 1}
  BY <1>1, FS_AddElement
<1> QED
  BY <1>1, <1>2

LEMMA TerminalSessionRemoved ==
  ASSUME MaxSessions \in Nat, TerminalInv, NEW c \in Terminals
  PROVE  /\ IsFiniteSet(sessions \ {c})
         /\ Cardinality(sessions \ {c}) <= MaxSessions
<1>1. IsFiniteSet(sessions) /\ Cardinality(sessions) \in Nat
  BY FS_CardinalityType DEF TerminalInv, TerminalTypes
<1>2. /\ IsFiniteSet(sessions \ {c})
      /\ Cardinality(sessions \ {c}) \in {Cardinality(sessions), Cardinality(sessions) - 1}
  BY <1>1, FS_RemoveElement
<1> QED
  BY <1>1, <1>2 DEF TerminalInv

LEMMA TerminalInvStep ==
  ASSUME MaxSessions \in Nat, TerminalInv, [Terminal!Next]_(Terminal!vars)
  PROVE  TerminalInv'
<1>1. ASSUME NEW c \in Terminals, Terminal!Connect(c)
      PROVE  TerminalInv'
  BY <1>1 DEF Terminal!Connect, TerminalInv, TerminalTypes, TerminalOwned
<1>2. ASSUME NEW c \in Terminals, Terminal!Create(c)
      PROVE  TerminalInv'
  <2>1. IsFiniteSet(sessions') /\ Cardinality(sessions') <= MaxSessions
    BY <1>2, TerminalSessionAdded, TerminalCounts DEF Terminal!Create
  <2>2. TerminalTypes' /\ TerminalOwned'
    BY <1>2, <2>1 DEF Terminal!Create, TerminalInv, TerminalTypes, TerminalOwned
  <2> QED
    BY <2>1, <2>2 DEF TerminalInv
<1>3. ASSUME NEW c \in Terminals, Terminal!CreateFails(c)
      PROVE  TerminalInv'
  BY <1>3 DEF Terminal!CreateFails, TerminalInv, TerminalTypes, TerminalOwned
<1>4. ASSUME NEW c \in Terminals, Terminal!ReaderEnds(c)
      PROVE  TerminalInv'
  BY <1>4 DEF Terminal!ReaderEnds, TerminalInv, TerminalTypes, TerminalOwned
<1>5. ASSUME NEW c \in Terminals, Terminal!ShellExits(c)
      PROVE  TerminalInv'
  BY <1>5 DEF Terminal!ShellExits, TerminalInv, TerminalTypes, TerminalOwned
<1>6. ASSUME NEW c \in Terminals, Terminal!Disconnect(c)
      PROVE  TerminalInv'
  <2>1. IsFiniteSet(sessions') /\ Cardinality(sessions') <= MaxSessions
    BY <1>6, TerminalSessionRemoved DEF Terminal!Disconnect, Terminal!CloseSession
  <2>2. TerminalTypes'
    BY <1>6, <2>1 DEF Terminal!Disconnect, Terminal!CloseSession, TerminalInv, TerminalTypes
  <2>3. TerminalOwned'
    BY <1>6 DEF Terminal!Disconnect, Terminal!CloseSession, TerminalInv, TerminalTypes, TerminalOwned
  <2> QED
    BY <2>1, <2>2, <2>3 DEF TerminalInv
<1>7. ASSUME Terminal!Shutdown
      PROVE  TerminalInv'
  <2>1. IsFiniteSet(sessions') /\ Cardinality(sessions') = 0
    BY <1>7, FS_EmptySet DEF Terminal!Shutdown
  <2>2. TerminalTypes' /\ TerminalOwned'
    BY <1>7, <2>1 DEF Terminal!Shutdown, TerminalInv, TerminalTypes, TerminalOwned
  <2> QED
    BY <2>1, <2>2 DEF TerminalInv
<1>8. CASE UNCHANGED Terminal!vars
  BY <1>8 DEF Terminal!vars, TerminalInv, TerminalTypes, TerminalOwned
<1> QED
  BY <1>1, <1>2, <1>3, <1>4, <1>5, <1>6, <1>7, <1>8 DEF Terminal!Next

LEMMA TerminalMoves == [Next]_vars => [Terminal!Next]_(Terminal!vars)
BY DEF Next, NextDevices, NextBoard, NotBoard, vars, termVars, Terminal!vars

(* terminal.py: whichever connections come, break and end in any order, a     *)
(* shell, its PTY and the task that reads it are there only as long as the    *)
(* connection is, the server runs and the session is counted.                 *)
THEOREM NoOrphans == Spec => []NoOrphanShell
<1>1. Init => TerminalInv
  BY TerminalInvInit, HostConstants DEF Init, PartsInit
<1>2. TerminalInv /\ [Next]_vars => TerminalInv'
  BY TerminalInvStep, TerminalMoves, HostConstants
<1>3. TerminalInv => NoOrphanShell
  BY TerminalInvHolds, HostConstants DEF NoOrphanShell
<1> QED
  BY <1>1, <1>2, <1>3, PTL DEF Spec

-----------------------------------------------------------------------------
(* A sequence without its i-th entry. *)
Without(s, i) == SubSeq(s, 1, i - 1) \o SubSeq(s, i + 1, Len(s))

LEMMA ShiftedDown ==
  ASSUME NEW S, NEW s \in Seq(S), NEW i \in 1 .. Len(s)
  PROVE  /\ Without(s, i) \in Seq(S) /\ Len(Without(s, i)) = Len(s) - 1
         /\ \A j \in 1 .. Len(s) - 1 : Without(s, i)[j] = s[IF j < i THEN j ELSE j + 1]
<1> DEFINE left  == SubSeq(s, 1, i - 1)
           right == SubSeq(s, i + 1, Len(s))
           t     == Without(s, i)
<1>1. Len(s) \in Nat /\ i \in Nat
  BY LenProperties
<1>2. left \in Seq(S) /\ Len(left) = i - 1 /\ \A j \in 1 .. i - 1 : left[j] = s[j]
  BY <1>1, SubSeqProperties
<1>3. /\ right \in Seq(S) /\ Len(right) = Len(s) - i
      /\ \A j \in 1 .. Len(s) - i : right[j] = s[i + j]
  BY <1>1, SubSeqProperties
<1> HIDE DEF left, right
<1>4. t = left \o right
  BY DEF left, right, Without
<1> HIDE DEF t
<1>5. /\ left \o right \in Seq(S) /\ Len(left \o right) = Len(left) + Len(right)
      /\ \A j \in 1 .. Len(left) + Len(right) :
           (left \o right)[j] = IF j <= Len(left) THEN left[j] ELSE right[j - Len(left)]
  BY <1>2, <1>3, ConcatProperties
<1>6. (i - 1) + (Len(s) - i) = Len(s) - 1
  BY <1>1
<1>7. t \in Seq(S) /\ Len(t) = Len(s) - 1
  BY <1>2, <1>3, <1>4, <1>5, <1>6
<1>8. \A j \in 1 .. Len(s) - 1 : t[j] = IF j <= i - 1 THEN left[j] ELSE right[j - (i - 1)]
  BY <1>2, <1>3, <1>4, <1>5, <1>6
<1>9. ASSUME NEW j \in 1 .. Len(s) - 1 PROVE t[j] = s[IF j < i THEN j ELSE j + 1]
  <2>1. CASE j < i
    <3>1. j \in 1 .. i - 1 /\ j <= i - 1
      BY <1>1, <2>1
    <3> QED
      BY <1>2, <1>8, <2>1, <3>1
  <2>2. CASE ~(j < i)
    <3> DEFINE d == j - (i - 1)
    <3>1. d \in 1 .. Len(s) - i /\ i + d = j + 1 /\ ~(j <= i - 1)
      BY <1>1, <2>2
    <3>2. t[j] = right[d]
      BY <1>8, <3>1
    <3> HIDE DEF d
    <3>3. right[d] = s[i + d]
      BY <1>3, <3>1
    <3> QED
      BY <2>2, <3>1, <3>2, <3>3
  <2> QED
    BY <2>1, <2>2
<1> QED
  BY <1>7, <1>9 DEF t

-----------------------------------------------------------------------------
(* The keyboard the ESP32-S3 presents: usb_hid.cpp.                           *)

ChipDistinct(s) == \A i, j \in 1 .. Len(s) : s[i] = s[j] => i = j

(* Removing the only copy of a key leaves the others. *)
LEMMA ChipRemoved ==
  ASSUME NEW S, NEW s \in Seq(S), ChipDistinct(s), NEW i \in DOMAIN s
  PROVE  /\ Chip!RemoveAt(s, i) \in Seq(S) /\ Len(Chip!RemoveAt(s, i)) = Len(s) - 1
         /\ ChipDistinct(Chip!RemoveAt(s, i)) /\ Chip!ToSet(Chip!RemoveAt(s, i)) = Chip!ToSet(s) \ {s[i]}
<1> DEFINE t == Chip!RemoveAt(s, i)
<1>1. Len(s) \in Nat /\ DOMAIN s = 1 .. Len(s) /\ i \in 1 .. Len(s)
  BY LenProperties
<1>2. /\ t \in Seq(S) /\ Len(t) = Len(s) - 1
      /\ \A j \in 1 .. Len(s) - 1 : t[j] = s[IF j < i THEN j ELSE j + 1]
  <2>1. t = Without(s, i)
    BY DEF Chip!RemoveAt, Without
  <2> HIDE DEF t
  <2> QED
    BY <1>1, <2>1, ShiftedDown
<1>3. DOMAIN t = 1 .. Len(t)
  BY <1>2, LenProperties
<1> HIDE DEF t
<1>4. ChipDistinct(t)
  BY <1>1, <1>2 DEF ChipDistinct
<1>5. ASSUME NEW x \in Chip!ToSet(t) PROVE x \in Chip!ToSet(s) \ {s[i]}
  <2>1. PICK j \in 1 .. Len(t) : x = t[j]
    BY <1>3, <1>5 DEF Chip!ToSet
  <2> DEFINE k == IF j < i THEN j ELSE j + 1
  <2>2. k \in 1 .. Len(s) /\ k # i
    BY <1>1, <1>2
  <2>3. x = s[k]
    BY <1>2, <2>1
  <2> HIDE DEF k
  <2> QED
    BY <1>1, <2>2, <2>3 DEF Chip!ToSet, ChipDistinct
<1>6. ASSUME NEW x \in Chip!ToSet(s), x # s[i] PROVE x \in Chip!ToSet(t)
  <2>1. PICK k \in 1 .. Len(s) : x = s[k]
    BY <1>1, <1>6 DEF Chip!ToSet
  <2>2. CASE k < i
    <3>1. k \in 1 .. Len(t) /\ t[k] = x
      BY <1>1, <1>2, <2>1, <2>2
    <3> QED
      BY <1>3, <3>1 DEF Chip!ToSet
  <2>3. CASE ~(k < i)
    <3>1. k - 1 \in 1 .. Len(t) /\ ~(k - 1 < i) /\ (k - 1) + 1 = k
      BY <1>1, <1>2, <1>6, <2>1, <2>3
    <3>2. t[k - 1] = x
      BY <1>2, <2>1, <3>1
    <3> QED
      BY <1>3, <3>1, <3>2 DEF Chip!ToSet
  <2> QED
    BY <2>2, <2>3
<1> QED
  BY <1>2, <1>4, <1>5, <1>6 DEF t

(* A key that is down already is not added. *)
LEMMA ChipAdded ==
  ASSUME NEW S, NEW s \in Seq(S), ChipDistinct(s), NEW e \in S \ Chip!ToSet(s)
  PROVE  /\ Append(s, e) \in Seq(S) /\ Len(Append(s, e)) = Len(s) + 1
         /\ ChipDistinct(Append(s, e)) /\ Chip!ToSet(Append(s, e)) = Chip!ToSet(s) \cup {e}
<1> DEFINE t == Append(s, e)
<1>1. Len(s) \in Nat /\ DOMAIN s = 1 .. Len(s)
  BY LenProperties
<1>2. /\ t \in Seq(S) /\ Len(t) = Len(s) + 1 /\ t[Len(s) + 1] = e
      /\ \A j \in 1 .. Len(s) : t[j] = s[j]
  BY <1>1, AppendProperties
<1>3. DOMAIN t = 1 .. Len(s) + 1
  BY <1>2, LenProperties
<1> HIDE DEF t
<1>4. \A j \in 1 .. Len(s) : s[j] # e
  BY <1>1 DEF Chip!ToSet
<1>5. ChipDistinct(t)
  BY <1>1, <1>2, <1>4 DEF ChipDistinct
<1>6. Chip!ToSet(t) = Chip!ToSet(s) \cup {e}
  BY <1>1, <1>2, <1>3 DEF Chip!ToSet
<1> QED
  BY <1>2, <1>5, <1>6 DEF t

-----------------------------------------------------------------------------
(* The keys that are down are held, each in one slot, and no modifier.        *)
ChipInv ==
  /\ Chip!TypeOK /\ Chip!NoKeyLeftDown
  /\ ChipDistinct(pressed) /\ Chip!ToSet(pressed) \cap Modifiers = {}

LEMMA ChipSendsKeeps ==
  ASSUME HostConstants, NEW m \in SUBSET Modifiers, NEW k \in Seq((Keys \cup SpareKeys)), Len(k) <= ChipSlots, ChipDistinct(k),
         Chip!ToSet(k) \cap Modifiers = {}, Chip!Sends(m, k), holding' \subseteq Chip!Codes,
         m \cup Chip!ToSet(k) \subseteq holding', buttons' \subseteq MouseButtons
  PROVE  ChipInv'
<1>1. Chip!ToSet(k) \subseteq (Keys \cup SpareKeys)
  BY LenProperties, ElementOfSeq DEF Chip!ToSet
<1> QED
  BY <1>1 DEF Chip!Sends, Chip!Report, ChipInv, Chip!TypeOK, Chip!NoKeyLeftDown, Chip!Codes

LEMMA ChipInvInit == ASSUME HostConstants PROVE Chip!Init => ChipInv
<1> SUFFICES ASSUME Chip!Init PROVE ChipInv
  OBVIOUS
<1>1. pressed = <<>> /\ Len(pressed) = 0 /\ pressed \in Seq((Keys \cup SpareKeys))
  BY EmptySeq DEF Chip!Init
<1>2. Chip!ToSet(pressed) = {}
  BY <1>1 DEF Chip!ToSet
<1> QED
  BY <1>1, <1>2 DEF Chip!Init, ChipInv, Chip!TypeOK, Chip!NoKeyLeftDown, ChipDistinct, HostConstants

LEMMA ChipInvStep == ASSUME HostConstants PROVE ChipInv /\ [Chip!Next]_(Chip!vars) => ChipInv'
<1> SUFFICES ASSUME ChipInv, [Chip!Next]_(Chip!vars) PROVE ChipInv'
  OBVIOUS
<1>1. /\ mods \subseteq Modifiers /\ pressed \in Seq((Keys \cup SpareKeys)) /\ Len(pressed) <= ChipSlots /\ Len(pressed) \in Nat
      /\ buttons \subseteq MouseButtons /\ holding \subseteq Chip!Codes /\ ChipDistinct(pressed)
      /\ Chip!ToSet(pressed) \cap Modifiers = {} /\ mods \cup Chip!ToSet(pressed) \subseteq holding
      /\ ChipSlots \in Nat /\ DOMAIN pressed = 1 .. Len(pressed)
  BY LenProperties DEF ChipInv, Chip!TypeOK, Chip!NoKeyLeftDown, HostConstants
<1>2. ASSUME NEW code \in Chip!Codes, Chip!KeyDown(code) PROVE ChipInv'
  <2>1. holding' = holding \cup {code} /\ buttons' = buttons
    BY <1>2 DEF Chip!KeyDown
  <2>2. CASE code \in Modifiers
    <3>1. Chip!Sends(mods \cup {code}, pressed)
      BY <1>2, <2>2 DEF Chip!KeyDown
    <3> QED
      BY <1>1, <2>1, <2>2, <3>1, ChipSendsKeeps
  <2>3. CASE code \notin Modifiers /\ Len(pressed) < ChipSlots /\ code \notin Chip!ToSet(pressed)
    <3>1. Chip!Sends(mods, Append(pressed, code)) /\ code \in (Keys \cup SpareKeys)
      BY <1>2, <2>3 DEF Chip!KeyDown, Chip!Codes
    <3> DEFINE t == Append(pressed, code)
    <3>2. /\ t \in Seq((Keys \cup SpareKeys)) /\ Len(t) = Len(pressed) + 1 /\ ChipDistinct(t)
          /\ Chip!ToSet(t) = Chip!ToSet(pressed) \cup {code}
      BY <1>1, <2>3, <3>1, ChipAdded
    <3>3. Chip!Sends(mods, t)
      BY <3>1
    <3> HIDE DEF t
    <3> QED
      BY <1>1, <2>1, <2>3, <3>1, <3>2, <3>3, ChipSendsKeeps
  <2>4. CASE code \notin Modifiers /\ ~(Len(pressed) < ChipSlots /\ code \notin Chip!ToSet(pressed))
    <3>1. Chip!Sends(mods, pressed)
      BY <1>2, <2>4 DEF Chip!KeyDown
    <3> QED
      BY <1>1, <2>1, <3>1, ChipSendsKeeps
  <2> QED
    BY <2>2, <2>3, <2>4
<1>3. ASSUME NEW code \in Chip!Codes, Chip!KeyUp(code) PROVE ChipInv'
  <2>1. holding' = holding \ {code} /\ buttons' = buttons
    BY <1>3 DEF Chip!KeyUp
  <2>2. CASE code \in Modifiers /\ Chip!Sends(mods \ {code}, pressed)
    <3>1. code \notin Chip!ToSet(pressed)
      BY <1>1, <2>2
    <3> QED
      BY <1>1, <2>1, <2>2, <3>1, ChipSendsKeeps
  <2>3. CASE code \notin Modifiers /\ code \notin Chip!ToSet(pressed) /\ Chip!Sends(mods, pressed)
    <3>1. code \notin mods
      BY <1>1, <2>3
    <3> QED
      BY <1>1, <2>1, <2>3, <3>1, ChipSendsKeeps
  <2>4. ASSUME code \notin Modifiers, NEW i \in DOMAIN pressed, pressed[i] = code,
               Chip!Sends(mods, Chip!RemoveAt(pressed, i))
        PROVE  ChipInv'
    <3> DEFINE t == Chip!RemoveAt(pressed, i)
    <3>1. /\ t \in Seq((Keys \cup SpareKeys)) /\ Len(t) = Len(pressed) - 1 /\ ChipDistinct(t)
          /\ Chip!ToSet(t) = Chip!ToSet(pressed) \ {code}
      BY <1>1, <2>4, ChipRemoved
    <3>2. Chip!Sends(mods, t) /\ code \notin mods
      BY <1>1, <2>4
    <3> HIDE DEF t
    <3> QED
      BY <1>1, <2>1, <3>1, <3>2, ChipSendsKeeps
  <2> QED
    BY <1>3, <2>2, <2>3, <2>4 DEF Chip!KeyUp
<1>4. CASE Chip!ReleaseAllKeys
  <2> DEFINE none == <<>>
  <2>1. none \in Seq((Keys \cup SpareKeys)) /\ Len(none) = 0
    BY EmptySeq
  <2>2. Chip!ToSet(none) = {} /\ ChipDistinct(none)
    BY <2>1 DEF Chip!ToSet, ChipDistinct
  <2>3. Chip!Sends({}, none) /\ holding' = {} /\ buttons' = buttons
    BY <1>4 DEF Chip!ReleaseAllKeys
  <2> HIDE DEF none
  <2>4. {} \in SUBSET Modifiers /\ Chip!ToSet(none) \cap Modifiers = {} /\ {} \cup Chip!ToSet(none) \subseteq holding'
        /\ Len(none) <= ChipSlots /\ holding' \subseteq Chip!Codes /\ buttons' \subseteq MouseButtons
    BY <1>1, <2>1, <2>2, <2>3
  <2> QED
    BY <2>1, <2>2, <2>3, <2>4, ChipSendsKeeps
<1>5. ASSUME NEW ms \in SUBSET Modifiers, NEW k1 \in (Keys \cup SpareKeys), NEW k2 \in (Keys \cup SpareKeys), Chip!SendCombo(ms, <<k1, k2>>)
      PROVE  ChipInv'
  <2> DEFINE ks == <<k1, k2>>
             n  == IF Len(ks) < ChipSlots THEN Len(ks) ELSE ChipSlots
  <2>1. ks \in Seq((Keys \cup SpareKeys)) /\ Len(ks) = 2 /\ n \in 0 .. 2
    BY <1>1
  <2> HIDE DEF ks, n
  <2>2. SubSeq(ks, 1, n) \in Seq((Keys \cup SpareKeys))
    <3>1. n \in Int /\ \A i \in 1 .. n : i \in 1 .. Len(ks)
      BY <2>1
    <3>2. \A i \in 1 .. n : ks[i] \in (Keys \cup SpareKeys)
      BY <2>1, <3>1, ElementOfSeq
    <3> QED
      BY <3>1, <3>2, SubSeqProperties
  <2>3. Chip!ToSet(SubSeq(ks, 1, n)) \subseteq (Keys \cup SpareKeys)
    BY <2>2, LenProperties, ElementOfSeq DEF Chip!ToSet
  <2>4. flashed' = ms \cup Chip!ToSet(SubSeq(ks, 1, n))
    BY <1>5 DEF Chip!SendCombo, Chip!Report, ks, n
  <2>5. report' = {} /\ UNCHANGED <<mods, pressed, buttons, holding>>
    BY <1>5 DEF Chip!SendCombo
  <2> QED
    BY <1>1, <2>3, <2>4, <2>5 DEF ChipInv, Chip!TypeOK, Chip!NoKeyLeftDown, Chip!Codes
<1>6. ASSUME NEW b \in MouseButtons, Chip!MouseDown(b) \/ Chip!MouseUp(b) PROVE ChipInv'
  BY <1>6 DEF Chip!MouseDown, Chip!MouseUp, ChipInv, Chip!TypeOK, Chip!NoKeyLeftDown
<1>7. CASE UNCHANGED Chip!vars
  BY <1>7 DEF Chip!vars, ChipInv, Chip!TypeOK, Chip!NoKeyLeftDown
<1> QED
  BY <1>2, <1>3, <1>4, <1>5, <1>6, <1>7 DEF Chip!Next

LEMMA ChipMoves == [Next]_vars => [Chip!Next]_(Chip!vars)
BY DEF Next, NextDevices, NextBoard, NotKeys, vars, chipVars, Chip!vars

-----------------------------------------------------------------------------
(* The keyboard of the CM4: hid.py.                                           *)

(* What the manager counts as pressed. *)
GadgetDown == gMods \cup Gadget!ToSet(gPressed)

GadgetHeld == [at : {"idle", "writing", "asleep"}, device : Gadget!Devices, report : SUBSET (Gadget!Codes \cup MouseButtons),
         then : {"done", "combo", "click"}, button : MouseButtons \cup {"none"}]

GadgetTyped ==
  /\ Gadget!TypeOK /\ handler \in [Clients -> GadgetHeld]
  /\ \A c \in Clients : Gadget!Writing(c, "keyboard") => handler[c].report \subseteq Gadget!Codes
  /\ \A c \in Clients : Gadget!Writing(c, "mouse") => handler[c].report \subseteq MouseButtons

(* Of the keyboard one report at most is being written, and it is what counts *)
(* as pressed; else the host has seen it.                                    *)
GadgetCurrent ==
  ~spoilt =>
    /\ \A c \in Clients : Gadget!Writing(c, "keyboard") =>
         /\ handler[c].report = GadgetDown
         /\ \A o \in Clients : Gadget!Writing(o, "keyboard") => o = c
    /\ (\A c \in Clients : ~Gadget!Writing(c, "keyboard")) => typed = GadgetDown

(* No key is counted twice, and each that is counted has been pressed by some *)
(* browser.                                                                  *)
GadgetOwned == ChipDistinct(gPressed) /\ \A code \in GadgetDown : owner[code] # "nobody"

GadgetInv == GadgetTyped /\ GadgetCurrent /\ GadgetOwned

GadgetOwners == [Gadget!Codes -> Clients \cup {"nobody", "gone"}]

-----------------------------------------------------------------------------
(* No report is longer than the device's, so that all of the keys are in it.  *)
LEMMA GadgetWhole ==
  ASSUME HostConstants, NEW k \in Seq(Keys), Len(k) <= GadgetSlots
  PROVE  /\ SubSeq(k, 1, IF Len(k) < GadgetSlots THEN Len(k) ELSE GadgetSlots) = k
         /\ Gadget!ToSet(k) \subseteq Keys
<1>1. (IF Len(k) < GadgetSlots THEN Len(k) ELSE GadgetSlots) = Len(k) /\ Len(k) \in Nat /\ DOMAIN k = 1 .. Len(k)
  BY LenProperties DEF HostConstants
<1>2. SubSeq(k, 1, Len(k)) = k
  BY SubSeqFull
<1>3. Gadget!ToSet(k) \subseteq Keys
  <2>1. \A i \in DOMAIN k : k[i] \in Keys
    BY <1>1, ElementOfSeq
  <2> QED
    BY <2>1 DEF Gadget!ToSet
<1> QED
  BY <1>1, <1>2, <1>3

(* A handler goes on after its report: no report is being written.            *)
LEMMA GadgetGoesOn ==
  ASSUME NEW h \in GadgetHeld
  PROVE  Gadget!GoesOn(h) \in GadgetHeld /\ Gadget!GoesOn(h).at # "writing"
<1>1. Gadget!Idle \in GadgetHeld /\ Gadget!Idle.at # "writing"
  BY DEF Gadget!Idle, GadgetHeld, Gadget!Devices
<1>2. [h EXCEPT !.at = "asleep", !.report = {}] \in GadgetHeld
      /\ [h EXCEPT !.at = "asleep", !.report = {}].at # "writing"
  BY DEF GadgetHeld
<1> QED
  BY <1>1, <1>2 DEF Gadget!GoesOn

LEMMA GadgetSendsKeysKeeps ==
  ASSUME HostConstants, GadgetInv, NEW c \in Clients, handler[c].at # "writing",
         NEW m \in SUBSET Modifiers, NEW k \in Seq(Keys), Len(k) <= GadgetSlots, ChipDistinct(k),
         NEW then \in {"done", "combo"}, Gadget!SendsKeys(c, m, k, then), gButtons' \subseteq MouseButtons,
         owner' \in GadgetOwners, \A code \in m \cup Gadget!ToSet(k) : owner'[code] # "nobody"
  PROVE  GadgetInv'
<1> DEFINE h == [at |-> "writing", device |-> "keyboard", report |-> m \cup Gadget!ToSet(k),
                 then |-> then, button |-> "none"]
<1>1. /\ gMods' = m /\ gPressed' = k /\ UNCHANGED <<gOpen, typed, clicked>>
      /\ \/ /\ handler' = [handler EXCEPT ![c] = h]
            /\ spoilt' = \E o \in Clients \ {c} : Gadget!Writing(o, "keyboard")
         \/ handler' = [handler EXCEPT ![c] = Gadget!GoesOn(h)] /\ spoilt' = TRUE
  BY GadgetWhole DEF Gadget!SendsKeys, Gadget!Sends
<1>2. m \cup Gadget!ToSet(k) \subseteq Gadget!Codes
  BY GadgetWhole DEF Gadget!Codes
<1>3. h \in GadgetHeld
  BY <1>2 DEF GadgetHeld, Gadget!Devices
<1>4. handler \in [Clients -> GadgetHeld]
  BY DEF GadgetInv, GadgetTyped
<1>5. h.at = "writing" /\ h.device = "keyboard" /\ h.report = m \cup Gadget!ToSet(k)
  OBVIOUS
<1> HIDE DEF h
<1>6. GadgetOwned'
  BY <1>1 DEF GadgetOwned, GadgetDown
<1>7. CASE handler' = [handler EXCEPT ![c] = h] /\ spoilt' = \E o \in Clients \ {c} : Gadget!Writing(o, "keyboard")
  <2>1. /\ handler'[c] = h /\ \A o \in Clients \ {c} : handler'[o] = handler[o]
        /\ handler' \in [Clients -> GadgetHeld]
    BY <1>3, <1>4, <1>7
  <2>2. GadgetTyped'
    BY <1>1, <1>2, <1>5, <1>7, <2>1 DEF GadgetInv, GadgetTyped, Gadget!TypeOK, Gadget!Writing, GadgetOwners
  <2>3. GadgetCurrent'
    BY <1>1, <1>5, <1>7, <2>1 DEF GadgetCurrent, Gadget!Writing, GadgetDown
  <2> QED
    BY <1>6, <2>2, <2>3 DEF GadgetInv
<1>8. CASE handler' = [handler EXCEPT ![c] = Gadget!GoesOn(h)] /\ spoilt' = TRUE
  <2>1. PICK g \in GadgetHeld : g.at # "writing" /\ handler' = [handler EXCEPT ![c] = g]
    BY <1>3, <1>8, GadgetGoesOn
  <2>2. /\ handler'[c] = g /\ \A o \in Clients \ {c} : handler'[o] = handler[o]
        /\ handler' \in [Clients -> GadgetHeld]
    BY <1>4, <2>1
  <2>3. GadgetTyped'
    BY <1>1, <1>8, <2>1, <2>2 DEF GadgetInv, GadgetTyped, Gadget!TypeOK, Gadget!Writing, GadgetOwners
  <2> QED
    BY <1>6, <1>8, <2>3 DEF GadgetInv, GadgetCurrent
<1> QED
  BY <1>1, <1>7, <1>8

LEMMA GadgetSendsButtonsKeeps ==
  ASSUME GadgetInv, NEW c \in Clients, handler[c].at # "writing",
         NEW bs \in SUBSET MouseButtons, NEW then \in {"done", "click"}, NEW b \in MouseButtons \cup {"none"},
         Gadget!SendsButtons(c, bs, then, b)
  PROVE  GadgetInv'
<1> DEFINE h == [at |-> "writing", device |-> "mouse", report |-> bs, then |-> then, button |-> b]
<1>1. /\ gButtons' = bs /\ UNCHANGED <<gOpen, gMods, gPressed, typed, clicked, owner>>
      /\ handler' = [handler EXCEPT ![c] = h] \/ handler' = [handler EXCEPT ![c] = Gadget!GoesOn(h)]
  BY DEF Gadget!SendsButtons, Gadget!Sends
<1>2. spoilt \in BOOLEAN /\ spoilt' = spoilt /\ handler \in [Clients -> GadgetHeld]
  <2>1. spoilt \in BOOLEAN /\ handler \in [Clients -> GadgetHeld]
    BY DEF GadgetInv, GadgetTyped, Gadget!TypeOK
  <2>2. spoilt' = spoilt \/ spoilt' = (spoilt \/ "mouse" = "keyboard")
    BY DEF Gadget!SendsButtons, Gadget!Sends
  <2> QED
    BY <2>1, <2>2
<1>3. h \in GadgetHeld /\ h.device = "mouse" /\ h.report = bs
  BY DEF GadgetHeld, Gadget!Devices
<1> HIDE DEF h
<1>4. PICK g \in GadgetHeld :
        /\ g.at = "writing" => g.device = "mouse" /\ g.report = bs
        /\ handler' = [handler EXCEPT ![c] = g]
  BY <1>1, <1>3, GadgetGoesOn
<1>5. /\ handler'[c] = g /\ \A o \in Clients \ {c} : handler'[o] = handler[o]
      /\ handler' \in [Clients -> GadgetHeld]
  BY <1>2, <1>4
<1>7. GadgetTyped'
  BY <1>1, <1>2, <1>4, <1>5 DEF GadgetInv, GadgetTyped, Gadget!TypeOK, Gadget!Writing
<1>8. \A o \in Clients : Gadget!Writing(o, "keyboard")' <=> Gadget!Writing(o, "keyboard")
  BY <1>4, <1>5 DEF Gadget!Writing
<1>9. GadgetCurrent'
  BY <1>1, <1>2, <1>4, <1>5, <1>8 DEF GadgetInv, GadgetCurrent, GadgetDown, Gadget!Writing
<1>10. GadgetOwned'
  BY <1>1 DEF GadgetInv, GadgetOwned, GadgetDown
<1> QED
  BY <1>7, <1>9, <1>10 DEF GadgetInv

(* The state of the keyboard before a message. *)
LEMMA GadgetKeysFacts ==
  ASSUME HostConstants, GadgetInv
  PROVE  /\ gMods \in SUBSET Modifiers /\ gPressed \in Seq(Keys) /\ Len(gPressed) <= GadgetSlots
         /\ gButtons \subseteq MouseButtons /\ Len(gPressed) \in Nat /\ DOMAIN gPressed = 1 .. Len(gPressed)
         /\ GadgetSlots \in Nat /\ GadgetSlots # 0
         /\ ChipDistinct(gPressed) /\ Gadget!ToSet(gPressed) \subseteq Keys /\ Modifiers \cap Keys = {}
         /\ owner \in GadgetOwners /\ \A code \in gMods \cup Gadget!ToSet(gPressed) : owner[code] # "nobody"
         /\ \A c \in Clients : c # "nobody"
<1>1. Gadget!ToSet(gPressed) \subseteq Keys
  BY GadgetWhole DEF GadgetInv, GadgetTyped, Gadget!TypeOK
<1> QED
  BY <1>1, LenProperties DEF GadgetInv, GadgetTyped, Gadget!TypeOK, GadgetOwned, GadgetOwners, GadgetDown, HostConstants

(* What a press, a release and a removal do to the keys counted.              *)
LEMMA GadgetAdded ==
  ASSUME NEW s \in Seq(Keys), ChipDistinct(s), NEW e \in Keys \ Gadget!ToSet(s)
  PROVE  /\ Append(s, e) \in Seq(Keys) /\ Len(Append(s, e)) = Len(s) + 1
         /\ ChipDistinct(Append(s, e)) /\ Gadget!ToSet(Append(s, e)) = Gadget!ToSet(s) \cup {e}
<1>1. \A t : Gadget!ToSet(t) = Chip!ToSet(t)
  BY DEF Gadget!ToSet, Chip!ToSet
<1> QED
  BY <1>1, ChipAdded

LEMMA GadgetRemoved ==
  ASSUME NEW s \in Seq(Keys), ChipDistinct(s), NEW i \in DOMAIN s
  PROVE  /\ Gadget!RemoveAt(s, i) \in Seq(Keys) /\ Len(Gadget!RemoveAt(s, i)) = Len(s) - 1
         /\ ChipDistinct(Gadget!RemoveAt(s, i))
         /\ Gadget!ToSet(Gadget!RemoveAt(s, i)) = Gadget!ToSet(s) \ {s[i]}
<1>1. \A t : Gadget!ToSet(t) = Chip!ToSet(t)
  BY DEF Gadget!ToSet, Chip!ToSet
<1>2. Gadget!RemoveAt(s, i) = Chip!RemoveAt(s, i)
  BY DEF Gadget!RemoveAt, Chip!RemoveAt
<1> QED
  BY <1>1, <1>2, ChipRemoved

LEMMA GadgetNobody == Gadget!Nobody \in GadgetOwners
BY DEF Gadget!Nobody, GadgetOwners

LEMMA GadgetReleasesKeeps ==
  ASSUME HostConstants, GadgetInv, NEW c \in Clients, handler[c].at # "writing", Gadget!Releases(c)
  PROVE  GadgetInv'
<1> DEFINE none == <<>>
<1>1. none \in Seq(Keys) /\ Len(none) = 0
  BY EmptySeq
<1>2. Gadget!SendsKeys(c, {}, none, "done") /\ gButtons' = {} /\ owner' = Gadget!Nobody
  BY DEF Gadget!Releases
<1>3. Gadget!ToSet(none) = {} /\ ChipDistinct(none)
  BY <1>1 DEF Gadget!ToSet, ChipDistinct
<1> HIDE DEF none
<1>4. Len(none) <= GadgetSlots /\ {} \in SUBSET Modifiers /\ gButtons' \subseteq MouseButtons
  BY <1>1, <1>2, GadgetKeysFacts
<1>5. owner' \in GadgetOwners /\ \A code \in {} \cup Gadget!ToSet(none) : owner'[code] # "nobody"
  BY <1>2, <1>3, GadgetNobody
<1> QED
  BY <1>1, <1>2, <1>3, <1>4, <1>5, GadgetSendsKeysKeeps

LEMMA GadgetKeyDownKeeps ==
  ASSUME HostConstants, GadgetInv, NEW c \in Clients, NEW code \in Gadget!Codes, Gadget!KeyDown(c, code)
  PROVE  GadgetInv'
<1> DEFINE down == gMods' \cup Gadget!ToSet(gPressed')
<1>1. handler[c].at # "writing" /\ gButtons' \subseteq MouseButtons
  BY GadgetKeysFacts DEF Gadget!KeyDown, Gadget!Served, Gadget!Idle
<1>2. owner' = [owner EXCEPT ![code] = IF code \in down THEN c ELSE @]
  BY DEF Gadget!KeyDown
<1> HIDE DEF down
<1>3. /\ owner' \in GadgetOwners
      /\ code \in down => owner'[code] = c
      /\ \A o \in Gadget!Codes \ {code} : owner'[o] = owner[o]
  BY <1>2, GadgetKeysFacts DEF GadgetOwners
<1>4. ASSUME NEW m \in SUBSET Modifiers, NEW k \in Seq(Keys), Len(k) <= GadgetSlots, ChipDistinct(k),
             Gadget!SendsKeys(c, m, k, "done"), Gadget!ToSet(k) \subseteq Keys,
             m \cup Gadget!ToSet(k) \subseteq gMods \cup Gadget!ToSet(gPressed) \cup {code}
      PROVE  GadgetInv'
  <2>1. down = m \cup Gadget!ToSet(k)
    BY <1>4 DEF Gadget!SendsKeys, down
  <2>2. \A o \in m \cup Gadget!ToSet(k) : owner'[o] # "nobody"
    BY <1>3, <1>4, <2>1, GadgetKeysFacts DEF Gadget!Codes
  <2> QED
    BY <1>1, <1>3, <1>4, <2>2, GadgetSendsKeysKeeps
<1>5. CASE code \in Modifiers /\ Gadget!SendsKeys(c, gMods \cup {code}, gPressed, "done")
  <2>1. gMods \cup {code} \in SUBSET Modifiers
    BY <1>5, GadgetKeysFacts
  <2> QED
    BY <1>4, <1>5, <2>1, GadgetKeysFacts
<1>6. CASE Gadget!SendsKeys(c, gMods, gPressed, "done")
  BY <1>4, <1>6, GadgetKeysFacts
<1>7. CASE /\ code \in Keys \ Gadget!ToSet(gPressed) /\ Len(gPressed) < GadgetSlots
           /\ Gadget!SendsKeys(c, gMods, Append(gPressed, code), "done")
  <2> DEFINE t == Append(gPressed, code)
  <2>1. /\ t \in Seq(Keys) /\ Len(t) = Len(gPressed) + 1 /\ ChipDistinct(t)
        /\ Gadget!ToSet(t) = Gadget!ToSet(gPressed) \cup {code}
    BY <1>7, GadgetKeysFacts, GadgetAdded
  <2>2. Gadget!SendsKeys(c, gMods, t, "done")
    BY <1>7
  <2> HIDE DEF t
  <2>3. Len(t) <= GadgetSlots
    BY <1>7, <2>1, GadgetKeysFacts
  <2>4. Gadget!ToSet(t) \subseteq Keys
    BY <1>7, <2>1, GadgetKeysFacts
  <2> QED
    BY <1>4, <2>1, <2>2, <2>3, <2>4, GadgetKeysFacts
<1>8. \/ code \in Modifiers /\ Gadget!SendsKeys(c, gMods \cup {code}, gPressed, "done")
      \/ Gadget!SendsKeys(c, gMods, gPressed, "done")
      \/ /\ code \in Keys \ Gadget!ToSet(gPressed) /\ Len(gPressed) < GadgetSlots
         /\ Gadget!SendsKeys(c, gMods, Append(gPressed, code), "done")
  <2>1. CASE code \in Gadget!ToSet(gPressed) \/ Len(gPressed) >= GadgetSlots
    BY <2>1 DEF Gadget!KeyDown
  <2>2. CASE ~(code \in Gadget!ToSet(gPressed) \/ Len(gPressed) >= GadgetSlots)
    <3>1. Len(gPressed) < GadgetSlots
      BY <2>2, GadgetKeysFacts
    <3> QED
      BY <2>2, <3>1 DEF Gadget!KeyDown
  <2> QED
    BY <2>1, <2>2
<1> QED
  BY <1>5, <1>6, <1>7, <1>8

LEMMA GadgetKeyUpKeeps ==
  ASSUME HostConstants, GadgetInv, NEW c \in Clients, NEW code \in Gadget!Codes, Gadget!KeyUp(c, code)
  PROVE  GadgetInv'
<1>1. handler[c].at # "writing" /\ gButtons' \subseteq MouseButtons
  BY GadgetKeysFacts DEF Gadget!KeyUp, Gadget!Served, Gadget!Idle
<1>2. owner' = [owner EXCEPT ![code] = "nobody"]
  BY DEF Gadget!KeyUp
<1>3. owner' \in GadgetOwners /\ \A o \in Gadget!Codes \ {code} : owner'[o] = owner[o]
  BY <1>2, GadgetKeysFacts DEF GadgetOwners
<1>4. ASSUME NEW m \in SUBSET Modifiers, NEW k \in Seq(Keys), Len(k) <= GadgetSlots, ChipDistinct(k),
             Gadget!SendsKeys(c, m, k, "done"), Gadget!ToSet(k) \subseteq Keys,
             m \cup Gadget!ToSet(k) \subseteq (gMods \cup Gadget!ToSet(gPressed)) \ {code}
      PROVE  GadgetInv'
  <2>1. \A o \in m \cup Gadget!ToSet(k) : owner'[o] # "nobody"
    BY <1>3, <1>4, GadgetKeysFacts DEF Gadget!Codes
  <2> QED
    BY <1>1, <1>3, <1>4, <2>1, GadgetSendsKeysKeeps
<1>5. CASE code \in Modifiers /\ Gadget!SendsKeys(c, gMods \ {code}, gPressed, "done")
  <2>1. gMods \ {code} \in SUBSET Modifiers /\ code \notin Gadget!ToSet(gPressed)
    BY <1>5, GadgetKeysFacts
  <2> QED
    BY <1>4, <1>5, <2>1, GadgetKeysFacts
<1>6. CASE code \in Keys \ Gadget!ToSet(gPressed) /\ Gadget!SendsKeys(c, gMods, gPressed, "done")
  <2>1. code \notin gMods
    BY <1>6, GadgetKeysFacts
  <2> QED
    BY <1>4, <1>6, <2>1, GadgetKeysFacts
<1>7. ASSUME NEW i \in DOMAIN gPressed, gPressed[i] = code,
             Gadget!SendsKeys(c, gMods, Gadget!RemoveAt(gPressed, i), "done")
      PROVE  GadgetInv'
  <2> DEFINE t == Gadget!RemoveAt(gPressed, i)
  <2>1. /\ t \in Seq(Keys) /\ Len(t) = Len(gPressed) - 1 /\ ChipDistinct(t)
        /\ Gadget!ToSet(t) = Gadget!ToSet(gPressed) \ {code}
    BY <1>7, GadgetKeysFacts, GadgetRemoved
  <2>2. Gadget!SendsKeys(c, gMods, t, "done")
    BY <1>7
  <2> HIDE DEF t
  <2>3. Len(t) <= GadgetSlots /\ Gadget!ToSet(t) \subseteq Keys
    BY <2>1, GadgetKeysFacts
  <2>4. code \notin gMods
    <3>1. code \in Gadget!ToSet(gPressed)
      BY <1>7 DEF Gadget!ToSet
    <3> QED
      BY <3>1, GadgetKeysFacts
  <2> QED
    BY <1>4, <2>1, <2>2, <2>3, <2>4, GadgetKeysFacts
<1> QED
  BY <1>5, <1>6, <1>7 DEF Gadget!KeyUp

LEMMA GadgetComboKeeps ==
  ASSUME HostConstants, GadgetInv, NEW c \in Clients, NEW ms \in SUBSET Modifiers, NEW k \in Keys,
         Gadget!SendCombo(c, ms, <<k>>)
  PROVE  GadgetInv'
<1> DEFINE ks == <<k>>
<1>1. ks \in Seq(Keys) /\ Len(ks) = 1
  OBVIOUS
<1>2. /\ Gadget!SendsKeys(c, ms, ks, "combo") /\ handler[c].at # "writing" /\ gButtons' \subseteq MouseButtons
      /\ owner' = [code \in Gadget!Codes |-> IF code \in ms \cup Gadget!ToSet(ks) THEN c ELSE "nobody"]
  BY GadgetKeysFacts DEF Gadget!SendCombo, Gadget!Served, Gadget!Idle
<1>3. ChipDistinct(ks)
  BY <1>1 DEF ChipDistinct
<1> HIDE DEF ks
<1>4. Len(ks) <= GadgetSlots /\ Gadget!ToSet(ks) \subseteq Keys
  <2>1. Len(ks) <= GadgetSlots
    BY <1>1, GadgetKeysFacts
  <2> QED
    BY <1>1, <2>1, GadgetWhole
<1>5. owner' \in GadgetOwners /\ \A code \in ms \cup Gadget!ToSet(ks) : owner'[code] # "nobody"
  BY <1>2, <1>4, GadgetKeysFacts DEF GadgetOwners, Gadget!Codes
<1> QED
  BY <1>1, <1>2, <1>3, <1>4, <1>5, GadgetSendsKeysKeeps

LEMMA GadgetMessageKeeps ==
  ASSUME HostConstants, GadgetInv, NEW c \in Clients, Gadget!Message(c)
  PROVE  GadgetInv'
<1>1. ASSUME NEW code \in Gadget!Codes, Gadget!KeyDown(c, code) \/ Gadget!KeyUp(c, code) PROVE GadgetInv'
  BY <1>1, GadgetKeyDownKeeps, GadgetKeyUpKeeps
<1>2. CASE Gadget!ReleaseAll(c)
  BY <1>2, GadgetReleasesKeeps DEF Gadget!ReleaseAll, Gadget!Served, Gadget!Idle
<1>3. ASSUME NEW ms \in SUBSET Modifiers, NEW k \in Keys, Gadget!SendCombo(c, ms, <<k>>) PROVE GadgetInv'
  BY <1>3, GadgetComboKeeps
<1>4. CASE Gadget!MouseMove(c)
  BY <1>4, GadgetKeysFacts, GadgetSendsButtonsKeeps DEF Gadget!MouseMove, Gadget!Served, Gadget!Idle
<1>5. ASSUME NEW b \in MouseButtons, Gadget!MouseDown(c, b) \/ Gadget!MouseUp(c, b) \/ Gadget!MouseClick(c, b) PROVE GadgetInv'
  <2>1. gButtons \cup {b} \in SUBSET MouseButtons /\ gButtons \ {b} \in SUBSET MouseButtons
    BY GadgetKeysFacts
  <2>2. handler[c].at # "writing"
    BY <1>5 DEF Gadget!MouseDown, Gadget!MouseUp, Gadget!MouseClick, Gadget!Served, Gadget!Idle
  <2> QED
    BY <1>5, <2>1, <2>2, GadgetSendsButtonsKeeps DEF Gadget!MouseDown, Gadget!MouseUp, Gadget!MouseClick
<1> QED
  BY <1>1, <1>2, <1>3, <1>4, <1>5 DEF Gadget!Message

LEMMA GadgetWrittenKeeps ==
  ASSUME GadgetInv, NEW c \in Clients, Gadget!Written(c)
  PROVE  GadgetInv'
<1> DEFINE h == handler[c]
<1>1. /\ h.at = "writing" /\ h \in GadgetHeld /\ handler \in [Clients -> GadgetHeld] /\ spoilt \in BOOLEAN
      /\ h.device = "keyboard" => h.report \subseteq Gadget!Codes
      /\ h.device = "mouse" => h.report \subseteq MouseButtons
  BY DEF Gadget!Written, GadgetInv, GadgetTyped, Gadget!TypeOK, Gadget!Writing
<1>2. UNCHANGED <<gOpen, gMods, gPressed, gButtons, owner>>
  BY DEF Gadget!Written
<1>3. PICK g \in GadgetHeld : g.at # "writing" /\ handler' = [handler EXCEPT ![c] = g]
  BY <1>1, GadgetGoesOn DEF Gadget!Written
<1>4. /\ handler'[c] = g /\ \A o \in Clients \ {c} : handler'[o] = handler[o]
      /\ handler' \in [Clients -> GadgetHeld]
  BY <1>1, <1>3
<1>5. \/ /\ h.device = "keyboard" /\ typed' = h.report /\ UNCHANGED <<clicked, spoilt>>
      \/ /\ h.device = "mouse" /\ clicked' = h.report /\ UNCHANGED <<typed, spoilt>>
      \/ /\ spoilt' = (spoilt \/ h.device = "keyboard") /\ UNCHANGED <<typed, clicked>>
  BY DEF Gadget!Written
<1>6. Gadget!Writing(c, h.device) /\ h.device \in Gadget!Devices
  BY <1>1 DEF Gadget!Writing, GadgetHeld
<1>7. /\ \A d \in Gadget!Devices : ~Gadget!Writing(c, d)'
      /\ \A o \in Clients \ {c}, d \in Gadget!Devices : Gadget!Writing(o, d)' <=> Gadget!Writing(o, d)
  BY <1>3, <1>4 DEF Gadget!Writing
<1> HIDE DEF h
<1>8. spoilt' \in BOOLEAN /\ (h.device = "mouse" => spoilt' = spoilt) /\ (~spoilt' => ~spoilt)
  BY <1>1, <1>5, <1>6 DEF Gadget!Devices
<1>9. typed' \subseteq Gadget!Codes /\ clicked' \subseteq MouseButtons
  BY <1>1, <1>5 DEF GadgetInv, GadgetTyped, Gadget!TypeOK
<1>10. GadgetTyped'
  BY <1>2, <1>3, <1>4, <1>8, <1>9 DEF GadgetInv, GadgetTyped, Gadget!TypeOK, Gadget!Writing
<1>11. GadgetCurrent'
  <2>1. SUFFICES ASSUME ~spoilt' PROVE GadgetCurrent'
    BY DEF GadgetCurrent
  <2>2. ~spoilt /\ "keyboard" \in Gadget!Devices
    BY <1>8, <2>1 DEF Gadget!Devices
  <2>3. CASE h.device = "keyboard"
    <3>1. typed' = h.report /\ h.report = GadgetDown
      BY <1>1, <1>5, <1>6, <2>1, <2>2, <2>3 DEF GadgetInv, GadgetCurrent, h
    <3>2. \A o \in Clients : ~Gadget!Writing(o, "keyboard")'
      BY <1>6, <1>7, <2>2, <2>3 DEF GadgetInv, GadgetCurrent
    <3> QED
      BY <1>2, <3>1, <3>2 DEF GadgetCurrent, GadgetDown
  <2>4. CASE h.device = "mouse"
    <3>1. typed' = typed
      BY <1>5, <2>4
    <3>2. ~Gadget!Writing(c, "keyboard") /\ ~Gadget!Writing(c, "keyboard")'
      BY <1>7, <2>2, <2>4 DEF Gadget!Writing, h
    <3>3. \A o \in Clients : Gadget!Writing(o, "keyboard")' <=> Gadget!Writing(o, "keyboard")
      BY <1>7, <2>2, <3>2
    <3> QED
      BY <1>2, <1>4, <2>2, <3>1, <3>2, <3>3 DEF GadgetInv, GadgetCurrent, GadgetDown
  <2> QED
    BY <1>6, <2>3, <2>4 DEF Gadget!Devices
<1> QED
  BY <1>2, <1>10, <1>11 DEF GadgetInv, GadgetOwned, GadgetDown

LEMMA GadgetWakesKeeps ==
  ASSUME HostConstants, GadgetInv, NEW c \in Clients, Gadget!Wakes(c)
  PROVE  GadgetInv'
<1>1. handler[c].at # "writing"
  BY DEF Gadget!Wakes
<1>2. CASE Gadget!Releases(c)
  BY <1>1, <1>2, GadgetReleasesKeeps
<1>3. CASE Gadget!SendsButtons(c, gButtons \ {handler[c].button}, "done", "none")
  <2>1. gButtons \ {handler[c].button} \in SUBSET MouseButtons
    BY GadgetKeysFacts
  <2> QED
    BY <1>1, <1>3, <2>1, GadgetSendsButtonsKeeps
<1> QED
  BY <1>2, <1>3 DEF Gadget!Wakes

-----------------------------------------------------------------------------
LEMMA GadgetInvInit == ASSUME HostConstants PROVE Gadget!Init => GadgetInv
<1> SUFFICES ASSUME Gadget!Init PROVE GadgetInv
  OBVIOUS
<1>1. gPressed = <<>> /\ Len(gPressed) = 0 /\ gPressed \in Seq(Keys) /\ Gadget!ToSet(gPressed) = {}
  BY EmptySeq DEF Gadget!Init, Gadget!ToSet
<1>2. Gadget!Idle \in GadgetHeld /\ Gadget!Idle.at = "idle"
  BY DEF Gadget!Idle, GadgetHeld, Gadget!Devices
<1>3. GadgetTyped
  <2>1. owner \in GadgetOwners
    BY GadgetNobody DEF Gadget!Init
  <2>2. Len(gPressed) <= GadgetSlots
    BY <1>1 DEF HostConstants
  <2>3. Gadget!TypeOK
    BY <1>1, <2>1, <2>2 DEF Gadget!Init, Gadget!TypeOK, GadgetOwners
  <2> QED
    BY <1>2, <2>3 DEF Gadget!Init, GadgetTyped, Gadget!Writing
<1>4. GadgetCurrent
  BY <1>1, <1>2 DEF Gadget!Init, GadgetCurrent, Gadget!Writing, GadgetDown
<1>5. GadgetOwned
  BY <1>1 DEF Gadget!Init, GadgetOwned, GadgetDown, ChipDistinct
<1> QED
  BY <1>3, <1>4, <1>5 DEF GadgetInv

LEMMA GadgetLifeKeeps ==
  ASSUME HostConstants, GadgetInv
  PROVE  /\ Gadget!Start \/ Gadget!Stop => GadgetInv'
         /\ \A c \in Clients : Gadget!Disconnect(c) => GadgetInv'
         /\ Gadget!Anew => GadgetInv'
<1>1. ASSUME Gadget!Start \/ Gadget!Stop PROVE GadgetInv'
  <2>1. gOpen' \subseteq Gadget!Devices /\ UNCHANGED <<gMods, gPressed, gButtons, handler, typed, clicked, spoilt, owner>>
    BY <1>1 DEF Gadget!Start, Gadget!Stop
  <2> QED
    BY <2>1 DEF GadgetInv, GadgetTyped, Gadget!TypeOK, GadgetCurrent, Gadget!Writing, GadgetDown, GadgetOwned
<1>2. ASSUME NEW c \in Clients, Gadget!Disconnect(c) PROVE GadgetInv'
  <2>1. /\ UNCHANGED <<gOpen, gMods, gPressed, gButtons, handler, typed, clicked, spoilt>>
        /\ owner' = [code \in Gadget!Codes |-> IF owner[code] = c THEN "gone" ELSE owner[code]]
    BY <1>2 DEF Gadget!Disconnect
  <2>2. owner \in GadgetOwners /\ GadgetDown \subseteq Gadget!Codes
    BY GadgetKeysFacts DEF GadgetDown, Gadget!Codes
  <2>3. /\ owner' \in GadgetOwners
        /\ \A code \in GadgetDown : owner[code] # "nobody" => owner'[code] # "nobody"
    BY <2>1, <2>2 DEF GadgetOwners
  <2> QED
    BY <2>1, <2>3 DEF GadgetInv, GadgetTyped, Gadget!TypeOK, GadgetCurrent, Gadget!Writing, GadgetDown, GadgetOwned, GadgetOwners
<1>3. ASSUME Gadget!Anew PROVE GadgetInv'
  <2>1. gPressed' = <<>> /\ Len(gPressed') = 0 /\ gPressed' \in Seq(Keys) /\ Gadget!ToSet(gPressed') = {}
    BY <1>3, EmptySeq DEF Gadget!Anew, Gadget!ToSet
  <2>2. Gadget!Idle \in GadgetHeld /\ Gadget!Idle.at = "idle"
    BY DEF Gadget!Idle, GadgetHeld, Gadget!Devices
  <2>3. GadgetTyped'
    BY <1>3, <2>1, <2>2, GadgetNobody
       DEF Gadget!Anew, GadgetInv, GadgetTyped, Gadget!TypeOK, Gadget!Writing, HostConstants, GadgetOwners
  <2>4. GadgetOwned'
    BY <1>3, <2>1 DEF Gadget!Anew, GadgetOwned, GadgetDown, ChipDistinct
  <2> QED
    BY <1>3, <2>3, <2>4 DEF Gadget!Anew, GadgetInv, GadgetCurrent
<1> QED
  BY <1>1, <1>2, <1>3

LEMMA GadgetInvStep == ASSUME HostConstants PROVE GadgetInv /\ [Gadget!Next]_(Gadget!vars) => GadgetInv'
<1> SUFFICES ASSUME GadgetInv, [Gadget!Next]_(Gadget!vars) PROVE GadgetInv'
  OBVIOUS
<1>1. CASE UNCHANGED Gadget!vars
  BY <1>1 DEF Gadget!vars, GadgetInv, GadgetTyped, Gadget!TypeOK, GadgetCurrent, Gadget!Writing, GadgetDown, GadgetOwned
<1> QED
  BY <1>1, GadgetMessageKeeps, GadgetWrittenKeeps, GadgetWakesKeeps, GadgetLifeKeeps DEF Gadget!Next

LEMMA GadgetInvHolds == GadgetInv => Gadget!TypeOK /\ Gadget!QuietIsCurrent
BY DEF GadgetInv, GadgetTyped, GadgetCurrent, GadgetDown, GadgetOwned, Gadget!QuietIsCurrent

LEMMA GadgetMoves == [Next]_vars => [Gadget!Next]_(Gadget!vars)
BY DEF Next, NextDevices, NextBoard, NotKeys, vars, gadgetVars, Gadget!vars

-----------------------------------------------------------------------------
(* The keyboard of the Orange Pi: hid.py.                                     *)

(* What the keyboard counts as pressed. *)
OrangeDown == oMods \cup Orange!ToSet(oPressed)

OrangeDevices == {"keyboard", "mouse"}
OrangeCodes   == Modifiers \cup (Keys \cup SpareKeys) \cup MouseButtons

OrangePending == [at : {"none", "typing", "combo", "comboing", "clicking", "click", "held"},
            report : SUBSET OrangeCodes, button : MouseButtons \cup {"none"}]

OrangeTyped == Orange!TypeOK /\ message \in OrangePending /\ seen \in [OrangeDevices -> SUBSET OrangeCodes]

(* Nothing is under way, and nothing down, where no keyboard is. *)
OrangeLife ==
  /\ oServer = "down" => message = Orange!None
  /\ oServer = "stopping" \/ (oServer = "up" /\ "keyboard" \notin open) => oMods = {} /\ oPressed = <<>>

(* A report of the keyboard that is being written is what counts as pressed;  *)
(* else the host has seen it, or nothing, when the server is down.            *)
OrangeCurrent ==
  /\ message.at \in {"typing", "combo"} => message.report = OrangeDown
  /\ message.at \notin {"typing", "combo"} /\ "keyboard" \notin unclean =>
       seen["keyboard"] = (IF oServer = "down" THEN {} ELSE OrangeDown)

OrangeInv == OrangeTyped /\ OrangeLife /\ OrangeCurrent

-----------------------------------------------------------------------------
(* A message of the keyboard that is handed to the pool. *)
LEMMA OrangeTypesKeeps ==
  ASSUME HostConstants, OrangeInv, oServer' \in {"up", "stopping"}, NEW m \in SUBSET Modifiers,
         NEW k \in Seq((Keys \cup SpareKeys)), Len(k) <= OrangeSlots, NEW then \in {"typing", "combo"}, Orange!Types(m, k, then),
         UNCHANGED <<open, held, seen, unclean>>,
         oServer' = "stopping" \/ "keyboard" \notin open => m = {} /\ k = <<>>
  PROVE  OrangeInv'
<1> DEFINE h == [at |-> then, report |-> m \cup Orange!ToSet(k), button |-> "none"]
<1>1. oMods' = m /\ oPressed' = k /\ message' = h
  BY DEF Orange!Types
<1>2. Orange!ToSet(k) \subseteq (Keys \cup SpareKeys)
  BY LenProperties, ElementOfSeq DEF Orange!ToSet
<1>3. h \in OrangePending /\ h.at \in {"typing", "combo"} /\ h.report = m \cup Orange!ToSet(k) /\ h # Orange!None
  BY <1>2 DEF OrangePending, OrangeCodes, Orange!None
<1> HIDE DEF h
<1>4. OrangeTyped'
  BY <1>1, <1>3 DEF OrangeInv, OrangeTyped, Orange!TypeOK
<1>5. OrangeLife'
  BY <1>1 DEF OrangeLife
<1>6. OrangeCurrent'
  BY <1>1, <1>3 DEF OrangeCurrent, OrangeDown
<1> QED
  BY <1>4, <1>5, <1>6 DEF OrangeInv

(* One of the mouse. *)
LEMMA OrangeClicksKeeps ==
  ASSUME OrangeInv, oServer \in {"up", "stopping"}, NEW bs \in SUBSET MouseButtons,
         NEW then \in {"clicking", "click"}, NEW b \in MouseButtons \cup {"none"},
         message.at \notin {"typing", "combo"}, held' = bs,
         message' = [at |-> then, report |-> bs, button |-> b],
         UNCHANGED <<oServer, open, oMods, oPressed, seen, unclean>>
  PROVE  OrangeInv'
<1> DEFINE h == [at |-> then, report |-> bs, button |-> b]
<1>1. h \in OrangePending /\ h.at \notin {"typing", "combo"}
  BY DEF OrangePending, OrangeCodes
<1>2. message' = h
  OBVIOUS
<1> HIDE DEF h
<1>3. OrangeTyped'
  BY <1>1, <1>2 DEF OrangeInv, OrangeTyped, Orange!TypeOK
<1>4. OrangeLife' /\ OrangeCurrent'
  BY <1>1, <1>2 DEF OrangeInv, OrangeLife, OrangeCurrent, OrangeDown
<1> QED
  BY <1>3, <1>4 DEF OrangeInv

LEMMA OrangeNoneIsMessage == Orange!None \in OrangePending /\ Orange!None.at = "none"
BY DEF Orange!None, OrangePending

LEMMA OrangeFacts ==
  ASSUME HostConstants, OrangeInv
  PROVE  /\ oMods \in SUBSET Modifiers /\ oPressed \in Seq((Keys \cup SpareKeys)) /\ Len(oPressed) <= OrangeSlots
         /\ held \in SUBSET MouseButtons /\ Len(oPressed) \in Nat /\ DOMAIN oPressed = 1 .. Len(oPressed)
         /\ OrangeSlots \in Nat /\ OrangeSlots # 0 /\ oServer \in {"down", "up", "stopping"}
         /\ message \in OrangePending /\ (oServer = "down" => message = Orange!None)
BY LenProperties DEF OrangeInv, OrangeTyped, Orange!TypeOK, OrangeLife, HostConstants

LEMMA OrangeNoKeys ==
  ASSUME HostConstants
  PROVE  <<>> \in Seq((Keys \cup SpareKeys)) /\ Len(<<>>) = 0 /\ Len(<<>>) <= OrangeSlots /\ Orange!ToSet(<<>>) = {}
<1> DEFINE none == <<>>
<1>1. none \in Seq((Keys \cup SpareKeys)) /\ Len(none) = 0
  BY EmptySeq
<1>2. Orange!ToSet(none) = {}
  BY <1>1 DEF Orange!ToSet
<1> QED
  BY <1>1, <1>2 DEF HostConstants

LEMMA OrangeKeyDownKeeps ==
  ASSUME HostConstants, OrangeInv, NEW code \in Modifiers \cup (Keys \cup SpareKeys), Orange!KeyDown(code)
  PROVE  OrangeInv'
<1>1. oServer' = "up" /\ "keyboard" \in open /\ UNCHANGED <<open, held, seen, unclean>>
  BY DEF Orange!KeyDown, Orange!Served
<1>2. CASE Orange!Types(oMods \cup {code}, oPressed, "typing") /\ code \in Modifiers
  <2>1. oMods \cup {code} \in SUBSET Modifiers
    BY <1>2, OrangeFacts
  <2> QED
    BY <1>1, <1>2, <2>1, OrangeFacts, OrangeTypesKeeps
<1>3. CASE Orange!Types(oMods, oPressed, "typing")
  BY <1>1, <1>3, OrangeFacts, OrangeTypesKeeps
<1>4. CASE code \in (Keys \cup SpareKeys) /\ Len(oPressed) < OrangeSlots /\ Orange!Types(oMods, Append(oPressed, code), "typing")
  <2> DEFINE t == Append(oPressed, code)
  <2>1. t \in Seq((Keys \cup SpareKeys)) /\ Len(t) = Len(oPressed) + 1
    BY <1>4, OrangeFacts, AppendProperties
  <2>2. Orange!Types(oMods, t, "typing")
    BY <1>4
  <2> HIDE DEF t
  <2>3. Len(t) <= OrangeSlots
    BY <1>4, <2>1, OrangeFacts
  <2> QED
    BY <1>1, <2>1, <2>2, <2>3, OrangeFacts, OrangeTypesKeeps
<1>5. CASE code \in Orange!ToSet(oPressed) \/ Len(oPressed) >= OrangeSlots
  BY <1>2, <1>3, <1>5 DEF Orange!KeyDown
<1>6. CASE ~(code \in Orange!ToSet(oPressed) \/ Len(oPressed) >= OrangeSlots)
  <2>1. Len(oPressed) < OrangeSlots
    BY <1>6, OrangeFacts
  <2> QED
    BY <1>2, <1>4, <1>6, <2>1 DEF Orange!KeyDown
<1> QED
  BY <1>5, <1>6

LEMMA OrangeKeyUpKeeps ==
  ASSUME HostConstants, OrangeInv, NEW code \in Modifiers \cup (Keys \cup SpareKeys), Orange!KeyUp(code)
  PROVE  OrangeInv'
<1>1. oServer' = "up" /\ "keyboard" \in open /\ UNCHANGED <<open, held, seen, unclean>>
  BY DEF Orange!KeyUp, Orange!Served
<1>2. CASE Orange!Types(oMods \ {code}, oPressed, "typing")
  <2>1. oMods \ {code} \in SUBSET Modifiers
    BY OrangeFacts
  <2> QED
    BY <1>1, <1>2, <2>1, OrangeFacts, OrangeTypesKeeps
<1>3. CASE Orange!Types(oMods, oPressed, "typing")
  BY <1>1, <1>3, OrangeFacts, OrangeTypesKeeps
<1>4. ASSUME NEW i \in DOMAIN oPressed, Orange!Types(oMods, Orange!RemoveAt(oPressed, i), "typing")
      PROVE  OrangeInv'
  <2> DEFINE t == Orange!RemoveAt(oPressed, i)
  <2>1. t = Without(oPressed, i)
    BY DEF Orange!RemoveAt, Without
  <2>2. Orange!Types(oMods, t, "typing")
    BY <1>4
  <2> HIDE DEF t
  <2>3. t \in Seq((Keys \cup SpareKeys)) /\ Len(t) = Len(oPressed) - 1
    BY <1>4, <2>1, OrangeFacts, ShiftedDown
  <2>4. Len(t) <= OrangeSlots
    BY <2>3, OrangeFacts
  <2> QED
    BY <1>1, <2>2, <2>3, <2>4, OrangeFacts, OrangeTypesKeeps
<1> QED
  BY <1>2, <1>3, <1>4 DEF Orange!KeyUp

(* The release of all keys, by a message, by a combo or by stop(). *)
LEMMA OrangeReleaseKeeps ==
  ASSUME HostConstants, OrangeInv, oServer' \in {"up", "stopping"}, Orange!Types({}, <<>>, "typing"),
         UNCHANGED <<open, held, seen, unclean>>
  PROVE  OrangeInv'
<1> DEFINE none == <<>>
<1>1. none \in Seq((Keys \cup SpareKeys)) /\ Len(none) <= OrangeSlots /\ Orange!Types({}, none, "typing") /\ {} \in SUBSET Modifiers
  BY OrangeNoKeys
<1>2. oServer' = "stopping" \/ "keyboard" \notin open => {} = {} /\ none = <<>>
  OBVIOUS
<1> HIDE DEF none
<1> QED
  BY <1>1, <1>2, OrangeTypesKeeps

LEMMA OrangeComboKeeps ==
  ASSUME HostConstants, OrangeInv, NEW ms \in SUBSET Modifiers, NEW k \in (Keys \cup SpareKeys), Orange!Combo(ms, <<k>>)
  PROVE  OrangeInv'
<1> DEFINE ks == <<k>>
           n  == IF Len(ks) < OrangeSlots THEN Len(ks) ELSE OrangeSlots
           t  == SubSeq(ks, 1, n)
<1>1. ks \in Seq((Keys \cup SpareKeys)) /\ Len(ks) = 1
  OBVIOUS
<1>2. n = 1
  BY <1>1, OrangeFacts
<1>3. /\ oServer' = "up" /\ "keyboard" \in open /\ UNCHANGED <<open, held, seen, unclean>>
      /\ Orange!Types(ms, t, "combo")
  BY DEF Orange!Combo, Orange!Served
<1> HIDE DEF ks, n
<1>4. t \in Seq((Keys \cup SpareKeys)) /\ Len(t) = 1
  <2>1. \A i \in 1 .. n : ks[i] \in (Keys \cup SpareKeys)
    BY <1>1, <1>2, ElementOfSeq
  <2> QED
    BY <1>2, <2>1, SubSeqProperties
<1> HIDE DEF t
<1>5. Len(t) <= OrangeSlots
  BY <1>4, OrangeFacts
<1> QED
  BY <1>3, <1>4, <1>5, OrangeFacts, OrangeTypesKeeps

LEMMA OrangeMessageKeeps ==
  ASSUME HostConstants, OrangeInv, Orange!Message
  PROVE  OrangeInv'
<1>1. CASE Orange!ReleaseAll
  BY <1>1, OrangeReleaseKeeps DEF Orange!ReleaseAll, Orange!Served
<1>2. ASSUME NEW bs \in SUBSET MouseButtons, NEW then \in {"clicking", "click"},
             NEW b \in MouseButtons \cup {"none"}, Orange!Clicks(bs, then, b)
      PROVE  OrangeInv'
  BY <1>2, OrangeNoneIsMessage, OrangeClicksKeeps DEF Orange!Clicks, Orange!Served
<1>3. CASE Orange!Clicks(held, "clicking", "none")
  BY <1>2, <1>3, OrangeFacts
<1>4. ASSUME NEW b \in MouseButtons,
             \/ Orange!Clicks(held \cup {b}, "clicking", "none")
             \/ Orange!Clicks(held \ {b}, "clicking", "none")
             \/ Orange!Clicks(held \cup {b}, "click", b)
      PROVE  OrangeInv'
  <2>1. held \cup {b} \in SUBSET MouseButtons /\ held \ {b} \in SUBSET MouseButtons
    BY OrangeFacts
  <2> QED
    BY <1>2, <1>4, <2>1
<1> QED
  BY <1>1, <1>3, <1>4, OrangeKeyDownKeeps, OrangeKeyUpKeeps, OrangeComboKeeps DEF Orange!Message

LEMMA OrangeWrittenKeeps ==
  ASSUME HostConstants, OrangeInv, Orange!Written
  PROVE  OrangeInv'
<1> DEFINE device == IF message.at \in {"typing", "combo"} THEN "keyboard" ELSE "mouse"
<1>1. /\ message.at \in {"typing", "combo", "clicking", "click"} /\ message.report \subseteq OrangeCodes
      /\ message \in OrangePending
  BY OrangeFacts DEF Orange!Written, OrangePending
<1>2. oServer # "down" /\ UNCHANGED <<oServer, open, oMods, oPressed, held>>
  BY <1>1, OrangeNoneIsMessage, OrangeFacts DEF Orange!Written
<1>3. PICK h \in OrangePending : message' = h /\ h.at \notin {"typing", "combo"}
  <2>1. [message EXCEPT !.at = IF @ = "combo" THEN "comboing" ELSE "held"]
        = [at |-> IF message.at = "combo" THEN "comboing" ELSE "held",
           report |-> message.report, button |-> message.button]
    BY <1>1 DEF OrangePending
  <2>2. [message EXCEPT !.at = IF @ = "combo" THEN "comboing" ELSE "held"] \in OrangePending
    BY <1>1, <2>1 DEF OrangePending
  <2>3. [message EXCEPT !.at = IF @ = "combo" THEN "comboing" ELSE "held"].at \notin {"typing", "combo"}
    BY <2>1
  <2> QED
    BY <2>2, <2>3, OrangeNoneIsMessage DEF Orange!Written
<1>4. \/ seen' = [seen EXCEPT ![device] = message.report] /\ unclean' = unclean \ {device}
      \/ unclean' = unclean \cup {device} /\ UNCHANGED seen
  BY DEF Orange!Written
<1>5. seen \in [OrangeDevices -> SUBSET OrangeCodes] /\ unclean \subseteq OrangeDevices /\ device \in OrangeDevices
  BY DEF OrangeInv, OrangeTyped, Orange!TypeOK, OrangeDevices
<1>6. device = "keyboard" <=> message.at \in {"typing", "combo"}
  OBVIOUS
<1> HIDE DEF device
<1>7. /\ seen' \in [OrangeDevices -> SUBSET OrangeCodes] /\ unclean' \subseteq OrangeDevices
      /\ "keyboard" \notin unclean' /\ device = "keyboard" => seen'["keyboard"] = message.report
      /\ "keyboard" \notin unclean' /\ device # "keyboard" =>
           seen'["keyboard"] = seen["keyboard"] /\ "keyboard" \notin unclean
  BY <1>1, <1>4, <1>5 DEF OrangeDevices
<1>8. OrangeTyped'
  BY <1>2, <1>3, <1>7 DEF OrangeInv, OrangeTyped, Orange!TypeOK, OrangeDevices
<1>9. OrangeLife'
  BY <1>2 DEF OrangeInv, OrangeLife
<1>10. OrangeCurrent'
  BY <1>2, <1>3, <1>6, <1>7 DEF OrangeInv, OrangeCurrent, OrangeDown
<1> QED
  BY <1>8, <1>9, <1>10 DEF OrangeInv

LEMMA OrangeClickEndsKeeps ==
  ASSUME HostConstants, OrangeInv, Orange!ClickEnds
  PROVE  OrangeInv'
<1>1. held \ {message.button} \in SUBSET MouseButtons /\ oServer \in {"up", "stopping"}
  BY OrangeNoneIsMessage, OrangeFacts DEF Orange!ClickEnds
<1> QED
  BY <1>1, OrangeClicksKeeps DEF Orange!ClickEnds

-----------------------------------------------------------------------------
(* start(), stop() and the death of the server. *)
LEMMA OrangeLifeKeeps ==
  ASSUME HostConstants, OrangeInv, Orange!Start \/ Orange!Stop \/ Orange!Close \/ Orange!Crash
  PROVE  OrangeInv'
<1>0. Orange!None \in OrangePending /\ Orange!None.at = "none"
  BY OrangeNoneIsMessage
<1>1. CASE Orange!Start
  <2>1. /\ oServer = "down" /\ oServer' = "up" /\ oMods' = {} /\ oPressed' = <<>> /\ held' = {}
        /\ message' = Orange!None /\ open' \subseteq OrangeDevices /\ UNCHANGED <<seen, unclean>>
    BY <1>1 DEF Orange!Start, OrangeDevices
  <2>2. OrangeTyped'
    BY <1>0, <2>1, OrangeNoKeys DEF OrangeInv, OrangeTyped, Orange!TypeOK, OrangeDevices
  <2>3. OrangeLife'
    BY <2>1 DEF OrangeLife
  <2>4. message = Orange!None
    BY <2>1, OrangeFacts
  <2>5. OrangeCurrent'
    BY <1>0, <2>1, <2>4, OrangeNoKeys DEF OrangeInv, OrangeCurrent, OrangeDown
  <2> QED
    BY <2>2, <2>3, <2>5 DEF OrangeInv
<1>2. CASE Orange!Stop /\ "keyboard" \in open
  BY <1>2, OrangeReleaseKeeps DEF Orange!Stop
<1>3. CASE (Orange!Stop /\ "keyboard" \notin open) \/ Orange!Close
  <2>1. /\ oServer \in {"up", "stopping"} /\ message = Orange!None /\ oServer' = "down" /\ open' = {}
        /\ UNCHANGED <<oMods, oPressed, message, held, seen, unclean>> /\ OrangeDown = {}
    BY <1>3, OrangeNoKeys DEF Orange!Stop, Orange!Close, OrangeInv, OrangeLife, OrangeDown
  <2>2. OrangeTyped' /\ OrangeLife'
    BY <1>0, <2>1 DEF OrangeInv, OrangeTyped, Orange!TypeOK, OrangeLife
  <2>3. OrangeCurrent'
    BY <1>0, <2>1 DEF OrangeInv, OrangeCurrent, OrangeDown
  <2> QED
    BY <2>2, <2>3 DEF OrangeInv
<1>4. CASE Orange!Crash
  <2>1. /\ oServer' = "down" /\ open' = {} /\ message' = Orange!None /\ unclean' = OrangeDevices
        /\ UNCHANGED <<oMods, oPressed, held, seen>>
    BY <1>4 DEF Orange!Crash, OrangeDevices
  <2>2. OrangeTyped' /\ OrangeLife'
    BY <1>0, <2>1 DEF OrangeInv, OrangeTyped, Orange!TypeOK, OrangeLife, OrangeDevices
  <2>3. OrangeCurrent'
    BY <1>0, <2>1 DEF OrangeCurrent, OrangeDevices
  <2> QED
    BY <2>2, <2>3 DEF OrangeInv
<1> QED
  BY <1>1, <1>2, <1>3, <1>4

LEMMA OrangeInvInit == ASSUME HostConstants PROVE Orange!Init => OrangeInv
<1> SUFFICES ASSUME Orange!Init PROVE OrangeInv
  OBVIOUS
<1>1. OrangeTyped
  BY OrangeNoKeys, OrangeNoneIsMessage DEF Orange!Init, OrangeTyped, Orange!TypeOK, OrangeDevices
<1>2. OrangeLife /\ OrangeCurrent
  BY OrangeNoneIsMessage DEF Orange!Init, OrangeLife, OrangeCurrent
<1> QED
  BY <1>1, <1>2 DEF OrangeInv

LEMMA OrangeInvStep == ASSUME HostConstants PROVE OrangeInv /\ [Orange!Next]_(Orange!vars) => OrangeInv'
<1> SUFFICES ASSUME OrangeInv, [Orange!Next]_(Orange!vars) PROVE OrangeInv'
  OBVIOUS
<1>1. CASE Orange!ComboEnds
  <2>1. oServer \in {"up", "stopping"}
    BY <1>1, OrangeNoneIsMessage, OrangeFacts DEF Orange!ComboEnds
  <2> QED
    BY <1>1, <2>1, OrangeReleaseKeeps DEF Orange!ComboEnds
<1>2. CASE UNCHANGED Orange!vars
  BY <1>2 DEF Orange!vars, OrangeInv, OrangeTyped, Orange!TypeOK, OrangeLife, OrangeCurrent, OrangeDown
<1> QED
  BY <1>1, <1>2, OrangeMessageKeeps, OrangeWrittenKeeps, OrangeClickEndsKeeps, OrangeLifeKeeps DEF Orange!Next

LEMMA OrangeInvHolds == OrangeInv => Orange!TypeOK /\ Orange!StopReleasesKeys
BY OrangeNoneIsMessage DEF OrangeInv, OrangeTyped, OrangeCurrent, OrangeDown, Orange!StopReleasesKeys

LEMMA OrangeMoves == [Next]_vars => [Orange!Next]_(Orange!vars)
BY DEF Next, NextDevices, NextBoard, NotKeys, vars, orangeVars, Orange!vars

(* usb_hid.cpp, hid.py of both boards: every key the managed host sees down is *)
(* accounted for in any interleaving of messages, releases, writes that fail,   *)
(* starts and stops: on the chip a browser pressed it; on the CM4's gadget some *)
(* browser pressed it, which may be gone, and none has released it; on the       *)
(* Orange Pi the server counts it, and none is down after an orderly stop; on   *)
(* the boards unless the last report was lost, overtaken, or of a server that   *)
(* has ended.                                                                 *)
THEOREM KeysAreAccountedFor == Spec => []KeysAccountedFor
<1> DEFINE KeysInv == ChipInv /\ GadgetInv /\ OrangeInv
<1>1. Init => KeysInv
  BY ChipInvInit, GadgetInvInit, OrangeInvInit, HostConstants DEF Init, PartsInit
<1>2. KeysInv /\ [Next]_vars => KeysInv'
  BY ChipInvStep, ChipMoves, GadgetInvStep, GadgetMoves, OrangeInvStep, OrangeMoves, HostConstants
<1>3. KeysInv => KeysAccountedFor
  BY GadgetInvHolds, OrangeInvHolds DEF ChipInv, KeysAccountedFor
<1> QED
  BY <1>1, <1>2, <1>3, PTL DEF Spec

-----------------------------------------------------------------------------
(* The serial link and the flashing of the chip: esp32_flasher.py, hid.py. *)

LinkObject == [made : BOOLEAN, open : BOOLEAN, connected : BOOLEAN, beats : BOOLEAN, missed : 0 .. Patience]

LinkRequest == [at : Link!Places, gone : BOOLEAN, of : 0 .. MaxBridges]

LinkChip == [en : BOOLEAN, boot : BOOLEAN, runs : {"app", "loader", "nothing"}]

(* Who pulls which line down, and what the chip makes of it; a thread left on *)
(* its way into the boot loader is a flash cut short.                         *)
LinkBootHeld == ~chip.boot => cut \/ \E r \in Requests : request[r].at \in {"enter2", "enter3", "esptool", "exit1"}
LinkEnHeld   == ~chip.en => \E r \in Requests : request[r].at \in {"enter3", "exit3", "high"}
LinkRuns     == chip.runs = "nothing" <=> ~chip.en
LinkLoads    == chip.runs = "loader" =>
                  cut \/ \E r \in Requests : request[r].at \in {"enter2", "enter3", "esptool", "exit1", "exit2"}
LinkLeft     == \A r \in Requests : request[r].gone /\ request[r].at \in Link!Entering => cut

LinkLinesHeld == LinkBootHeld /\ LinkEnHeld /\ LinkRuns /\ LinkLoads /\ LinkLeft

(* Where nothing crossed, one request at a time is under way, only the        *)
(* current bridge may be open, it does not beat while a flash or a reset is    *)
(* under way, and from the first step to esptool it is closed.                *)
LinkPortIsFree ==
  ~crossed =>
    /\ \A r, o \in Requests : request[r].at # "idle" /\ request[o].at # "idle" => r = o
    /\ \A r \in Requests : request[r].at # "idle" => select = 0 /\ ~bridge[current].beats
    /\ select # 0 => select = current
    /\ \A b \in Link!Bridges : b # current => ~bridge[b].open /\ ~bridge[b].beats
    /\ \A r \in Requests : request[r].at \in {"closing", "stopping"} => request[r].of = current
    /\ \A r \in Requests : request[r].at \in Link!Entering \cup {"esptool"} => ~bridge[current].open

LinkInv == Link!TypeOK /\ LinkLinesHeld /\ LinkPortIsFree

-----------------------------------------------------------------------------
LEMMA LinkFacts ==
  ASSUME HostConstants, LinkInv
  PROVE  /\ bridge \in [Link!Bridges -> LinkObject] /\ current \in Link!Bridges
         /\ \A b \in Link!Bridges : bridge[b] \in LinkObject
         /\ request \in [Requests -> LinkRequest] /\ \A r \in Requests : request[r] \in LinkRequest
         /\ chip \in LinkChip /\ select \in 0 .. MaxBridges /\ crossed \in BOOLEAN /\ cut \in BOOLEAN
         /\ Link!Bridges = 1 .. MaxBridges /\ MaxBridges \in Nat /\ Patience \in Nat
         /\ Link!Bridges \subseteq 0 .. MaxBridges
BY DEF LinkInv, Link!TypeOK, LinkObject, LinkRequest, LinkChip, Link!Bridges, HostConstants

LEMMA LinkTypes ==
  ASSUME bridge' \in [Link!Bridges -> LinkObject], current' \in Link!Bridges,
         request' \in [Requests -> LinkRequest], chip' \in LinkChip, select' \in 0 .. MaxBridges,
         crossed' \in BOOLEAN, cut' \in BOOLEAN
  PROVE  Link!TypeOK'
BY DEF Link!TypeOK, LinkObject, LinkRequest, LinkChip

(* One bridge, or one request, is replaced. *)
LEMMA LinkBridgeSet ==
  ASSUME HostConstants, LinkInv, NEW b \in Link!Bridges, NEW g \in LinkObject,
         bridge' = [bridge EXCEPT ![b] = g]
  PROVE  /\ bridge' \in [Link!Bridges -> LinkObject] /\ bridge'[b] = g
         /\ \A o \in Link!Bridges : o # b => bridge'[o] = bridge[o]
BY LinkFacts

LEMMA LinkRequestSet ==
  ASSUME HostConstants, LinkInv, NEW r \in Requests, NEW x \in LinkRequest,
         request' = [request EXCEPT ![r] = x]
  PROVE  /\ request' \in [Requests -> LinkRequest] /\ request'[r] = x
         /\ \A o \in Requests : o # r => request'[o] = request[o]
BY LinkFacts

(* The lines depend on the chip, the requests and on what was cut short. *)
LEMMA LinkLinesStay ==
  ASSUME LinkInv, UNCHANGED <<chip, request, cut>>
  PROVE  LinkLinesHeld'
BY DEF LinkInv, LinkLinesHeld, LinkBootHeld, LinkEnHeld, LinkRuns, LinkLoads, LinkLeft

(* A request moves between two places in which it holds no line. *)
LinkAway == {"idle", "closing", "stopping", "enter1", "low", "reopen", "restart"}

LEMMA LinkLinesApart ==
  ASSUME HostConstants, LinkInv, UNCHANGED <<chip, cut>>, NEW r \in Requests, NEW x \in LinkRequest,
         request' = [request EXCEPT ![r] = x], request[r].at \in LinkAway,
         x.gone => x.at \notin Link!Entering
  PROVE  LinkLinesHeld'
<1>1. request'[r] = x /\ \A o \in Requests : o # r => request'[o] = request[o]
  BY LinkRequestSet
<1>2. \A o \in Requests : request[o].at \notin LinkAway => request'[o] = request[o]
  BY <1>1
<1>3. /\ \A at \in {"enter2", "enter3", "esptool", "exit1", "exit2", "exit3", "high"} : at \notin LinkAway
  BY DEF LinkAway
<1>4. LinkBootHeld' /\ LinkEnHeld' /\ LinkRuns' /\ LinkLoads'
  BY <1>2, <1>3 DEF LinkInv, LinkLinesHeld, LinkBootHeld, LinkEnHeld, LinkRuns, LinkLoads
<1>5. LinkLeft'
  BY <1>1 DEF LinkInv, LinkLinesHeld, LinkLeft
<1> QED
  BY <1>4, <1>5 DEF LinkLinesHeld

-----------------------------------------------------------------------------
(* The bridges: a heartbeat or a failed write neither opens one nor lets it    *)
(* beat.                                                                     *)
LEMMA LinkSameBridge ==
  ASSUME HostConstants, LinkInv, UNCHANGED <<current, request, select, chip, crossed, cut>>,
         NEW b \in Link!Bridges, NEW g \in LinkObject, bridge' = [bridge EXCEPT ![b] = g],
         g.open = bridge[b].open, g.beats = bridge[b].beats
  PROVE  LinkInv'
<1>1. /\ bridge' \in [Link!Bridges -> LinkObject]
      /\ \A o \in Link!Bridges : bridge'[o].open = bridge[o].open /\ bridge'[o].beats = bridge[o].beats
  BY LinkBridgeSet
<1>2. Link!TypeOK'
  BY <1>1, LinkFacts, LinkTypes
<1>3. LinkPortIsFree'
  BY <1>1, LinkFacts DEF LinkInv, LinkPortIsFree
<1> QED
  BY <1>2, <1>3, LinkLinesStay DEF LinkInv

LEMMA LinkHeartbeatKeeps ==
  ASSUME HostConstants, LinkInv, NEW b \in Link!Bridges, Link!Heartbeat(b)
  PROVE  LinkInv'
<1> DEFINE g == bridge[b]
           n == IF g.missed < Patience THEN g.missed + 1 ELSE g.missed
           answered == [g EXCEPT !.missed = 0]
           late     == [g EXCEPT !.missed = n, !.connected = (g.missed + 1 < Patience)]
<1>1. UNCHANGED <<current, request, select, chip, crossed, cut>>
  BY DEF Link!Heartbeat
<1>2. g \in LinkObject /\ g.missed \in 0 .. Patience /\ Patience \in Nat
  BY LinkFacts DEF LinkObject
<1>3. n \in 0 .. Patience
  BY <1>2
<1>4. answered \in LinkObject /\ late \in LinkObject /\ answered.open = g.open /\ late.open = g.open
      /\ answered.beats = g.beats /\ late.beats = g.beats
  <2>1. ASSUME NEW x \in 0 .. Patience, NEW y \in BOOLEAN
        PROVE  /\ [g EXCEPT !.missed = x, !.connected = y] \in LinkObject
               /\ [g EXCEPT !.missed = x] \in LinkObject
               /\ [g EXCEPT !.missed = x, !.connected = y].open = g.open
               /\ [g EXCEPT !.missed = x, !.connected = y].beats = g.beats
               /\ [g EXCEPT !.missed = x].open = g.open /\ [g EXCEPT !.missed = x].beats = g.beats
    BY <1>2 DEF LinkObject
  <2>2. 0 \in 0 .. Patience /\ (g.missed + 1 < Patience) \in BOOLEAN
    BY <1>2
  <2> HIDE DEF g, n
  <2> QED
    BY <1>3, <2>1, <2>2
<1>5. bridge' = [bridge EXCEPT ![b] = answered] \/ bridge' = [bridge EXCEPT ![b] = late]
  <2>1. CASE bridge' = [bridge EXCEPT ![b].missed = 0]
    BY <2>1
  <2>2. CASE bridge' = [bridge EXCEPT ![b].missed = IF @ < Patience THEN @ + 1 ELSE @,
                                      ![b].connected = bridge[b].missed + 1 < Patience]
    BY <2>2, LinkFacts
  <2> QED
    BY <2>1, <2>2 DEF Link!Heartbeat
<1>6. PICK h \in LinkObject : bridge' = [bridge EXCEPT ![b] = h] /\ h.open = bridge[b].open /\ h.beats = bridge[b].beats
  BY <1>4, <1>5
<1> QED
  BY <1>1, <1>6, LinkSameBridge

LEMMA LinkWriteFailsKeeps ==
  ASSUME HostConstants, LinkInv, Link!WriteFails
  PROVE  LinkInv'
<1> DEFINE g == [bridge[current] EXCEPT !.connected = FALSE]
<1>1. UNCHANGED <<current, request, select, chip, crossed, cut>> /\ bridge' = [bridge EXCEPT ![current] = g]
  BY LinkFacts DEF Link!WriteFails
<1>2. g \in LinkObject /\ g.open = bridge[current].open /\ g.beats = bridge[current].beats
  BY LinkFacts DEF LinkObject
<1> HIDE DEF g
<1> QED
  BY <1>1, <1>2, LinkFacts, LinkSameBridge

LEMMA LinkSelectKeeps ==
  ASSUME HostConstants, LinkInv, Link!SelectPort \/ Link!SelectProbed
  PROVE  LinkInv'
<1>1. CASE Link!SelectPort
  <2> DEFINE g == [bridge[current] EXCEPT !.beats = FALSE, !.open = FALSE]
  <2>1. /\ UNCHANGED <<current, request, chip, cut>> /\ bridge' = [bridge EXCEPT ![current] = g]
        /\ select' = current /\ crossed' = (crossed \/ Link!Working)
    BY <1>1, LinkFacts DEF Link!SelectPort, Link!Crosses
  <2>2. g \in LinkObject /\ ~g.open /\ ~g.beats
    BY LinkFacts DEF LinkObject
  <2> HIDE DEF g
  <2>3. /\ bridge' \in [Link!Bridges -> LinkObject] /\ bridge'[current] = g
        /\ \A o \in Link!Bridges : o # current => bridge'[o] = bridge[o]
    BY <2>1, <2>2, LinkFacts, LinkBridgeSet
  <2>4. Link!Working \in BOOLEAN /\ crossed' \in BOOLEAN
        /\ (~crossed' => ~crossed /\ \A r \in Requests : request[r].at = "idle")
    BY <2>1, LinkFacts DEF Link!Working, Link!At
  <2>5. Link!TypeOK'
    BY <2>1, <2>3, <2>4, LinkFacts, LinkTypes
  <2>6. LinkPortIsFree'
    BY <2>1, <2>2, <2>3, <2>4 DEF LinkInv, LinkPortIsFree, Link!Entering
  <2> QED
    BY <2>1, <2>5, <2>6, LinkLinesStay DEF LinkInv
<1>2. CASE Link!SelectProbed /\ bridge' = bridge
  <2>1. /\ UNCHANGED <<bridge, current, request, chip, crossed, cut>> /\ select' = 0
    BY <1>2 DEF Link!SelectProbed
  <2>2. Link!TypeOK'
    BY <2>1, LinkFacts, LinkTypes
  <2>3. LinkPortIsFree'
    BY <2>1 DEF LinkInv, LinkPortIsFree
  <2> QED
    BY <2>1, <2>2, <2>3, LinkLinesStay DEF LinkInv
<1>3. ASSUME Link!SelectProbed, NEW ok \in BOOLEAN,
             bridge' = [bridge EXCEPT ![select] = [@ EXCEPT !.open = ok, !.connected = ok, !.beats = ok]]
      PROVE  LinkInv'
  <2> DEFINE g == [bridge[select] EXCEPT !.open = ok, !.connected = ok, !.beats = ok]
  <2>0. UNCHANGED <<current, request, chip, crossed, cut>> /\ select # 0 /\ select' = 0
    BY <1>3 DEF Link!SelectProbed
  <2>1. UNCHANGED <<current, request, chip, crossed, cut>> /\ select' = 0 /\ select \in Link!Bridges
    BY <2>0, LinkFacts
  <2>2. bridge' = [bridge EXCEPT ![select] = g]
    BY <1>3, <2>1, LinkFacts
  <2>3. g \in LinkObject
    BY <2>1, LinkFacts DEF LinkObject
  <2> HIDE DEF g
  <2>4. /\ bridge' \in [Link!Bridges -> LinkObject]
        /\ \A o \in Link!Bridges : o # select => bridge'[o] = bridge[o]
    BY <2>1, <2>2, <2>3, LinkBridgeSet
  <2>5. Link!TypeOK'
    BY <2>1, <2>4, LinkFacts, LinkTypes
  <2>6. LinkPortIsFree'
    <3> SUFFICES ASSUME ~crossed PROVE LinkPortIsFree'
      BY <2>1 DEF LinkPortIsFree
    <3>1. select = current /\ \A r \in Requests : request[r].at = "idle"
      BY <2>0, <2>1 DEF LinkInv, LinkPortIsFree
    <3> QED
      BY <2>1, <2>4, <3>1 DEF LinkInv, LinkPortIsFree, Link!Entering
  <2> QED
    BY <2>1, <2>5, <2>6, LinkLinesStay DEF LinkInv
<1> QED
  BY <1>1, <1>2, <1>3 DEF Link!SelectProbed

-----------------------------------------------------------------------------
(* A flash or a reset begins: the current bridge no longer beats. *)
LEMMA LinkStopKeeps ==
  ASSUME HostConstants, LinkInv, NEW r \in Requests, NEW w \in {"closing", "stopping"}, Link!Stop(r, w)
  PROVE  LinkInv'
<1> DEFINE g == [bridge[current] EXCEPT !.beats = FALSE]
           x == [at |-> w, gone |-> FALSE, of |-> current]
<1>1. /\ UNCHANGED <<current, select, chip, cut>> /\ bridge' = [bridge EXCEPT ![current] = g]
      /\ request' = [request EXCEPT ![r] = x] /\ request[r].at = "idle"
      /\ crossed' = (crossed \/ Link!Working)
  BY LinkFacts DEF Link!Stop, Link!Crosses, Link!At
<1>2. g \in LinkObject /\ ~g.beats
  BY LinkFacts DEF LinkObject
<1>3. x \in LinkRequest /\ x.at = w /\ ~x.gone /\ x.of = current
  BY LinkFacts DEF LinkRequest, Link!Places, Link!Flashing
<1> HIDE DEF g, x
<1>4. /\ bridge' \in [Link!Bridges -> LinkObject] /\ bridge'[current] = g
      /\ \A o \in Link!Bridges : o # current => bridge'[o] = bridge[o]
  BY <1>1, <1>2, LinkFacts, LinkBridgeSet
<1>5. /\ request' \in [Requests -> LinkRequest] /\ request'[r] = x
      /\ \A o \in Requests : o # r => request'[o] = request[o]
  BY <1>1, <1>3, LinkRequestSet
<1>6. Link!Working \in BOOLEAN /\ crossed' \in BOOLEAN
      /\ (~crossed' => ~crossed /\ select = 0 /\ \A o \in Requests : request[o].at = "idle")
  BY <1>1, LinkFacts DEF Link!Working, Link!At
<1>7. Link!TypeOK'
  BY <1>1, <1>4, <1>5, <1>6, LinkFacts, LinkTypes
<1>8. LinkLinesHeld'
  BY <1>1, <1>3, LinkLinesApart DEF LinkAway
<1>9. LinkPortIsFree'
  <2> SUFFICES ASSUME ~crossed' PROVE LinkPortIsFree'
    BY DEF LinkPortIsFree
  <2>1. \A o \in Requests : o # r => request'[o].at = "idle"
    BY <1>5, <1>6
  <2>2. "idle" \notin Link!Entering \cup {"esptool"} /\ w \notin Link!Entering \cup {"esptool"}
    BY DEF Link!Entering
  <2>3. \A o \in Link!Bridges : o # current => ~bridge'[o].open /\ ~bridge'[o].beats
    BY <1>4, <1>6 DEF LinkInv, LinkPortIsFree
  <2> QED
    BY <1>1, <1>2, <1>3, <1>4, <1>5, <1>6, <2>1, <2>2, <2>3 DEF LinkPortIsFree
<1> QED
  BY <1>7, <1>8, <1>9 DEF LinkInv

(* The link is closed, or closing it raises. *)
LEMMA LinkStoppedKeeps ==
  ASSUME HostConstants, LinkInv, NEW r \in Requests, Link!Stopped(r)
  PROVE  LinkInv'
<1>1. PICK at \in {"enter1", "low", "exit1", "idle"} :
        /\ request' = [request EXCEPT ![r] = [at |-> at, gone |-> FALSE, of |-> 0]]
        /\ \/ /\ bridge' = [bridge EXCEPT ![request[r].of] = [@ EXCEPT !.open = FALSE, !.connected = FALSE]]
              /\ at \in {"enter1", "low"}
           \/ bridge' = bridge /\ at \in {"exit1", "idle"}
        /\ request[r].at \in {"closing", "stopping"}
        /\ UNCHANGED <<current, select, chip, crossed, cut>>
  BY DEF Link!Stopped, Link!At
<1> DEFINE x == [at |-> at, gone |-> FALSE, of |-> 0]
<1>2. x \in LinkRequest /\ x.at = at /\ ~x.gone
  BY LinkFacts DEF LinkRequest, Link!Places, Link!Flashing, Link!Entering, Link!Exiting, Link!Resetting
<1>3. request' = [request EXCEPT ![r] = x]
  BY <1>1
<1> HIDE DEF x
<1>4. /\ request' \in [Requests -> LinkRequest] /\ request'[r] = x
      /\ \A o \in Requests : o # r => request'[o] = request[o]
  BY <1>2, <1>3, LinkRequestSet
<1>5. LinkLinesHeld'
  BY <1>1, <1>2, <1>3, LinkLinesApart DEF LinkAway
<1>6. /\ bridge' \in [Link!Bridges -> LinkObject]
      /\ \A b \in Link!Bridges : bridge'[b].beats = bridge[b].beats /\ (bridge'[b].open => bridge[b].open)
      /\ at \in {"enter1", "low"} => (request[r].of \in Link!Bridges => ~bridge'[request[r].of].open)
  <2>1. CASE bridge' = bridge /\ at \in {"exit1", "idle"}
    BY <2>1, LinkFacts
  <2>2. CASE bridge' = [bridge EXCEPT ![request[r].of] = [@ EXCEPT !.open = FALSE, !.connected = FALSE]]
    <3>1. CASE request[r].of \in Link!Bridges
      <4> DEFINE g == [bridge[request[r].of] EXCEPT !.open = FALSE, !.connected = FALSE]
      <4>1. g \in LinkObject /\ ~g.open /\ g.beats = bridge[request[r].of].beats
        BY <3>1, LinkFacts DEF LinkObject
      <4>2. bridge' = [bridge EXCEPT ![request[r].of] = g]
        BY <2>2, <3>1, LinkFacts
      <4> HIDE DEF g
      <4>3. /\ bridge' \in [Link!Bridges -> LinkObject] /\ bridge'[request[r].of] = g
            /\ \A o \in Link!Bridges : o # request[r].of => bridge'[o] = bridge[o]
        BY <3>1, <4>1, <4>2, LinkBridgeSet
      <4> QED
        BY <4>1, <4>3
    <3>2. CASE request[r].of \notin Link!Bridges
      <4>1. bridge' = bridge
        BY <2>2, <3>2, LinkFacts
      <4> QED
        BY <3>2, <4>1, LinkFacts
    <3> QED
      BY <3>1, <3>2
  <2> QED
    BY <1>1, <2>1, <2>2
<1>7. Link!TypeOK'
  BY <1>1, <1>4, <1>6, LinkFacts, LinkTypes
<1>8. LinkPortIsFree'
  <2> SUFFICES ASSUME ~crossed' PROVE LinkPortIsFree'
    BY DEF LinkPortIsFree
  <2>1. ~crossed /\ request[r].of = current /\ select = 0 /\ ~bridge[current].beats
    BY <1>1 DEF LinkInv, LinkPortIsFree
  <2>2. \A o \in Requests : o # r => request'[o].at = "idle"
    BY <1>1, <1>4, <2>1 DEF LinkInv, LinkPortIsFree
  <2>3. "idle" \notin Link!Entering \cup {"esptool"} /\ "exit1" \notin Link!Entering \cup {"esptool"}
        /\ "low" \notin Link!Entering \cup {"esptool"}
    BY DEF Link!Entering
  <2>4. \A o \in Link!Bridges : o # current => ~bridge'[o].open /\ ~bridge'[o].beats
    BY <1>6, <2>1 DEF LinkInv, LinkPortIsFree
  <2>5. at = "enter1" => ~bridge'[current].open
    BY <1>6, <2>1, LinkFacts
  <2>6. ~bridge'[current].beats
    BY <1>6, <2>1, LinkFacts
  <2> QED
    BY <1>1, <1>2, <1>4, <2>1, <2>2, <2>3, <2>4, <2>5, <2>6 DEF LinkPortIsFree
<1> QED
  BY <1>5, <1>7, <1>8 DEF LinkInv

-----------------------------------------------------------------------------
(* A request moves within its work, or is over, and the bridges stay. *)
LEMMA LinkPortStays ==
  ASSUME HostConstants, LinkInv, UNCHANGED <<bridge, current, select, crossed>>,
         NEW r \in Requests, NEW x \in LinkRequest, request' = [request EXCEPT ![r] = x],
         request[r].at # "idle",
         x.at \in {"closing", "stopping"} => request[r].at = x.at /\ request[r].of = x.of,
         x.at \in Link!Entering \cup {"esptool"} => request[r].at \in Link!Entering \cup {"esptool"}
  PROVE  LinkPortIsFree'
<1> SUFFICES ASSUME ~crossed' PROVE LinkPortIsFree'
  BY DEF LinkPortIsFree
<1>1. request'[r] = x /\ \A o \in Requests : o # r => request'[o] = request[o]
  BY LinkRequestSet
<1>2. \A o \in Requests : o # r => request'[o].at = "idle"
  BY <1>1 DEF LinkInv, LinkPortIsFree
<1>3. "idle" \notin Link!Entering \cup {"esptool"}
  BY DEF Link!Entering
<1>4. select = 0 /\ ~bridge[current].beats
  BY DEF LinkInv, LinkPortIsFree
<1>5. x.at \in Link!Entering \cup {"esptool"} => ~bridge[current].open
  BY DEF LinkInv, LinkPortIsFree
<1>6. x.at \in {"closing", "stopping"} => x.of = current
  BY DEF LinkInv, LinkPortIsFree
<1>7. \A b \in Link!Bridges : b # current => ~bridge[b].open /\ ~bridge[b].beats
  BY DEF LinkInv, LinkPortIsFree
<1> QED
  BY <1>1, <1>2, <1>3, <1>4, <1>5, <1>6, <1>7 DEF LinkPortIsFree

LEMMA LinkLinesSet ==
  ASSUME HostConstants, LinkInv, NEW high \in BOOLEAN
  PROVE  /\ Link!EN(high) \in LinkChip /\ Link!EN(high).en = high /\ Link!EN(high).boot = chip.boot
         /\ Link!EN(high).runs = IF ~high THEN "nothing" ELSE IF chip.en THEN chip.runs
                                 ELSE IF chip.boot THEN "app" ELSE "loader"
         /\ Link!BOOT(high) \in LinkChip
         /\ Link!BOOT(high).en = chip.en /\ Link!BOOT(high).boot = high /\ Link!BOOT(high).runs = chip.runs
BY LinkFacts DEF Link!EN, Link!BOOT, LinkChip

(* What a step of a sequence does but for the lines. *)
LEMMA LinkStepFacts ==
  ASSUME HostConstants, LinkInv, NEW r \in Requests, NEW from \in Link!Places, NEW to \in Link!Places,
         NEW c, Link!Step(r, from, to, c), from # "idle", to \notin {"closing", "stopping"},
         to \in Link!Entering \cup {"esptool"} => from \in Link!Entering \cup {"esptool"}
  PROVE  /\ LinkPortIsFree' /\ request' \in [Requests -> LinkRequest]
         /\ UNCHANGED <<bridge, current, select, crossed>> /\ chip' = c /\ request[r].at = from
         /\ \A o \in Requests : o # r => request'[o] = request[o]
         /\ \/ request'[r].at = to /\ request'[r].gone = request[r].gone
            \/ /\ request'[r].at = "idle" /\ ~request'[r].gone
               /\ request[r].gone /\ to \in {"esptool", "reopen", "restart"}
<1> DEFINE x == IF request[r].gone /\ to \in {"esptool", "reopen", "restart"} THEN Link!Idle
                ELSE [request[r] EXCEPT !.at = to]
<1>1. UNCHANGED <<bridge, current, select, crossed>> /\ chip' = c /\ request[r].at = from
      /\ request' = [request EXCEPT ![r] = x]
  BY LinkFacts DEF Link!Step, Link!At
<1>2. /\ x \in LinkRequest
      /\ \/ x.at = to /\ x.gone = request[r].gone
         \/ x.at = "idle" /\ ~x.gone /\ request[r].gone /\ to \in {"esptool", "reopen", "restart"}
  <2>1. [request[r] EXCEPT !.at = to] \in LinkRequest
        /\ [request[r] EXCEPT !.at = to].at = to /\ [request[r] EXCEPT !.at = to].gone = request[r].gone
    BY LinkFacts DEF LinkRequest
  <2>2. Link!Idle \in LinkRequest /\ Link!Idle.at = "idle" /\ ~Link!Idle.gone
    BY LinkFacts DEF Link!Idle, LinkRequest, Link!Places
  <2> QED
    BY <2>1, <2>2
<1> HIDE DEF x
<1>3. /\ request' \in [Requests -> LinkRequest] /\ request'[r] = x
      /\ \A o \in Requests : o # r => request'[o] = request[o]
  BY <1>1, <1>2, LinkRequestSet
<1>4. "idle" \notin Link!Entering \cup {"esptool"}
  BY DEF Link!Entering
<1>5. LinkPortIsFree'
  BY <1>1, <1>2, <1>4, LinkPortStays
<1> QED
  BY <1>1, <1>2, <1>3, <1>5

(* The places a sequence goes through. *)
LEMMA LinkPlacesAre ==
  /\ {"enter1", "enter2", "enter3", "esptool", "exit1", "exit2", "exit3", "reopen",
      "low", "high", "restart", "idle", "closing", "stopping"} \subseteq Link!Places
  /\ Link!Entering = {"enter1", "enter2", "enter3"}
BY DEF Link!Places, Link!Flashing, Link!Entering, Link!Exiting, Link!Resetting

LEMMA LinkTypesStep ==
  ASSUME HostConstants, LinkInv, UNCHANGED <<bridge, current, select, crossed>>,
         request' \in [Requests -> LinkRequest], chip' \in LinkChip, cut' \in BOOLEAN
  PROVE  Link!TypeOK'
BY LinkFacts, LinkTypes

LEMMA LinkEnterKeeps ==
  ASSUME HostConstants, LinkInv, NEW r \in Requests, Link!EnterDownloadMode(r)
  PROVE  LinkInv'
<1>1. cut' = cut
  BY DEF Link!EnterDownloadMode
<1>2. CASE Link!Step(r, "enter1", "enter2", Link!BOOT(FALSE))
  <2>1. /\ LinkPortIsFree' /\ request' \in [Requests -> LinkRequest]
        /\ UNCHANGED <<bridge, current, select, crossed>> /\ chip' = Link!BOOT(FALSE) /\ request[r].at = "enter1"
        /\ \A o \in Requests : o # r => request'[o] = request[o]
        /\ request'[r].at = "enter2" /\ request'[r].gone = request[r].gone
    <3>1. "enter1" \in Link!Places /\ "enter2" \in Link!Places /\ "enter1" # "idle" /\ "enter2" \notin {"closing", "stopping"}
          /\ ("enter2" \in Link!Entering \cup {"esptool"} => "enter1" \in Link!Entering \cup {"esptool"})
      BY LinkPlacesAre
    <3>2. Link!Step(r, "enter1", "enter2", Link!BOOT(FALSE))
      BY <1>2
    <3> QED
      BY <3>1, <3>2, LinkStepFacts
  <2>2. chip' \in LinkChip /\ chip'.en = chip.en /\ ~chip'.boot /\ chip'.runs = chip.runs
    BY <2>1, LinkLinesSet
  <2>3. LinkBootHeld' /\ LinkEnHeld' /\ LinkRuns' /\ LinkLoads' /\ LinkLeft'
    BY <1>1, <2>1, <2>2 DEF LinkInv, LinkLinesHeld, LinkBootHeld, LinkEnHeld, LinkRuns, LinkLoads, LinkLeft, Link!Entering
  <2> QED
    BY <1>1, <2>1, <2>2, <2>3, LinkFacts, LinkTypesStep DEF LinkInv, LinkLinesHeld
<1>3. CASE Link!Step(r, "enter2", "enter3", Link!EN(FALSE))
  <2>1. /\ LinkPortIsFree' /\ request' \in [Requests -> LinkRequest]
        /\ UNCHANGED <<bridge, current, select, crossed>> /\ chip' = Link!EN(FALSE) /\ request[r].at = "enter2"
        /\ \A o \in Requests : o # r => request'[o] = request[o]
        /\ request'[r].at = "enter3" /\ request'[r].gone = request[r].gone
    <3>1. "enter2" \in Link!Places /\ "enter3" \in Link!Places /\ "enter2" # "idle" /\ "enter3" \notin {"closing", "stopping"}
          /\ ("enter3" \in Link!Entering \cup {"esptool"} => "enter2" \in Link!Entering \cup {"esptool"})
      BY LinkPlacesAre
    <3>2. Link!Step(r, "enter2", "enter3", Link!EN(FALSE))
      BY <1>3
    <3> QED
      BY <3>1, <3>2, LinkStepFacts
  <2>2. chip' \in LinkChip /\ ~chip'.en /\ chip'.boot = chip.boot /\ chip'.runs = "nothing"
    BY <2>1, LinkLinesSet
  <2>3. LinkBootHeld' /\ LinkEnHeld' /\ LinkRuns' /\ LinkLoads' /\ LinkLeft'
    BY <1>1, <2>1, <2>2 DEF LinkInv, LinkLinesHeld, LinkBootHeld, LinkEnHeld, LinkRuns, LinkLoads, LinkLeft, Link!Entering
  <2> QED
    BY <1>1, <2>1, <2>2, <2>3, LinkFacts, LinkTypesStep DEF LinkInv, LinkLinesHeld
<1>4. CASE Link!Step(r, "enter3", "esptool", Link!EN(TRUE))
  <2>1. /\ LinkPortIsFree' /\ request' \in [Requests -> LinkRequest]
        /\ UNCHANGED <<bridge, current, select, crossed>> /\ chip' = Link!EN(TRUE) /\ request[r].at = "enter3"
        /\ \A o \in Requests : o # r => request'[o] = request[o]
        /\ \/ request'[r].at = "esptool" /\ request'[r].gone = request[r].gone
           \/ request'[r].at = "idle" /\ ~request'[r].gone /\ request[r].gone
    <3>1. "enter3" \in Link!Places /\ "esptool" \in Link!Places /\ "enter3" # "idle" /\ "esptool" \notin {"closing", "stopping"}
          /\ ("esptool" \in Link!Entering \cup {"esptool"} => "enter3" \in Link!Entering \cup {"esptool"})
      BY LinkPlacesAre
    <3>2. Link!Step(r, "enter3", "esptool", Link!EN(TRUE))
      BY <1>4
    <3> QED
      BY <3>1, <3>2, LinkStepFacts
  <2>2. /\ chip' \in LinkChip /\ chip'.en /\ chip'.boot = chip.boot
        /\ chip'.runs = IF chip.en THEN chip.runs ELSE IF chip.boot THEN "app" ELSE "loader"
    BY <2>1, LinkLinesSet
  <2>3. request'[r].at = "esptool" \/ cut'
    BY <1>1, <2>1 DEF LinkInv, LinkLinesHeld, LinkLeft, Link!Entering
  <2>4. LinkBootHeld' /\ LinkEnHeld' /\ LinkRuns' /\ LinkLoads'
    BY <1>1, <2>1, <2>2, <2>3, LinkFacts
       DEF LinkInv, LinkLinesHeld, LinkBootHeld, LinkEnHeld, LinkRuns, LinkLoads, LinkChip
  <2>5. LinkLeft'
    BY <1>1, <2>1 DEF LinkInv, LinkLinesHeld, LinkLeft, Link!Entering
  <2> QED
    BY <1>1, <2>1, <2>2, <2>4, <2>5, LinkFacts, LinkTypesStep DEF LinkInv, LinkLinesHeld
<1> QED
  BY <1>2, <1>3, <1>4 DEF Link!EnterDownloadMode

LEMMA LinkExitKeeps ==
  ASSUME HostConstants, LinkInv, NEW r \in Requests, Link!ExitDownloadMode(r)
  PROVE  LinkInv'
<1>2. CASE Link!Step(r, "exit1", "exit2", Link!BOOT(TRUE)) /\ Link!Released
  <2>1. /\ LinkPortIsFree' /\ request' \in [Requests -> LinkRequest]
        /\ UNCHANGED <<bridge, current, select, crossed>> /\ chip' = Link!BOOT(TRUE) /\ request[r].at = "exit1"
        /\ \A o \in Requests : o # r => request'[o] = request[o]
        /\ request'[r].at = "exit2"
    <3>1. "exit1" \in Link!Places /\ "exit2" \in Link!Places /\ "exit1" # "idle" /\ "exit2" \notin {"closing", "stopping"}
          /\ ("exit2" \in Link!Entering \cup {"esptool"} => "exit1" \in Link!Entering \cup {"esptool"})
      BY LinkPlacesAre
    <3>2. Link!Step(r, "exit1", "exit2", Link!BOOT(TRUE))
      BY <1>2
    <3> QED
      BY <3>1, <3>2, LinkStepFacts
  <2>2. chip' \in LinkChip /\ chip'.en = chip.en /\ chip'.boot /\ chip'.runs = chip.runs
    BY <2>1, LinkLinesSet
  <2>3. /\ cut' \in BOOLEAN
        /\ \A o \in Requests : request[o].gone /\ request[o].at \in Link!Entering => cut'
    BY <1>2 DEF Link!Released, Link!At
  <2>4. LinkBootHeld' /\ LinkEnHeld' /\ LinkRuns' /\ LinkLoads'
    BY <2>1, <2>2 DEF LinkInv, LinkLinesHeld, LinkBootHeld, LinkEnHeld, LinkRuns, LinkLoads
  <2>5. LinkLeft'
    BY <2>1, <2>3 DEF LinkLeft, Link!Entering
  <2> QED
    BY <2>1, <2>2, <2>3, <2>4, <2>5, LinkTypesStep DEF LinkInv, LinkLinesHeld
<1>3. CASE Link!Step(r, "exit2", "exit3", Link!EN(FALSE)) /\ UNCHANGED cut
  <2>1. /\ LinkPortIsFree' /\ request' \in [Requests -> LinkRequest]
        /\ UNCHANGED <<bridge, current, select, crossed>> /\ chip' = Link!EN(FALSE) /\ request[r].at = "exit2"
        /\ \A o \in Requests : o # r => request'[o] = request[o]
        /\ request'[r].at = "exit3"
    <3>1. "exit2" \in Link!Places /\ "exit3" \in Link!Places /\ "exit2" # "idle" /\ "exit3" \notin {"closing", "stopping"}
          /\ ("exit3" \in Link!Entering \cup {"esptool"} => "exit2" \in Link!Entering \cup {"esptool"})
      BY LinkPlacesAre
    <3>2. Link!Step(r, "exit2", "exit3", Link!EN(FALSE))
      BY <1>3
    <3> QED
      BY <3>1, <3>2, LinkStepFacts
  <2>2. chip' \in LinkChip /\ ~chip'.en /\ chip'.boot = chip.boot /\ chip'.runs = "nothing"
    BY <2>1, LinkLinesSet
  <2>3. LinkBootHeld' /\ LinkEnHeld' /\ LinkRuns' /\ LinkLoads' /\ LinkLeft'
    BY <1>3, <2>1, <2>2 DEF LinkInv, LinkLinesHeld, LinkBootHeld, LinkEnHeld, LinkRuns, LinkLoads, LinkLeft, Link!Entering
  <2> QED
    BY <1>3, <2>1, <2>2, <2>3, LinkFacts, LinkTypesStep DEF LinkInv, LinkLinesHeld
<1>4. CASE Link!Step(r, "exit3", "reopen", Link!EN(TRUE)) /\ UNCHANGED cut
  <2>1. /\ LinkPortIsFree' /\ request' \in [Requests -> LinkRequest]
        /\ UNCHANGED <<bridge, current, select, crossed>> /\ chip' = Link!EN(TRUE) /\ request[r].at = "exit3"
        /\ \A o \in Requests : o # r => request'[o] = request[o]
        /\ request'[r].at \in {"reopen", "idle"}
    <3>1. "exit3" \in Link!Places /\ "reopen" \in Link!Places /\ "exit3" # "idle" /\ "reopen" \notin {"closing", "stopping"}
          /\ ("reopen" \in Link!Entering \cup {"esptool"} => "exit3" \in Link!Entering \cup {"esptool"})
      BY LinkPlacesAre
    <3>2. Link!Step(r, "exit3", "reopen", Link!EN(TRUE))
      BY <1>4
    <3> QED
      BY <3>1, <3>2, LinkStepFacts
  <2>2. /\ chip' \in LinkChip /\ chip'.en /\ chip'.boot = chip.boot
        /\ chip'.runs = IF chip.en THEN chip.runs ELSE IF chip.boot THEN "app" ELSE "loader"
    BY <2>1, LinkLinesSet
  <2>3. LinkBootHeld' /\ LinkEnHeld' /\ LinkRuns' /\ LinkLoads'
    BY <1>4, <2>1, <2>2, LinkFacts
       DEF LinkInv, LinkLinesHeld, LinkBootHeld, LinkEnHeld, LinkRuns, LinkLoads, LinkChip
  <2>4. LinkLeft'
    BY <1>4, <2>1 DEF LinkInv, LinkLinesHeld, LinkLeft, Link!Entering
  <2> QED
    BY <1>4, <2>1, <2>2, <2>3, <2>4, LinkFacts, LinkTypesStep DEF LinkInv, LinkLinesHeld
<1> QED
  BY <1>2, <1>3, <1>4 DEF Link!ExitDownloadMode

LEMMA LinkPulseKeeps ==
  ASSUME HostConstants, LinkInv, NEW r \in Requests, Link!PulseReset(r)
  PROVE  LinkInv'
<1>1. cut' = cut
  BY DEF Link!PulseReset
<1>2. CASE Link!Step(r, "low", "high", Link!EN(FALSE))
  <2>1. /\ LinkPortIsFree' /\ request' \in [Requests -> LinkRequest]
        /\ UNCHANGED <<bridge, current, select, crossed>> /\ chip' = Link!EN(FALSE) /\ request[r].at = "low"
        /\ \A o \in Requests : o # r => request'[o] = request[o]
        /\ request'[r].at = "high"
    <3>1. "low" \in Link!Places /\ "high" \in Link!Places /\ "low" # "idle" /\ "high" \notin {"closing", "stopping"}
          /\ ("high" \in Link!Entering \cup {"esptool"} => "low" \in Link!Entering \cup {"esptool"})
      BY LinkPlacesAre
    <3>2. Link!Step(r, "low", "high", Link!EN(FALSE))
      BY <1>2
    <3> QED
      BY <3>1, <3>2, LinkStepFacts
  <2>2. chip' \in LinkChip /\ ~chip'.en /\ chip'.boot = chip.boot /\ chip'.runs = "nothing"
    BY <2>1, LinkLinesSet
  <2>3. LinkBootHeld' /\ LinkEnHeld' /\ LinkRuns' /\ LinkLoads' /\ LinkLeft'
    BY <1>1, <2>1, <2>2 DEF LinkInv, LinkLinesHeld, LinkBootHeld, LinkEnHeld, LinkRuns, LinkLoads, LinkLeft, Link!Entering
  <2> QED
    BY <1>1, <2>1, <2>2, <2>3, LinkFacts, LinkTypesStep DEF LinkInv, LinkLinesHeld
<1>3. CASE Link!Step(r, "high", "restart", Link!EN(TRUE))
  <2>1. /\ LinkPortIsFree' /\ request' \in [Requests -> LinkRequest]
        /\ UNCHANGED <<bridge, current, select, crossed>> /\ chip' = Link!EN(TRUE) /\ request[r].at = "high"
        /\ \A o \in Requests : o # r => request'[o] = request[o]
        /\ request'[r].at \in {"restart", "idle"}
    <3>1. "high" \in Link!Places /\ "restart" \in Link!Places /\ "high" # "idle" /\ "restart" \notin {"closing", "stopping"}
          /\ ("restart" \in Link!Entering \cup {"esptool"} => "high" \in Link!Entering \cup {"esptool"})
      BY LinkPlacesAre
    <3>2. Link!Step(r, "high", "restart", Link!EN(TRUE))
      BY <1>3
    <3> QED
      BY <3>1, <3>2, LinkStepFacts
  <2>2. /\ chip' \in LinkChip /\ chip'.en /\ chip'.boot = chip.boot
        /\ chip'.runs = IF chip.en THEN chip.runs ELSE IF chip.boot THEN "app" ELSE "loader"
    BY <2>1, LinkLinesSet
  <2>3. LinkBootHeld' /\ LinkEnHeld' /\ LinkRuns' /\ LinkLoads'
    BY <1>1, <2>1, <2>2, LinkFacts
       DEF LinkInv, LinkLinesHeld, LinkBootHeld, LinkEnHeld, LinkRuns, LinkLoads, LinkChip
  <2>4. LinkLeft'
    BY <1>1, <2>1 DEF LinkInv, LinkLinesHeld, LinkLeft, Link!Entering
  <2> QED
    BY <1>1, <2>1, <2>2, <2>3, <2>4, LinkFacts, LinkTypesStep DEF LinkInv, LinkLinesHeld
<1> QED
  BY <1>2, <1>3 DEF Link!PulseReset

-----------------------------------------------------------------------------
LEMMA LinkEsptoolKeeps ==
  ASSUME HostConstants, LinkInv, NEW r \in Requests, Link!RunEsptool(r)
  PROVE  LinkInv'
<1> USE LinkPlacesAre
<1> DEFINE x == [request[r] EXCEPT !.at = "exit1"]
<1>1. UNCHANGED <<bridge, current, select, chip, crossed, cut>> /\ request[r].at = "esptool"
      /\ request' = [request EXCEPT ![r] = x]
  BY LinkFacts DEF Link!RunEsptool, Link!At
<1>2. x \in LinkRequest /\ x.at = "exit1"
  BY LinkFacts DEF LinkRequest
<1> HIDE DEF x
<1>3. /\ request' \in [Requests -> LinkRequest] /\ request'[r] = x
      /\ \A o \in Requests : o # r => request'[o] = request[o]
  BY <1>1, <1>2, LinkRequestSet
<1>4. LinkPortIsFree'
  BY <1>1, <1>2, LinkPortStays
<1>5. LinkBootHeld' /\ LinkEnHeld' /\ LinkRuns' /\ LinkLoads' /\ LinkLeft'
  BY <1>1, <1>2, <1>3 DEF LinkInv, LinkLinesHeld, LinkBootHeld, LinkEnHeld, LinkRuns, LinkLoads, LinkLeft
<1> QED
  BY <1>1, <1>3, <1>4, <1>5, LinkFacts, LinkTypesStep DEF LinkInv, LinkLinesHeld

(* A new bridge takes the place of the old one. *)
LEMMA LinkReopensKeeps ==
  ASSUME HostConstants, LinkInv, NEW r \in Requests, Link!Reopens(r)
  PROVE  LinkInv'
<1>1. /\ request[r].at \in {"reopen", "restart"} /\ request' = [request EXCEPT ![r] = Link!Idle]
      /\ current < MaxBridges /\ current' = current + 1 /\ crossed' = (crossed \/ bridge[current].open)
      /\ UNCHANGED <<select, chip, cut>>
  BY DEF Link!Reopens, Link!Restart, Link!At
<1>2. PICK ok \in BOOLEAN : bridge' = [bridge EXCEPT ![current + 1] = Link!Made(ok)]
  BY DEF Link!Reopens, Link!Restart, Link!Answers
<1> DEFINE g == Link!Made(ok)
<1>3. g \in LinkObject
  BY LinkFacts DEF LinkObject, Link!Made
<1>4. Link!Idle \in LinkRequest /\ Link!Idle.at = "idle" /\ ~Link!Idle.gone
  BY LinkFacts, LinkPlacesAre DEF Link!Idle, LinkRequest
<1>5. current' \in Link!Bridges /\ current + 1 \in Link!Bridges /\ current + 1 # current
  BY <1>1, LinkFacts
<1>6. bridge' = [bridge EXCEPT ![current + 1] = g]
  BY <1>2
<1> HIDE DEF g
<1>7. /\ bridge' \in [Link!Bridges -> LinkObject]
      /\ \A o \in Link!Bridges : o # current + 1 => bridge'[o] = bridge[o]
  BY <1>3, <1>5, <1>6, LinkBridgeSet
<1>8. /\ request' \in [Requests -> LinkRequest] /\ request'[r] = Link!Idle
      /\ \A o \in Requests : o # r => request'[o] = request[o]
  BY <1>1, <1>4, LinkRequestSet
<1>9. crossed' \in BOOLEAN
  BY <1>1, LinkFacts DEF LinkObject
<1>10. Link!TypeOK'
  BY <1>1, <1>5, <1>7, <1>8, <1>9, LinkFacts, LinkTypes
<1>11. LinkLinesHeld'
  BY <1>1, <1>4, LinkLinesApart DEF LinkAway
<1>12. LinkPortIsFree'
  <2> SUFFICES ASSUME ~crossed' PROVE LinkPortIsFree'
    BY DEF LinkPortIsFree
  <2>1. ~crossed /\ ~bridge[current].open /\ ~bridge[current].beats /\ select = 0
    BY <1>1, LinkFacts DEF LinkInv, LinkPortIsFree
  <2>2. \A o \in Requests : request'[o].at = "idle"
    BY <1>1, <1>4, <1>8, <2>1 DEF LinkInv, LinkPortIsFree
  <2>3. \A b \in Link!Bridges : b # current' => ~bridge'[b].open /\ ~bridge'[b].beats
    BY <1>1, <1>7, <2>1 DEF LinkInv, LinkPortIsFree
  <2>4. select' = 0 /\ "idle" \notin Link!Entering \cup {"esptool"}
    BY <1>1, <2>1, LinkPlacesAre
  <2> QED
    BY <2>2, <2>3, <2>4 DEF LinkPortIsFree
<1> QED
  BY <1>10, <1>11, <1>12 DEF LinkInv

(* A cancelled request leaves its thread, or nothing. *)
LEMMA LinkCancelKeeps ==
  ASSUME HostConstants, LinkInv, NEW r \in Requests, Link!Cancel(r)
  PROVE  LinkInv'
<1> USE LinkPlacesAre
<1>1. /\ UNCHANGED <<bridge, current, select, chip, crossed>> /\ request[r].at # "idle" /\ ~request[r].gone
  BY DEF Link!Cancel, Link!At
<1>2. CASE /\ request[r].at \in Link!Entering \cup Link!Exiting \cup Link!Resetting
           /\ request' = [request EXCEPT ![r].gone = TRUE] /\ cut' = (cut \/ request[r].at \in Link!Entering)
  <2> DEFINE x == [request[r] EXCEPT !.gone = TRUE]
  <2>1. x \in LinkRequest /\ x.at = request[r].at /\ x.of = request[r].of
    BY LinkFacts DEF LinkRequest
  <2>2. request' = [request EXCEPT ![r] = x]
    BY <1>2, LinkFacts
  <2> HIDE DEF x
  <2>3. /\ request' \in [Requests -> LinkRequest] /\ request'[r] = x
        /\ \A o \in Requests : o # r => request'[o] = request[o]
    BY <2>1, <2>2, LinkRequestSet
  <2>4. LinkPortIsFree'
    BY <1>1, <2>1, <2>2, LinkPortStays
  <2>5. cut' \in BOOLEAN /\ (cut => cut') /\ (request[r].at \in Link!Entering => cut')
    BY <1>2, LinkFacts
  <2>6. \A o \in Requests : request'[o].at = request[o].at
    BY <2>1, <2>3
  <2>7. LinkBootHeld' /\ LinkEnHeld' /\ LinkRuns' /\ LinkLoads'
    BY <1>1, <2>5, <2>6 DEF LinkInv, LinkLinesHeld, LinkBootHeld, LinkEnHeld, LinkRuns, LinkLoads
  <2>8. LinkLeft'
    BY <2>1, <2>3, <2>5 DEF LinkInv, LinkLinesHeld, LinkLeft
  <2> QED
    BY <1>1, <2>3, <2>4, <2>5, <2>7, <2>8, LinkFacts, LinkTypesStep DEF LinkInv, LinkLinesHeld
<1>3. CASE /\ request[r].at \notin {"enter2", "enter3", "exit2", "exit3", "high"}
           /\ request' = [request EXCEPT ![r] = Link!Idle]
           /\ cut' = (cut \/ request[r].at \in {"esptool", "exit1"})
  <2>1. Link!Idle \in LinkRequest /\ Link!Idle.at = "idle" /\ ~Link!Idle.gone
    BY LinkFacts DEF Link!Idle, LinkRequest
  <2>2. /\ request' \in [Requests -> LinkRequest] /\ request'[r] = Link!Idle
        /\ \A o \in Requests : o # r => request'[o] = request[o]
    BY <1>3, <2>1, LinkRequestSet
  <2>3. LinkPortIsFree'
    BY <1>1, <1>3, <2>1, LinkPortStays
  <2>4. cut' \in BOOLEAN /\ (cut => cut') /\ (request[r].at \in {"esptool", "exit1"} => cut')
    BY <1>3, LinkFacts
  <2>5. LinkBootHeld' /\ LinkEnHeld' /\ LinkRuns' /\ LinkLoads'
    BY <1>1, <1>3, <2>2, <2>4 DEF LinkInv, LinkLinesHeld, LinkBootHeld, LinkEnHeld, LinkRuns, LinkLoads
  <2>6. LinkLeft'
    BY <2>1, <2>2, <2>4 DEF LinkInv, LinkLinesHeld, LinkLeft
  <2> QED
    BY <1>1, <2>2, <2>3, <2>4, <2>5, <2>6, LinkFacts, LinkTypesStep DEF LinkInv, LinkLinesHeld
<1> QED
  BY <1>2, <1>3 DEF Link!Cancel, Link!At

-----------------------------------------------------------------------------
(* A server begins: one bridge, no request. *)
LEMMA LinkBegins ==
  ASSUME HostConstants, NEW ok \in BOOLEAN
  PROVE  /\ [b \in Link!Bridges |-> IF b = 1 THEN Link!Made(ok) ELSE Link!Unmade] \in [Link!Bridges -> LinkObject]
         /\ [r \in Requests |-> Link!Idle] \in [Requests -> LinkRequest]
         /\ 1 \in Link!Bridges /\ 0 \in 0 .. MaxBridges
         /\ Link!Idle.at = "idle" /\ ~Link!Idle.gone /\ "idle" \notin Link!Entering \cup {"esptool"}
         /\ ~Link!Unmade.open /\ ~Link!Unmade.beats
<1>1. Link!Bridges = 1 .. MaxBridges /\ 1 \in Link!Bridges /\ 0 \in 0 .. Patience /\ Patience \in 0 .. Patience
      /\ 0 \in 0 .. MaxBridges
  BY DEF Link!Bridges, HostConstants
<1>2. Link!Made(ok) \in LinkObject /\ Link!Unmade \in LinkObject /\ Link!Idle \in LinkRequest
  BY <1>1, LinkPlacesAre DEF LinkObject, LinkRequest, Link!Made, Link!Unmade, Link!Idle
<1> QED
  BY <1>1, <1>2, LinkPlacesAre DEF Link!Unmade, Link!Idle

LEMMA LinkAnewKeeps ==
  ASSUME HostConstants, LinkInv, Link!Anew
  PROVE  LinkInv'
<1>1. /\ current' = 1 /\ select' = 0 /\ ~crossed' /\ crossed' \in BOOLEAN /\ request' = [r \in Requests |-> Link!Idle]
      /\ chip' = [Link!EN(TRUE) EXCEPT !.boot = TRUE]
      /\ cut' = (cut \/ \E r \in Requests : request[r].at \in {"enter2", "enter3", "esptool", "exit1", "exit2"})
  BY DEF Link!Anew, Link!Setup, Link!At
<1>2. PICK ok \in BOOLEAN : bridge' = [b \in Link!Bridges |-> IF b = 1 THEN Link!Made(ok) ELSE Link!Unmade]
  BY DEF Link!Anew, Link!Answers
<1>3. /\ bridge' \in [Link!Bridges -> LinkObject] /\ request' \in [Requests -> LinkRequest]
      /\ \A b \in Link!Bridges : b # current' => ~bridge'[b].open /\ ~bridge'[b].beats
      /\ \A r \in Requests : request'[r].at = "idle" /\ ~request'[r].gone
  BY <1>1, <1>2, LinkBegins
<1>4. /\ chip' \in LinkChip /\ chip'.en /\ chip'.boot
      /\ chip'.runs = IF chip.en THEN chip.runs ELSE IF chip.boot THEN "app" ELSE "loader"
  <2> DEFINE c == Link!EN(TRUE)
  <2>1. /\ c \in LinkChip /\ c.en /\ c.runs = IF chip.en THEN chip.runs ELSE IF chip.boot THEN "app" ELSE "loader"
    BY LinkLinesSet
  <2>2. chip' = [c EXCEPT !.boot = TRUE]
    BY <1>1
  <2> HIDE DEF c
  <2> QED
    BY <2>1, <2>2 DEF LinkChip
<1>5. cut' \in BOOLEAN
  BY <1>1, LinkFacts
<1>6. Link!TypeOK'
  BY <1>1, <1>2, <1>3, <1>4, <1>5, LinkBegins, LinkTypes
<1>7. LinkBootHeld' /\ LinkEnHeld' /\ LinkLeft'
  BY <1>3, <1>4 DEF LinkBootHeld, LinkEnHeld, LinkLeft
<1>8. LinkRuns' /\ LinkLoads'
  <2>1. ~chip.boot => cut'
    BY <1>1 DEF LinkInv, LinkLinesHeld, LinkBootHeld
  <2>2. chip.runs = "loader" => cut'
    BY <1>1 DEF LinkInv, LinkLinesHeld, LinkLoads
  <2>3. chip.en => chip.runs # "nothing"
    BY DEF LinkInv, LinkLinesHeld, LinkRuns
  <2> QED
    BY <1>4, <2>1, <2>2, <2>3 DEF LinkRuns, LinkLoads
<1>9. LinkPortIsFree'
  BY <1>1, <1>3, LinkBegins DEF LinkPortIsFree
<1> QED
  BY <1>6, <1>7, <1>8, <1>9 DEF LinkInv, LinkLinesHeld

LEMMA LinkInvInit == ASSUME HostConstants PROVE Link!Init => LinkInv
<1> SUFFICES ASSUME Link!Init PROVE LinkInv
  OBVIOUS
<1>1. PICK ok \in BOOLEAN : bridge = [b \in Link!Bridges |-> IF b = 1 THEN Link!Made(ok) ELSE Link!Unmade]
  BY DEF Link!Init
<1>2. /\ bridge \in [Link!Bridges -> LinkObject] /\ request \in [Requests -> LinkRequest]
      /\ \A b \in Link!Bridges : b # current => ~bridge[b].open /\ ~bridge[b].beats
      /\ \A r \in Requests : request[r].at = "idle" /\ ~request[r].gone
  BY <1>1, LinkBegins DEF Link!Init
<1>3. Link!TypeOK
  BY <1>2, LinkBegins DEF Link!Init, Link!TypeOK, LinkObject, LinkRequest
<1>4. LinkLinesHeld
  BY <1>2 DEF Link!Init, LinkLinesHeld, LinkBootHeld, LinkEnHeld, LinkRuns, LinkLoads, LinkLeft
<1>5. LinkPortIsFree
  BY <1>2, LinkBegins DEF Link!Init, LinkPortIsFree
<1> QED
  BY <1>3, <1>4, <1>5 DEF LinkInv

LEMMA LinkInvStep == ASSUME HostConstants PROVE LinkInv /\ [Link!Next]_(Link!vars) => LinkInv'
<1> SUFFICES ASSUME LinkInv, [Link!Next]_(Link!vars) PROVE LinkInv'
  OBVIOUS
<1>1. CASE UNCHANGED Link!vars
  <2>1. UNCHANGED <<bridge, current, request, select, chip, crossed, cut>>
    BY <1>1 DEF Link!vars
  <2> QED
    BY <2>1, LinkLinesStay DEF LinkInv, Link!TypeOK, LinkPortIsFree
<1>2. ASSUME NEW r \in Requests, Link!Flash(r) \/ Link!Reset(r)
      PROVE  LinkInv'
  BY <1>2, LinkStopKeeps DEF Link!Flash, Link!Reset
<1>3. ASSUME NEW r \in Requests, Link!FlashRun(r)
      PROVE  LinkInv'
  BY <1>3, LinkEnterKeeps, LinkEsptoolKeeps, LinkExitKeeps, LinkReopensKeeps DEF Link!FlashRun
<1>4. ASSUME NEW r \in Requests, Link!Stopped(r) \/ Link!PulseReset(r) \/ Link!Cancel(r)
      PROVE  LinkInv'
  BY <1>4, LinkStoppedKeeps, LinkPulseKeeps, LinkCancelKeeps
<1> QED
  BY <1>1, <1>2, <1>3, <1>4, LinkSelectKeeps, LinkWriteFailsKeeps, LinkAnewKeeps, LinkHeartbeatKeeps DEF Link!Next

LEMMA LinkInvHolds == ASSUME HostConstants PROVE LinkInv => Link!TypeOK /\ Link!ChipIsBack /\ Link!EsptoolOwnsPort
<1> SUFFICES ASSUME LinkInv PROVE Link!TypeOK /\ Link!ChipIsBack /\ Link!EsptoolOwnsPort
  OBVIOUS
<1>1. Link!ChipIsBack
  <2> SUFFICES ASSUME ~cut, \A r \in Requests : request[r].at = "idle"
               PROVE  chip = [en |-> TRUE, boot |-> TRUE, runs |-> "app"]
    BY DEF Link!ChipIsBack, Link!At
  <2>1. chip.en /\ chip.boot
    BY DEF LinkInv, LinkLinesHeld, LinkBootHeld, LinkEnHeld
  <2>2. chip.runs # "nothing" /\ chip.runs # "loader"
    BY <2>1 DEF LinkInv, LinkLinesHeld, LinkRuns, LinkLoads
  <2> QED
    BY <2>1, <2>2, LinkFacts DEF LinkChip
<1>2. Link!EsptoolOwnsPort
  BY LinkFacts DEF LinkInv, LinkPortIsFree, Link!EsptoolOwnsPort, Link!At
<1> QED
  BY <1>1, <1>2 DEF LinkInv

LEMMA LinkMoves == [Next]_vars => [Link!Next]_(Link!vars)
BY DEF Next, NextDevices, NextBoard, NotSerial, vars, linkVars, Link!vars

(* esp32_flasher.py: when no flash, reset or thread of one is under way the    *)
(* chip is back in its application, wherever closing the link or esptool       *)
(* failed, a reset was cancelled or its server ended, and whichever requests   *)
(* overlapped, unless a flash was cut short between its entry into the boot    *)
(* loader and its way back and none has gone that way since; and while requests *)
(* did not overlap, and no recovery had replaced a link that could not be       *)
(* closed, esptool had the port to itself.                                     *)
THEOREM FlashingClean == Spec => []FlashingIsClean
<1>1. Init => LinkInv
  BY LinkInvInit, HostConstants DEF Init, PartsInit
<1>2. LinkInv /\ [Next]_vars => LinkInv'
  BY LinkInvStep, LinkMoves, HostConstants
<1>3. LinkInv => FlashingIsClean
  BY LinkInvHolds, HostConstants DEF FlashingIsClean
<1> QED
  BY <1>1, <1>2, <1>3, PTL DEF Spec

-----------------------------------------------------------------------------
(* The power buttons of the ESP32-S3 host: gpio_ctrl.cpp.                     *)

EspTyped == Esp!TypeOK /\ age \in 0 .. Long /\ due \in 0 .. Long

(* Without a race a handler of the web task finds update() before its test or  *)
(* after _endPulse: where a pulse is being ended it sees _pulsing and returns. *)
EspApart ==
  ~raced => /\ Esp!Ending => pulse.on /\ web.at \in {"idle", "check"}
            /\ web.at = "mark" => ~pulse.on

(* As long as a press is younger than it is to get, its end is ahead by what  *)
(* is left, and not beyond the wrap.                                         *)
EspAhead == age < due => now = pulse.end - (due - age)

(* What is being let go has had its time. *)
EspOver == ~raced /\ loop.at = "deassert" => age >= due

EspInv == EspTyped /\ EspApart /\ EspAhead /\ EspOver

-----------------------------------------------------------------------------
LEMMA EspTypes ==
  ASSUME HostConstants, EspInv
  PROVE  /\ Wrap \in Nat /\ Wrap > 0 /\ Short \in Nat /\ Long \in Nat /\ Pulse \in Nat
         /\ now \in 0 .. Wrap - 1 /\ age \in 0 .. Long /\ due \in 0 .. Long
         /\ pulse.on \in BOOLEAN /\ pulse.pin \in Esp!Pins /\ pulse.end \in 0 .. Wrap - 1
         /\ pulse \in [on : BOOLEAN, pin : Esp!Pins, end : 0 .. Wrap - 1]
         /\ web \in [at : {"idle", "check", "mark", "pin", "time", "assert"}, kind : Esp!Kinds]
         /\ loop \in [at : {"head", "update", "deassert", "clear"}, ran : BOOLEAN]
         /\ line \in [Esp!Pins -> BOOLEAN] /\ raced \in BOOLEAN
         /\ loop.at \in {"head", "update", "deassert", "clear"} /\ loop.ran \in BOOLEAN
         /\ web.kind \in Esp!Kinds /\ Esp!PinOf(web.kind) \in Esp!Pins /\ Esp!Lasts(web.kind) \in 0 .. Long
         /\ Esp!Lasts(web.kind) \in {Short, Long, Pulse}
<1>1. web.kind \in Esp!Kinds /\ web \in [at : {"idle", "check", "mark", "pin", "time", "assert"}, kind : Esp!Kinds]
  BY DEF EspInv, EspTyped, Esp!TypeOK
<1>2. Esp!Lasts(web.kind) \in {Short, Long, Pulse}
  BY <1>1 DEF Esp!Lasts, Esp!Kinds
<1>3. Esp!PinOf(web.kind) \in Esp!Pins
  BY DEF Esp!PinOf, Esp!Pins
<1> QED
  BY <1>1, <1>2, <1>3 DEF HostConstants, EspInv, EspTyped, Esp!TypeOK

LEMMA EspTimes ==
  ASSUME HostConstants, EspInv
  PROVE  /\ Wrap \in Nat /\ Wrap > 0 /\ Long \in Nat /\ now \in 0 .. Wrap - 1 /\ pulse.end \in 0 .. Wrap - 1
         /\ age \in 0 .. Long /\ due \in 0 .. Long
BY EspTypes

(* The counter of milliseconds. *)
LEMMA EspModulo ==
  ASSUME NEW w \in Nat, w > 0, NEW x \in Nat
  PROVE  x % w \in 0 .. w - 1 /\ (x < w => x % w = x)
OBVIOUS

(* Steps of the web task that neither time nor press. *)
LEMMA EspWebKeeps ==
  ASSUME HostConstants, EspInv, (\E kind \in Esp!Kinds : Esp!Route(kind)) \/ Esp!Check \/ Esp!Mark \/ Esp!SetPin
  PROVE  EspInv'
<1>1. ASSUME NEW kind \in Esp!Kinds, Esp!Route(kind) PROVE EspInv'
  <2>1. /\ web' = [at |-> "check", kind |-> kind] /\ UNCHANGED <<network, line, pulse, now, loop, age, due, raced>>
    BY <1>1 DEF Esp!Route
  <2>2. EspTyped'
    BY <2>1 DEF EspInv, EspTyped, Esp!TypeOK
  <2> QED
    BY <2>1, <2>2 DEF EspInv, EspApart, EspAhead, EspOver, Esp!Ending
<1>2. CASE Esp!Check
  <2>1. /\ web.at = "check" /\ web' = [web EXCEPT !.at = IF pulse.on THEN "idle" ELSE "mark"]
        /\ UNCHANGED <<network, line, pulse, now, loop, age, due, raced>>
    BY <1>2 DEF Esp!Check
  <2>2. EspTyped' /\ web'.at = IF pulse.on THEN "idle" ELSE "mark"
    BY <2>1, EspTypes DEF EspInv, EspTyped, Esp!TypeOK
  <2>3. EspApart'
    BY <2>1, <2>2, EspTypes DEF EspInv, EspApart, Esp!Ending
  <2> QED
    BY <2>1, <2>2, <2>3 DEF EspInv, EspAhead, EspOver
<1>3. CASE Esp!Mark
  <2>1. /\ web.at = "mark" /\ web' = [web EXCEPT !.at = "pin"] /\ pulse' = [pulse EXCEPT !.on = TRUE]
        /\ raced' = (raced /\ (Esp!Ending \/ \E p \in Esp!Pins : line[p]))
        /\ UNCHANGED <<network, line, now, loop, age, due>>
    BY <1>3 DEF Esp!Mark
  <2>2. EspTyped' /\ web'.at = "pin" /\ pulse'.on /\ pulse'.end = pulse.end
    BY <2>1, EspTypes DEF EspInv, EspTyped, Esp!TypeOK
  <2>3. ~raced' => ~Esp!Ending
    BY <2>1 DEF EspInv, EspApart
  <2>4. EspApart' /\ EspOver'
    BY <2>1, <2>2, <2>3 DEF EspApart, EspOver, Esp!Ending
  <2> QED
    BY <2>1, <2>2, <2>4 DEF EspInv, EspAhead
<1>4. CASE Esp!SetPin
  <2>1. /\ web.at = "pin" /\ web' = [web EXCEPT !.at = "time"]
        /\ pulse' = [pulse EXCEPT !.pin = Esp!PinOf(web.kind)]
        /\ UNCHANGED <<network, line, now, loop, age, due, raced>>
    BY <1>4 DEF Esp!SetPin
  <2>2. EspTyped' /\ web'.at = "time" /\ pulse'.on = pulse.on /\ pulse'.end = pulse.end
    BY <2>1, EspTypes DEF EspInv, EspTyped, Esp!TypeOK
  <2> QED
    BY <2>1, <2>2 DEF EspInv, EspApart, EspAhead, EspOver, Esp!Ending
<1> QED
  BY <1>1, <1>2, <1>3, <1>4

(* The end of the press is computed, modulo the counter. *)
LEMMA EspSetTimeKeeps ==
  ASSUME HostConstants, EspInv, Esp!SetTime
  PROVE  EspInv'
<1>0. /\ Wrap \in Nat /\ Wrap > 0 /\ Long \in Nat /\ now \in 0 .. Wrap - 1 /\ pulse.end \in 0 .. Wrap - 1
      /\ age \in 0 .. Long /\ due \in 0 .. Long
  BY EspTimes
<1> DEFINE l == Esp!Lasts(web.kind)
           e == (now + l) % Wrap
<1>1. /\ web.at = "time" /\ web' = [web EXCEPT !.at = "assert"] /\ age' = 0
      /\ pulse' = [pulse EXCEPT !.end = e]
      /\ due' = IF now + l < Wrap THEN l ELSE 0
      /\ UNCHANGED <<network, line, now, loop, raced>>
  BY DEF Esp!SetTime
<1>2. l \in 0 .. Long /\ e \in 0 .. Wrap - 1 /\ (now + l < Wrap => e = now + l)
  <2>1. l \in 0 .. Long
    BY EspTypes
  <2> HIDE DEF l
  <2> QED
    BY <1>0, <2>1
<1> HIDE DEF l, e
<1>3. /\ pulse' \in [on : BOOLEAN, pin : Esp!Pins, end : 0 .. Wrap - 1] /\ pulse'.on = pulse.on /\ pulse'.end = e
  BY <1>1, <1>2, EspTypes
<1>4. web' \in [at : {"idle", "check", "mark", "pin", "time", "assert"}, kind : Esp!Kinds] /\ web'.at = "assert"
  BY <1>1, EspTypes
<1>5. age' \in 0 .. Long /\ due' \in 0 .. Long
  BY <1>0, <1>1, <1>2
<1>6. EspTyped'
  BY <1>1, <1>3, <1>4, <1>5 DEF EspInv, EspTyped, Esp!TypeOK
<1>7. EspApart'
  BY <1>1, <1>3, <1>4 DEF EspInv, EspApart, Esp!Ending
<1>8. EspAhead'
  BY <1>0, <1>1, <1>2, <1>3 DEF EspAhead
<1>9. EspOver'
  BY <1>1 DEF EspInv, EspApart, EspOver, Esp!Ending
<1> QED
  BY <1>6, <1>7, <1>8, <1>9 DEF EspInv

LEMMA EspAssertKeeps ==
  ASSUME HostConstants, EspInv, Esp!Assert
  PROVE  EspInv' /\ \A p \in Esp!Pins : line[p] => line'[p]
<1>1. /\ web.at = "assert" /\ web' = [web EXCEPT !.at = "idle"]
      /\ line' = [line EXCEPT ![Esp!PinOf(web.kind)] = TRUE]
      /\ UNCHANGED <<network, pulse, now, loop, age, due, raced>>
  BY DEF Esp!Assert
<1>2. EspTyped' /\ web'.at = "idle" /\ \A p \in Esp!Pins : line[p] => line'[p]
  BY <1>1, EspTypes DEF EspInv, EspTyped, Esp!TypeOK
<1> QED
  BY <1>1, <1>2 DEF EspInv, EspApart, EspAhead, EspOver, Esp!Ending

-----------------------------------------------------------------------------
(* update() finds a pulse over: it is the one that is on, or the race is on.   *)
LEMMA EspUpdateKeeps ==
  ASSUME HostConstants, EspInv, Esp!Update
  PROVE  EspInv'
<1>0. /\ Wrap \in Nat /\ Wrap > 0 /\ Long \in Nat /\ now \in 0 .. Wrap - 1 /\ pulse.end \in 0 .. Wrap - 1
      /\ age \in 0 .. Long /\ due \in 0 .. Long
  BY EspTimes
<1> DEFINE over == pulse.on /\ now >= pulse.end
<1>1. /\ loop.at = "update" /\ UNCHANGED <<network, line, pulse, now, web, age, due>>
      /\ loop' = IF over THEN [loop EXCEPT !.at = "deassert"] ELSE [at |-> "head", ran |-> TRUE]
      /\ raced' = (raced \/ (over /\ Esp!Starting))
  BY DEF Esp!Update, Esp!IsOver
<1>2. CASE over
  <2>1. EspTyped' /\ loop'.at = "deassert"
    BY <1>1, <1>2, EspTypes DEF EspInv, EspTyped, Esp!TypeOK
  <2>2. age >= due
    BY <1>0, <1>2 DEF EspInv, EspAhead
  <2>3. EspApart'
    <3>1. ~raced' => ~raced /\ pulse.on /\ web.at \notin {"pin", "time", "assert", "mark"}
      BY <1>1, <1>2 DEF EspInv, EspApart, Esp!Starting
    <3> QED
      BY <1>1, <3>1, EspTypes DEF EspApart
  <2> QED
    BY <1>1, <2>1, <2>2, <2>3 DEF EspInv, EspAhead, EspOver
<1>3. CASE ~over
  <2>1. EspTyped' /\ loop'.at = "head" /\ raced' = raced
    BY <1>1, <1>3, EspTypes DEF EspInv, EspTyped, Esp!TypeOK
  <2> QED
    BY <1>1, <2>1 DEF EspInv, EspApart, EspAhead, EspOver, Esp!Ending
<1> QED
  BY <1>2, <1>3

LEMMA EspLoopKeeps ==
  ASSUME HostConstants, EspInv, Esp!Retry \/ Esp!Head \/ Esp!Clear
  PROVE  EspInv' /\ line' = line
<1>1. CASE Esp!Retry \/ Esp!Head
  <2>1. /\ network' \in BOOLEAN /\ loop' = [loop EXCEPT !.at = "update"]
        /\ UNCHANGED <<line, pulse, now, web, age, due, raced>>
    BY <1>1 DEF Esp!Retry, Esp!Head, EspInv, EspTyped, Esp!TypeOK
  <2>2. EspTyped' /\ loop'.at = "update"
    BY <2>1, EspTypes DEF EspInv, EspTyped, Esp!TypeOK
  <2> QED
    BY <2>1, <2>2 DEF EspInv, EspApart, EspAhead, EspOver, Esp!Ending
<1>2. CASE Esp!Clear
  <2>1. /\ loop.at = "clear" /\ pulse' = [pulse EXCEPT !.on = FALSE] /\ loop' = [at |-> "head", ran |-> TRUE]
        /\ UNCHANGED <<network, line, now, web, age, due, raced>>
    BY <1>2 DEF Esp!Clear
  <2>2. EspTyped' /\ loop'.at = "head" /\ pulse'.end = pulse.end
    BY <2>1, EspTypes DEF EspInv, EspTyped, Esp!TypeOK
  <2> QED
    BY <2>1, <2>2 DEF EspInv, EspApart, EspAhead, EspOver, Esp!Ending
<1> QED
  BY <1>1, <1>2 DEF Esp!Retry, Esp!Head, Esp!Clear

LEMMA EspDeassertKeeps ==
  ASSUME HostConstants, EspInv, Esp!Deassert
  PROVE  EspInv' /\ (age >= due \/ raced)
<1>1. /\ loop.at = "deassert" /\ line' = [line EXCEPT ![pulse.pin] = FALSE]
      /\ loop' = [loop EXCEPT !.at = "clear"] /\ UNCHANGED <<network, pulse, now, web, age, due, raced>>
  BY DEF Esp!Deassert
<1>2. EspTyped' /\ loop'.at = "clear"
  BY <1>1, EspTypes DEF EspInv, EspTyped, Esp!TypeOK
<1>3. age >= due \/ raced
  BY <1>1 DEF EspInv, EspOver
<1> QED
  BY <1>1, <1>2, <1>3 DEF EspInv, EspApart, EspAhead, EspOver, Esp!Ending

LEMMA EspTickKeeps ==
  ASSUME HostConstants, EspInv, Esp!Tick
  PROVE  EspInv'
<1>0. /\ Wrap \in Nat /\ Wrap > 0 /\ Long \in Nat /\ now \in 0 .. Wrap - 1 /\ pulse.end \in 0 .. Wrap - 1
      /\ age \in 0 .. Long /\ due \in 0 .. Long
  BY EspTimes
<1>1. /\ now' = (now + 1) % Wrap /\ loop' = [loop EXCEPT !.ran = FALSE]
      /\ age' = IF age < Long THEN age + 1 ELSE age
      /\ UNCHANGED <<network, line, pulse, web, due, raced>>
  BY DEF Esp!Tick
<1>2. now' \in 0 .. Wrap - 1 /\ (now + 1 < Wrap => now' = now + 1) /\ age' \in 0 .. Long
  BY <1>0, <1>1
<1>3. loop' \in [at : {"head", "update", "deassert", "clear"}, ran : BOOLEAN] /\ loop'.at = loop.at
  BY <1>1, EspTypes
<1>4. EspTyped'
  BY <1>1, <1>2, <1>3 DEF EspInv, EspTyped, Esp!TypeOK
<1>5. EspApart'
  BY <1>1, <1>3 DEF EspInv, EspApart, Esp!Ending
<1>6. EspAhead'
  <2> SUFFICES ASSUME age' < due' PROVE now' = pulse.end - (due - age')
    BY <1>1 DEF EspAhead
  <2>1. age < due /\ age' = age + 1
    BY <1>0, <1>1
  <2>2. now = pulse.end - (due - age)
    BY <2>1 DEF EspInv, EspAhead
  <2>3. now + 1 < Wrap
    BY <1>0, <1>1, <2>1, <2>2
  <2> QED
    BY <1>0, <1>2, <2>1, <2>2, <2>3
<1>7. EspOver'
  BY <1>0, <1>1, <1>3 DEF EspInv, EspOver
<1> QED
  BY <1>4, <1>5, <1>6, <1>7 DEF EspInv

-----------------------------------------------------------------------------
LEMMA EspInvInit == ASSUME HostConstants PROVE Esp!Init => EspInv
<1> SUFFICES ASSUME Esp!Init PROVE EspInv
  OBVIOUS
<1>1. EspTyped
  <2>1. 0 \in 0 .. Wrap - 1 /\ 0 \in 0 .. Long
    BY DEF HostConstants
  <2>2. now = 0 /\ age = 0 /\ due = 0 /\ pulse = [on |-> FALSE, pin |-> "pwr", end |-> 0]
    BY DEF Esp!Init
  <2>3. pulse \in [on : BOOLEAN, pin : Esp!Pins, end : 0 .. Wrap - 1]
    BY <2>1, <2>2 DEF Esp!Pins
  <2>4. /\ network \in BOOLEAN /\ line \in [Esp!Pins -> BOOLEAN] /\ raced \in BOOLEAN
        /\ web \in [at : {"idle", "check", "mark", "pin", "time", "assert"}, kind : Esp!Kinds]
        /\ loop \in [at : {"head", "update", "deassert", "clear"}, ran : BOOLEAN]
    BY DEF Esp!Init, Esp!Kinds
  <2> QED
    BY <2>1, <2>2, <2>3, <2>4 DEF EspTyped, Esp!TypeOK
<1>2. EspApart /\ EspAhead /\ EspOver
  BY DEF Esp!Init, EspApart, EspAhead, EspOver, Esp!Ending
<1> QED
  BY <1>1, <1>2 DEF EspInv

LEMMA EspInvStep == ASSUME HostConstants PROVE EspInv /\ [Esp!Next]_(Esp!vars) => EspInv'
<1> SUFFICES ASSUME EspInv, [Esp!Next]_(Esp!vars) PROVE EspInv'
  OBVIOUS
<1>1. CASE UNCHANGED Esp!vars
  BY <1>1 DEF Esp!vars, EspInv, EspTyped, Esp!TypeOK, EspApart, EspAhead, EspOver, Esp!Ending
<1> QED
  BY <1>1, EspWebKeeps, EspSetTimeKeeps, EspAssertKeeps, EspUpdateKeeps, EspLoopKeeps, EspDeassertKeeps, EspTickKeeps
     DEF Esp!Next, Esp!Web, Esp!Loop

(* Only _endPulse lets a button go. *)
EspPressKept == \A p \in Esp!Pins : line[p] /\ ~line'[p] => age >= due \/ raced

LEMMA EspInvLasts ==
  ASSUME HostConstants
  PROVE  EspInv /\ [Esp!Next]_(Esp!vars) => [EspPressKept]_(Esp!vars)
<1> SUFFICES ASSUME EspInv, [Esp!Next]_(Esp!vars), NEW p \in Esp!Pins, line[p], ~line'[p] PROVE age >= due \/ raced
  BY DEF EspPressKept
<1>1. CASE Esp!Deassert
  BY <1>1, EspDeassertKeeps
<1>2. CASE Esp!Assert
  BY <1>2, EspAssertKeeps
<1>3. line' # line
  OBVIOUS
<1> QED
  BY <1>1, <1>2, <1>3, EspLoopKeeps DEF Esp!Next, Esp!Web, Esp!Loop, Esp!Route, Esp!Check, Esp!Mark, Esp!SetPin, Esp!SetTime, Esp!Update, Esp!IsOver, Esp!Tick, Esp!vars

LEMMA EspInvHolds == EspInv => Esp!TypeOK
BY DEF EspInv, EspTyped

LEMMA EspMoves == [Next]_vars => [Esp!Next]_(Esp!vars)
BY DEF Next, NextDevices, NextBoard, NotEsp, vars, espVars, Esp!vars

(* gpio_ctrl.cpp: whatever else is requested in the middle of it and however   *)
(* the two tasks interleave, a press is not let go before its time, unless     *)
(* its end was computed past the wrap of the millisecond counter, or update()  *)
(* looked at the old end while _startPulse was between marking a pulse and     *)
(* pressing the button.                                                      *)
THEOREM PressesLast == Spec => PressLasts
<1>1. Init => EspInv
  BY EspInvInit, HostConstants DEF Init, PartsInit
<1>2. EspInv /\ [Next]_vars => EspInv'
  BY EspInvStep, EspMoves, HostConstants
<1>3. EspInv /\ [Next]_vars => [EspPressKept]_(Esp!vars)
  BY EspInvLasts, EspMoves, HostConstants
<1>4. Spec => [][EspPressKept]_(Esp!vars)
  BY <1>1, <1>2, <1>3, PTL DEF Spec
<1> QED
  BY <1>4 DEF PressLasts, Esp!PressLasts, EspPressKept

-----------------------------------------------------------------------------
(* The frames on the serial line: hid.py, and main.cpp of the bridge.         *)

Bytes == 0 .. 255
FrameMessage == [type : Bytes, payload : Seq(Bytes)]
FrameParser == [state : {"head", "type", "len", "payload", "crc"}, type : Bytes, len : Bytes, payload : Seq(Bytes)]

(* What is computed from bytes, or becomes of them on the line, are bytes.    *)
ByteLine ==
  /\ \A bytes \in Seq(Bytes) : Checksum(bytes) \in Bytes
  /\ \A byte \in Bytes, mask \in Damages : Corrupt(byte, mask) \in Bytes

FramesTyped ==
  /\ script \in DOMAIN Scripts /\ sent \in 0 .. Len(Frames!Messages)
  /\ wire \in Seq(Bytes) /\ parser \in FrameParser
  /\ faults \in 0 .. MaxFaults

LEMMA FramesMessages ==
  ASSUME FramesTyped
  PROVE  /\ Frames!Messages \in Seq(FrameMessage) /\ Len(Frames!Messages) \in Nat
         /\ \A i \in 1 .. Len(Frames!Messages) : Frames!Messages[i] \in FrameMessage
<1>1. Frames!Messages \in Seq(FrameMessage)
  BY FrameConstants DEF Frames!ScriptsOK, Frames!Messages, FramesTyped, FrameMessage, Bytes
<1> QED
  BY <1>1, LenProperties, ElementOfSeq

(* A frame, byte by byte. *)
LEMMA FrameBytes ==
  ASSUME ByteLine, NEW m \in FrameMessage, Len(m.payload) <= 255
  PROVE  /\ Frames!Frame(m) \in Seq(Bytes) /\ Len(Frames!Frame(m)) = Len(m.payload) + 4
         /\ Len(m.payload) \in Nat
         /\ Frames!Frame(m)[1] = Frames!HEAD /\ Frames!Frame(m)[2] = m.type
         /\ Frames!Frame(m)[3] = Len(m.payload)
         /\ \A i \in 1 .. Len(m.payload) : Frames!Frame(m)[3 + i] = m.payload[i]
         /\ Frames!Frame(m)[Len(m.payload) + 4] = Checksum(<<m.type, Len(m.payload)>> \o m.payload)
<1> DEFINE n    == Len(m.payload)
           body == <<m.type, n>> \o m.payload
           crc  == Checksum(body)
           up   == <<Frames!HEAD>> \o body
<1>1. n \in Bytes /\ n \in Nat /\ m.payload \in Seq(Bytes) /\ m.type \in Bytes
  <2>1. m.payload \in Seq(Bytes) /\ m.type \in Bytes
    BY DEF FrameMessage
  <2>2. n \in Nat /\ n <= 255
    BY <2>1, LenProperties
  <2> HIDE DEF n
  <2> QED
    BY <2>1, <2>2 DEF Bytes
<1> HIDE DEF n
<1>2. <<m.type, n>> \in Seq(Bytes) /\ Len(<<m.type, n>>) = 2
  BY <1>1
<1>3. body \in Seq(Bytes) /\ Len(body) = n + 2
  BY <1>1, <1>2, ConcatProperties DEF n
<1>4. body[1] = m.type /\ body[2] = n /\ \A i \in 1 .. n : body[2 + i] = m.payload[i]
  BY <1>1, <1>2, ConcatProperties DEF n
<1>5. crc \in Bytes
  BY <1>3 DEF ByteLine
<1> HIDE DEF body, crc
<1>6. <<Frames!HEAD>> \in Seq(Bytes) /\ Len(<<Frames!HEAD>>) = 1 /\ <<Frames!HEAD>>[1] = Frames!HEAD
  BY DEF Frames!HEAD, Bytes
<1>7. up \in Seq(Bytes) /\ Len(up) = n + 3
  BY <1>1, <1>3, <1>6, ConcatProperties
<1>8. up[1] = Frames!HEAD /\ \A i \in 1 .. n + 2 : up[1 + i] = body[i]
  BY <1>1, <1>3, <1>6, ConcatProperties
<1> HIDE DEF up
<1>9. up[2] = m.type /\ up[3] = n /\ \A i \in 1 .. n : up[3 + i] = m.payload[i]
  <2>1. up[1 + 1] = body[1] /\ up[1 + 2] = body[2]
    BY <1>1, <1>8
  <2>2. ASSUME NEW i \in 1 .. n PROVE up[3 + i] = m.payload[i]
    <3>1. 2 + i \in 1 .. n + 2 /\ 1 + (2 + i) = 3 + i
      BY <1>1
    <3> QED
      BY <1>4, <1>8, <3>1
  <2> QED
    BY <1>4, <2>1, <2>2
<1>10. Frames!Frame(m) = up \o <<crc>>
  BY DEF Frames!Frame, up, body, crc, n
<1>11. <<crc>> \in Seq(Bytes) /\ Len(<<crc>>) = 1 /\ <<crc>>[1] = crc
  BY <1>5
<1>12. up \o <<crc>> \in Seq(Bytes) /\ Len(up \o <<crc>>) = n + 4
  BY <1>1, <1>7, <1>11, ConcatProperties
<1>13. (\A i \in 1 .. n + 3 : (up \o <<crc>>)[i] = up[i]) /\ (up \o <<crc>>)[n + 4] = crc
  <2>1. \A i \in 1 .. n + 3 : (up \o <<crc>>)[i] = up[i]
    BY <1>1, <1>7, <1>11, ConcatProperties
  <2>2. n + 4 \in Len(up) + 1 .. Len(up) + Len(<<crc>>) /\ n + 4 - Len(up) = 1
    BY <1>1, <1>7, <1>11
  <2>3. (up \o <<crc>>)[n + 4] = <<crc>>[n + 4 - Len(up)]
    BY <1>1, <1>7, <1>11, <2>2, ConcatProperties
  <2> QED
    BY <1>11, <2>1, <2>2, <2>3
<1>14. \A i \in 1 .. n : (up \o <<crc>>)[3 + i] = m.payload[i]
  <2> SUFFICES ASSUME NEW i \in 1 .. n PROVE (up \o <<crc>>)[3 + i] = m.payload[i]
    OBVIOUS
  <2>1. 3 + i \in 1 .. n + 3
    BY <1>1
  <2> QED
    BY <1>9, <1>13, <2>1
<1>15. (up \o <<crc>>)[1] = Frames!HEAD /\ (up \o <<crc>>)[2] = m.type /\ (up \o <<crc>>)[3] = n
  <2>1. {1, 2, 3} \subseteq 1 .. n + 3
    BY <1>1
  <2> QED
    BY <1>8, <1>9, <1>13, <2>1
<1> QED
  BY <1>1, <1>10, <1>12, <1>13, <1>14, <1>15 DEF n, crc, body

(* Where the parser is when it has read k bytes of the frame of m.            *)
FrameParsed(m, k) ==
  LET n == Len(m.payload)
  IN  \/ k = 0 /\ parser = Frames!Waiting
      \/ k = 1 /\ parser = [state |-> "type", type |-> 0, len |-> 0, payload |-> <<>>]
      \/ k = 2 /\ parser = [state |-> "len", type |-> m.type, len |-> 0, payload |-> <<>>]
      \/ /\ k \in 3 .. n + 2
         /\ parser = [state |-> "payload", type |-> m.type, len |-> n,
                      payload |-> SubSeq(m.payload, 1, k - 3)]
      \/ /\ k = n + 3
         /\ parser = [state |-> "crc", type |-> m.type, len |-> n, payload |-> m.payload]

FrameLeft(m, k) ==
  /\ Len(wire) = Len(m.payload) + 4 - k
  /\ \A j \in 1 .. Len(m.payload) + 4 - k : wire[j] = Frames!Frame(m)[k + j]

FrameRead(m, k) == FrameLeft(m, k) /\ FrameParsed(m, k)

(* Without a fault, as long as what was sent can be carried, the message sent *)
(* last is handled, or the wire holds what the parser still has to read of it. *)
FramesCarried == faults = 0 /\ \A i \in 1 .. sent : Frames!Carried(Frames!Messages[i])

FramesInOrder ==
  /\ place = handled
  /\ \/ wire = <<>> /\ parser = Frames!Waiting /\ handled = sent
     \/ /\ sent >= 1 /\ handled = sent - 1
        /\ \E k \in 0 .. Len(Frames!Messages[sent].payload) + 3 : FrameRead(Frames!Messages[sent], k)

FramesInv == FramesTyped /\ (FramesCarried => FramesInOrder)

LEMMA FrameTail ==
  ASSUME NEW w \in Seq(Bytes), w # <<>>
  PROVE  /\ Head(w) = w[1] /\ Head(w) \in Bytes /\ Tail(w) \in Seq(Bytes)
         /\ Len(w) \in Nat \ {0} /\ Len(Tail(w)) = Len(w) - 1
         /\ \A j \in 1 .. Len(w) - 1 : Tail(w)[j] = w[j + 1]
BY HeadTailProperties, EmptySeq, LenProperties

(* One byte of the frame is taken off the wire. *)
LEMMA FrameAdvances ==
  ASSUME FramesTyped, NEW m \in FrameMessage, NEW k \in 0 .. Len(m.payload) + 3, Len(m.payload) \in Nat,
         FrameLeft(m, k), wire' = Tail(wire)
  PROVE  /\ wire # <<>> /\ Head(wire) = Frames!Frame(m)[k + 1]
         /\ k < Len(m.payload) + 3 => FrameLeft(m, k + 1)' /\ k + 1 \in 0 .. Len(m.payload) + 3
         /\ k = Len(m.payload) + 3 => wire' = <<>>
<1> DEFINE n == Len(m.payload)
           F == Frames!Frame(m)
<1>1. n \in Nat /\ k \in Nat /\ k <= n + 3 /\ Len(wire) = n + 4 - k
  BY DEF FrameLeft
<1>2. \A j \in 1 .. n + 4 - k : wire[j] = F[k + j]
  BY DEF FrameLeft
<1>3. wire \in Seq(Bytes)
  BY DEF FramesTyped
<1> HIDE DEF n, F
<1>4. wire # <<>>
  BY <1>1, <1>3, EmptySeq
<1>5. /\ Head(wire) = wire[1] /\ Len(wire') = n + 4 - (k + 1) /\ wire' \in Seq(Bytes)
      /\ \A j \in 1 .. n + 4 - (k + 1) : wire'[j] = wire[j + 1]
  BY <1>1, <1>3, <1>4, FrameTail
<1>6. ASSUME NEW j \in 1 .. n + 4 - (k + 1)
      PROVE  wire'[j] = F[(k + 1) + j]
  <2>1. j + 1 \in 1 .. n + 4 - k /\ k + (j + 1) = (k + 1) + j
    BY <1>1
  <2> QED
    BY <1>2, <1>5, <2>1
<1>7. Head(wire) = F[k + 1]
  <2>1. 1 \in 1 .. n + 4 - k
    BY <1>1
  <2> QED
    BY <1>2, <1>5, <2>1
<1>8. Frames!Frame(m)' = Frames!Frame(m)
  BY DEF Frames!Frame, Frames!HEAD
<1>9. k < n + 3 => FrameLeft(m, k + 1)' /\ k + 1 \in 0 .. n + 3
  BY <1>1, <1>5, <1>6, <1>8 DEF FrameLeft, n, F
<1>10. k = n + 3 => wire' = <<>>
  BY <1>1, <1>5, EmptySeq
<1> QED
  BY <1>4, <1>7, <1>9, <1>10 DEF n, F

(* A prefix of the payload grows by one byte. *)
LEMMA PrefixGrows ==
  ASSUME NEW q \in Seq(Bytes), NEW i \in Nat, i < Len(q)
  PROVE  /\ Append(SubSeq(q, 1, i), q[i + 1]) = SubSeq(q, 1, i + 1)
         /\ Len(SubSeq(q, 1, i)) = i /\ q[i + 1] \in Bytes
         /\ SubSeq(q, 1, 0) = <<>> /\ SubSeq(q, 1, Len(q)) = q
<1>1. Len(q) \in Nat
  BY LenProperties
<1>2. \A j \in 1 .. i + 1 : q[j] \in Bytes
  BY <1>1, ElementOfSeq
<1> DEFINE a == SubSeq(q, 1, i)  b == SubSeq(q, 1, i + 1)
<1>3. a \in Seq(Bytes) /\ Len(a) = i /\ \A j \in 1 .. i : a[j] = q[j]
  BY <1>1, <1>2
<1>4. b \in Seq(Bytes) /\ Len(b) = i + 1 /\ \A j \in 1 .. i + 1 : b[j] = q[j]
  BY <1>1, <1>2
<1> HIDE DEF a, b
<1>5. i + 1 \in 1 .. i + 1 /\ \A j \in 1 .. i : j \in 1 .. i + 1
  OBVIOUS
<1>6. /\ Append(a, q[i + 1]) \in Seq(Bytes) /\ Len(Append(a, q[i + 1])) = i + 1
      /\ \A j \in 1 .. i + 1 : Append(a, q[i + 1])[j] = b[j]
  <2>1. q[i + 1] \in Bytes
    BY <1>2, <1>5
  <2>2. /\ Append(a, q[i + 1]) \in Seq(Bytes) /\ Len(Append(a, q[i + 1])) = i + 1
        /\ \A j \in 1 .. i : Append(a, q[i + 1])[j] = a[j]
        /\ Append(a, q[i + 1])[i + 1] = q[i + 1]
    BY <1>3, <2>1, AppendProperties
  <2> QED
    BY <1>3, <1>4, <1>5, <2>2
<1>7. Append(a, q[i + 1]) = b
  BY <1>4, <1>6, SeqEqual
<1>8. SubSeq(q, 1, 0) = <<>> /\ SubSeq(q, 1, Len(q)) = q
  BY <1>1, SubSeqFull, SubSeqEmpty
<1> QED
  BY <1>2, <1>3, <1>5, <1>7, <1>8 DEF a, b

(* In the middle of a frame the parser moves on with it, and nothing is       *)
(* handled.                                                                  *)
LEMMA FrameParsesOn ==
  ASSUME ByteLine, FramesTyped, NEW m \in FrameMessage, Len(m.payload) <= 255,
         NEW k \in 0 .. Len(m.payload) + 2, FrameRead(m, k), Frames!ParseByte
  PROVE  FrameRead(m, k + 1)' /\ UNCHANGED <<handled, place>>
<1> DEFINE q == m.payload
           n == Len(q)
           b == Head(wire)
<1>1. q \in Seq(Bytes) /\ n \in Nat /\ k \in Nat /\ k <= n + 2 /\ m.type \in Bytes
  <2>1. q \in Seq(Bytes) /\ m.type \in Bytes
    BY DEF FrameMessage
  <2>2. n \in Nat
    BY <2>1, LenProperties
  <2> QED
    BY <2>1, <2>2
<1>2. /\ wire' = Tail(wire) /\ wire # <<>> /\ b = Frames!Frame(m)[k + 1]
      /\ FrameLeft(m, k + 1)'
  BY <1>1, FrameAdvances DEF Frames!ParseByte, FrameRead
<1>3. /\ Frames!Frame(m)[1] = 170 /\ Frames!Frame(m)[2] = m.type /\ Frames!Frame(m)[3] = n
      /\ \A i \in 1 .. n : Frames!Frame(m)[3 + i] = q[i]
  BY FrameBytes DEF Frames!HEAD
<1>4. FrameParsed(m, k)
  BY DEF FrameRead
<1>5. CASE k = 0
  <2>1. parser = Frames!Waiting /\ b = 170
    BY <1>1, <1>2, <1>3, <1>4, <1>5 DEF FrameParsed
  <2>2. parser' = [state |-> "type", type |-> 0, len |-> 0, payload |-> <<>>] /\ UNCHANGED <<handled, place>>
    BY <2>1 DEF Frames!ParseByte, Frames!Waiting, Frames!Silent, Frames!HEAD
  <2> QED
    BY <1>2, <1>5, <2>2 DEF FrameRead, FrameParsed
<1>6. CASE k = 1
  <2>1. parser = [state |-> "type", type |-> 0, len |-> 0, payload |-> <<>>] /\ b = m.type
    BY <1>1, <1>2, <1>3, <1>4, <1>6 DEF FrameParsed
  <2>2. /\ parser' = [state |-> "len", type |-> m.type, len |-> 0, payload |-> <<>>]
        /\ UNCHANGED <<handled, place>>
    BY <2>1 DEF Frames!ParseByte, Frames!Silent
  <2> QED
    BY <1>2, <1>6, <2>2 DEF FrameRead, FrameParsed
<1>7. CASE k = 2
  <2>1. parser = [state |-> "len", type |-> m.type, len |-> 0, payload |-> <<>>] /\ b = n
    BY <1>1, <1>2, <1>3, <1>4, <1>7 DEF FrameParsed
  <2>2. /\ parser' = [state |-> IF n = 0 THEN "crc" ELSE "payload", type |-> m.type, len |-> n, payload |-> <<>>]
        /\ UNCHANGED <<handled, place>>
    BY <2>1 DEF Frames!ParseByte, Frames!Silent
  <2>3. n = 0 => q = <<>>
    BY <1>1, EmptySeq
  <2>4. n # 0 => SubSeq(q, 1, 0) = <<>>
    BY <1>1, PrefixGrows
  <2>5. FrameParsed(m, 3)'
    <3>1. CASE n = 0
      BY <2>2, <2>3, <3>1 DEF FrameParsed
    <3>2. CASE n # 0
      <4>1. 3 \in 3 .. n + 2 /\ 3 - 3 = 0
        BY <1>1, <3>2
      <4> QED
        BY <2>2, <2>4, <3>2, <4>1 DEF FrameParsed
    <3> QED
      BY <3>1, <3>2
  <2> QED
    BY <1>2, <1>7, <2>2, <2>5 DEF FrameRead
<1>8. CASE k >= 3
  <2> DEFINE i == k - 3
  <2>1. i \in Nat /\ i < n /\ i + 1 \in 1 .. n /\ k + 1 = 3 + (i + 1) /\ k \in 3 .. n + 2 /\ k # n + 3
    BY <1>1, <1>8
  <2>2. parser = [state |-> "payload", type |-> m.type, len |-> n, payload |-> SubSeq(q, 1, i)]
    BY <1>4, <1>8, <2>1 DEF FrameParsed
  <2>3. b = q[i + 1]
    BY <1>2, <1>3, <2>1
  <2>4. /\ Append(SubSeq(q, 1, i), q[i + 1]) = SubSeq(q, 1, i + 1) /\ Len(SubSeq(q, 1, i)) = i
        /\ SubSeq(q, 1, n) = q
    BY <1>1, <2>1, PrefixGrows
  <2>5. /\ parser' = [state |-> IF i + 1 >= n THEN "crc" ELSE "payload", type |-> m.type, len |-> n,
                      payload |-> SubSeq(q, 1, i + 1)]
        /\ UNCHANGED <<handled, place>>
    <3>1. /\ parser' = [parser EXCEPT !.payload = Append(parser.payload, b),
                          !.state = IF Len(parser.payload) + 1 >= parser.len THEN "crc" ELSE "payload"]
          /\ UNCHANGED <<handled, place>>
      BY <2>2 DEF Frames!ParseByte, Frames!Silent
    <3>2. /\ parser.payload = SubSeq(q, 1, i) /\ parser.len = n
          /\ Append(parser.payload, b) = SubSeq(q, 1, i + 1) /\ Len(parser.payload) = i
      BY <2>2, <2>3, <2>4
    <3> HIDE DEF b, n, i
    <3> QED
      BY <2>2, <3>1, <3>2
  <2>6. FrameParsed(m, k + 1)'
    <3>1. CASE i + 1 = n
      <4>1. k + 1 = n + 3 /\ i + 1 >= n
        BY <1>1, <2>1, <3>1
      <4> QED
        BY <2>4, <2>5, <3>1, <4>1 DEF FrameParsed
    <3>2. CASE i + 1 # n
      <4>1. k + 1 \in 3 .. n + 2 /\ (k + 1) - 3 = i + 1 /\ ~(i + 1 >= n)
        BY <1>1, <2>1, <3>2
      <4> QED
        BY <2>5, <4>1 DEF FrameParsed
    <3> QED
      BY <3>1, <3>2
  <2> QED
    BY <1>2, <2>5, <2>6 DEF FrameRead
<1> QED
  BY <1>1, <1>5, <1>6, <1>7, <1>8

LEMMA FrameWaits == Frames!Waiting \in FrameParser
<1>1. <<>> \in Seq(Bytes)
  BY EmptySeq
<1> QED
  BY <1>1 DEF Frames!Waiting, FrameParser, Bytes

LEMMA FrameModulo == ASSUME NEW i \in 0 .. 255 PROVE i % 256 = i
OBVIOUS

(* With the last byte the message is acted upon, and the parser waits.        *)
LEMMA FrameIsHandled ==
  ASSUME ByteLine, FramesTyped, FramesCarried, place = handled, sent >= 1, handled = sent - 1,
         NEW m, m = Frames!Messages[sent], m \in FrameMessage, NEW k, k = Len(m.payload) + 3,
         FrameRead(m, k), Frames!ParseByte
  PROVE  wire' = <<>> /\ parser' = Frames!Waiting /\ handled' = sent /\ place' = sent
<1> DEFINE n == Len(m.payload)
           body == <<m.type, n>> \o m.payload
<1>0. sent \in Nat /\ sent \in 1 .. sent /\ sent <= Len(Frames!Messages) /\ Len(Frames!Messages) \in Nat
  BY FramesMessages DEF FramesTyped
<1>1. n \in Nat /\ n <= 253 /\ Frames!Acceptable(m.type, m.payload) /\ m.payload \in Seq(Bytes) /\ m.type \in Bytes
  <2>1. m.payload \in Seq(Bytes) /\ m.type \in Bytes
    BY DEF FrameMessage
  <2>2. Frames!Carried(m)
    BY <1>0 DEF FramesCarried
  <2> QED
    BY <2>1, <2>2, LenProperties DEF Frames!Carried
<1>2. wire' = <<>> /\ Head(wire) = Frames!Frame(m)[n + 4]
  <2>1. k \in 0 .. n + 3 /\ k + 1 = n + 4
    BY <1>1
  <2> QED
    BY <1>1, <2>1, FrameAdvances DEF Frames!ParseByte, FrameRead
<1>3. Head(wire) = Checksum(body)
  BY <1>1, <1>2, FrameBytes
<1>4. parser = [state |-> "crc", type |-> m.type, len |-> n, payload |-> m.payload]
  <2>1. k \notin 3 .. n + 2 /\ k # 0 /\ k # 1 /\ k # 2
    BY <1>1
  <2> QED
    BY <2>1 DEF FrameRead, FrameParsed
<1>5. Frames!ParseCrc(Head(wire))
  BY <1>4 DEF Frames!ParseByte
<1>6. Frames!ChipCrc(body) = Checksum(body)
  <2> HIDE DEF n
  <2>1. n \in Bytes /\ n + 2 \in 0 .. 255
    BY <1>1 DEF Bytes
  <2>2. <<m.type, n>> \in Seq(Bytes) /\ Len(<<m.type, n>>) = 2
    BY <1>1, <2>1
  <2>3. body \in Seq(Bytes) /\ Len(body) = n + 2
    BY <1>1, <2>2, ConcatProperties DEF n
  <2> HIDE DEF body
  <2>4. Len(body) % 256 = Len(body)
    BY <2>1, <2>3, FrameModulo
  <2>5. SubSeq(body, 1, Len(body)) = body
    BY <2>3, SubSeqFull
  <2> QED
    BY <2>4, <2>5 DEF Frames!ChipCrc
<1> DEFINE r == [type |-> parser.type, payload |-> parser.payload]
<1>7. r = m
  BY <1>4 DEF FrameMessage
<1>8. parser' = Frames!Waiting /\ Frames!Process(m)
  <2>1. Frames!ChipCrc(<<r.type, parser.len>> \o r.payload) = Head(wire)
    BY <1>3, <1>4, <1>6
  <2>2. parser' = Frames!Waiting /\ Frames!Process(r)
    BY <1>5, <2>1 DEF Frames!ParseCrc
  <2> QED
    BY <1>7, <2>2
<1>9. handled' = handled + 1 /\ place' = Frames!Match(m, place)
  BY <1>1, <1>8 DEF Frames!Process
<1>10. Frames!Match(m, sent - 1) = sent
  <2> DEFINE hits == {i \in (sent - 1) + 1 .. Len(Frames!Messages) : Frames!Messages[i] = m}
  <2>1. sent \in hits /\ \A i \in hits : sent <= i /\ i \in Nat
    BY <1>0
  <2> HIDE DEF hits
  <2>2. Frames!Min(hits) = sent
    <3>1. Frames!Min(hits) \in hits /\ \A i \in hits : Frames!Min(hits) <= i
      BY <2>1 DEF Frames!Min
    <3>2. sent <= Frames!Min(hits) /\ Frames!Min(hits) \in Nat /\ Frames!Min(hits) <= sent
      BY <2>1, <3>1
    <3> QED
      BY <1>0, <3>2
  <2>3. ~(sent - 1 < 0) /\ hits # {}
    BY <1>0, <2>1
  <2> QED
    BY <2>2, <2>3 DEF Frames!Match, hits
<1> QED
  BY <1>0, <1>2, <1>8, <1>9, <1>10

LEMMA FramesTypedInit == ASSUME HostConstants, Frames!Init PROVE FramesTyped
<1>1. 0 \in 0 .. Len(Frames!Messages)
  <2>1. Frames!Messages \in Seq(FrameMessage)
    BY FrameConstants DEF Frames!ScriptsOK, Frames!Init, Frames!Messages, FrameMessage, Bytes
  <2> QED
    BY <2>1, LenProperties
<1>2. wire \in Seq(Bytes)
  BY EmptySeq DEF Frames!Init
<1> QED
  BY <1>1, <1>2, FrameWaits DEF Frames!Init, FramesTyped, HostConstants

LEMMA FrameParserKeeps ==
  ASSUME FramesTyped, Frames!ParseByte
  PROVE  parser' \in FrameParser
<1>1. /\ parser \in FrameParser /\ wire \in Seq(Bytes) /\ wire # <<>>
      /\ parser.payload \in Seq(Bytes)
  BY DEF FramesTyped, Frames!ParseByte, FrameParser
<1>2. Head(wire) \in Bytes
  BY <1>1, FrameTail
<1> DEFINE b == Head(wire)
<1>3. Append(parser.payload, b) \in Seq(Bytes)
  BY <1>1, <1>2, AppendProperties
<1> HIDE DEF b
<1>4. \/ parser' \in {parser, [Frames!Waiting EXCEPT !.state = "type"], Frames!Waiting}
      \/ parser' = [parser EXCEPT !.state = "len", !.type = b]
      \/ \E next \in {"crc", "payload"} : parser' = [parser EXCEPT !.state = next, !.len = b]
      \/ \E next \in {"crc", "payload"} : parser' = [parser EXCEPT !.payload = Append(parser.payload, b),
                                                                   !.state = next]
  BY DEF Frames!ParseByte, Frames!ParseCrc, b
<1>5. [Frames!Waiting EXCEPT !.state = "type"] \in FrameParser
  BY FrameWaits DEF FrameParser
<1> QED
  BY <1>1, <1>2, <1>3, <1>4, <1>5, FrameWaits DEF FrameParser, b

LEMMA FramesTypedStep ==
  ASSUME ByteLine, HostConstants, FramesTyped, [Frames!Next]_(Frames!vars)
  PROVE  FramesTyped'
<1>0. /\ script \in DOMAIN Scripts /\ sent \in Nat /\ wire \in Seq(Bytes) /\ faults \in Nat /\ MaxFaults \in Nat
      /\ sent <= Len(Frames!Messages) /\ Len(Frames!Messages) \in Nat
      /\ \A i \in 1 .. Len(Frames!Messages) : Frames!Messages[i] \in FrameMessage
  BY FramesMessages DEF FramesTyped, HostConstants
<1>1. CASE Frames!Send
  <2>1. sent' \in 1 .. Len(Frames!Messages) /\ script' = script /\ UNCHANGED <<parser, faults>>
    BY <1>0, <1>1 DEF Frames!Send
  <2>2. Frames!Messages' = Frames!Messages
    BY <2>1 DEF Frames!Messages
  <2>3. Frames!Messages[sent'] \in FrameMessage
    BY <1>0, <2>1
  <2>4. wire' = IF Frames!Fits(Frames!Messages[sent']) THEN Frames!Frame(Frames!Messages[sent']) ELSE <<>>
    BY <1>1 DEF Frames!Send
  <2> DEFINE m == Frames!Messages[sent']
  <2> HIDE DEF m
  <2>5. wire' \in Seq(Bytes)
    <3>1. m \in FrameMessage /\ wire' = IF Frames!Fits(m) THEN Frames!Frame(m) ELSE <<>>
      BY <2>3, <2>4 DEF m
    <3>2. CASE Frames!Fits(m)
      BY <3>1, <3>2, FrameBytes DEF Frames!Fits
    <3>3. CASE ~Frames!Fits(m)
      BY <3>1, <3>3, EmptySeq
    <3> QED
      BY <3>2, <3>3
  <2> QED
    BY <2>1, <2>2, <2>5 DEF FramesTyped
<1>2. CASE Frames!Lose
  <2>1. Tail(wire) \in Seq(Bytes)
    BY <1>0, <1>2, FrameTail DEF Frames!Lose
  <2>2. faults' \in 0 .. MaxFaults
    BY <1>0, <1>2 DEF Frames!Lose
  <2> QED
    BY <1>2, <2>1, <2>2 DEF Frames!Lose, FramesTyped, Frames!Messages
<1>3. CASE Frames!Damage
  <2>1. PICK mask \in Damages : wire' = <<Corrupt(Head(wire), mask)>> \o Tail(wire)
    BY <1>3 DEF Frames!Damage
  <2>2. Tail(wire) \in Seq(Bytes) /\ Head(wire) \in Bytes
    BY <1>0, <1>3, FrameTail DEF Frames!Damage
  <2>3. <<Corrupt(Head(wire), mask)>> \in Seq(Bytes)
    <3>1. Corrupt(Head(wire), mask) \in Bytes
      BY <2>2 DEF ByteLine
    <3> QED
      BY <3>1
  <2>4. wire' \in Seq(Bytes)
    BY <2>1, <2>2, <2>3, ConcatProperties
  <2>5. faults' \in 0 .. MaxFaults
    BY <1>0, <1>3 DEF Frames!Damage
  <2> QED
    BY <1>3, <2>4, <2>5 DEF Frames!Damage, FramesTyped, Frames!Messages
<1>4. CASE Frames!ParseByte
  <2>1. wire' \in Seq(Bytes)
    BY <1>0, <1>4, FrameTail DEF Frames!ParseByte
  <2>2. parser' \in FrameParser
    BY <1>4, FrameParserKeeps
  <2>3. UNCHANGED <<script, sent, faults>>
    BY <1>4 DEF Frames!ParseByte
  <2> QED
    BY <2>1, <2>2, <2>3 DEF FramesTyped, Frames!Messages
<1>5. CASE UNCHANGED Frames!vars
  BY <1>5 DEF FramesTyped, Frames!vars, Frames!Messages
<1> QED
  BY <1>1, <1>2, <1>3, <1>4, <1>5 DEF Frames!Next

LEMMA FramesInvInit == ASSUME HostConstants, Frames!Init PROVE FramesInv
BY FramesTypedInit DEF Frames!Init, FramesInv, FramesInOrder

LEMMA FramesInvStep ==
  ASSUME ByteLine, HostConstants, FramesInv, [Frames!Next]_(Frames!vars)
  PROVE  FramesInv'
<1>0. FramesTyped /\ FramesTyped'
  BY FramesTypedStep DEF FramesInv
<1>1. /\ sent \in Nat /\ sent <= Len(Frames!Messages) /\ Len(Frames!Messages) \in Nat /\ wire \in Seq(Bytes)
      /\ \A i \in 1 .. Len(Frames!Messages) : Frames!Messages[i] \in FrameMessage
  BY <1>0, FramesMessages DEF FramesTyped
<1>2. ASSUME FramesCarried' PROVE FramesInOrder'
  <2>1. CASE Frames!Send
    <3>1. /\ wire = <<>> /\ sent' = sent + 1 /\ UNCHANGED <<script, parser, handled, place, faults>>
          /\ wire' = IF Frames!Fits(Frames!Messages[sent']) THEN Frames!Frame(Frames!Messages[sent']) ELSE <<>>
          /\ sent' \in 1 .. Len(Frames!Messages)
      BY <1>1, <2>1 DEF Frames!Send
    <3>2. Frames!Messages' = Frames!Messages
      BY <3>1 DEF Frames!Messages
    <3>3. FramesCarried /\ Frames!Carried(Frames!Messages[sent'])
      <4>1. \A i \in 1 .. sent' : Frames!Carried(Frames!Messages'[i])
        BY <1>2 DEF FramesCarried, Frames!Carried, Frames!Acceptable
      <4>2. sent' \in 1 .. sent' /\ \A i \in 1 .. sent : i \in 1 .. sent'
        BY <1>1, <3>1
      <4>3. faults = 0
        BY <1>2, <3>1 DEF FramesCarried
      <4> QED
        BY <3>2, <4>1, <4>2, <4>3 DEF FramesCarried
    <3>4. /\ place = handled /\ parser = Frames!Waiting /\ handled = sent
      <4>1. ASSUME NEW k \in 0 .. Len(Frames!Messages[sent].payload) + 3, sent >= 1,
                   FrameRead(Frames!Messages[sent], k)
            PROVE  FALSE
        <5>1. Frames!Messages[sent] \in FrameMessage
          BY <1>1, <4>1
        <5>2. Len(Frames!Messages[sent].payload) \in Nat
          BY <5>1, LenProperties DEF FrameMessage
        <5>3. Len(<<>>) = 0
          BY EmptySeq
        <5> QED
          BY <3>1, <4>1, <5>2, <5>3 DEF FrameRead, FrameLeft
      <4> QED
        BY <3>3, <4>1 DEF FramesInv, FramesInOrder
    <3>5. PICK m \in FrameMessage : m = Frames!Messages[sent']
      BY <1>1, <3>1
    <3>6. Frames!Fits(m) /\ Len(m.payload) <= 255 /\ Len(m.payload) \in Nat
      <4>1. Len(m.payload) <= 253
        BY <3>3, <3>5 DEF Frames!Carried
      <4>2. Len(m.payload) \in Nat
        BY <3>5, LenProperties DEF FrameMessage
      <4> QED
        BY <4>1, <4>2 DEF Frames!Fits
    <3>7. FrameRead(m, 0)'
      <4>1. wire' = Frames!Frame(m)
        BY <3>1, <3>5, <3>6
      <4>2. Len(Frames!Frame(m)) = Len(m.payload) + 4
        BY <3>5, <3>6, FrameBytes
      <4>3. FrameLeft(m, 0)'
        <5>1. Len(m.payload) + 4 - 0 = Len(m.payload) + 4
          BY <3>6
        <5>2. \A j \in 1 .. Len(m.payload) + 4 : wire'[j] = Frames!Frame(m)[0 + j]
          BY <3>6, <4>1
        <5>3. Frames!Frame(m)' = Frames!Frame(m)
          BY DEF Frames!Frame, Frames!HEAD
        <5> QED
          BY <4>1, <4>2, <5>1, <5>2, <5>3 DEF FrameLeft
      <4>4. FrameParsed(m, 0)'
        BY <3>1, <3>4 DEF FrameParsed, Frames!Waiting
      <4> QED
        BY <4>3, <4>4 DEF FrameRead
    <3> QED
      <4>1. sent' >= 1 /\ handled' = sent' - 1 /\ place' = handled' /\ 0 \in 0 .. Len(m.payload) + 3
        BY <1>1, <3>1, <3>4, <3>6
      <4> QED
        BY <3>2, <3>5, <3>7, <4>1 DEF FramesInOrder
  <2>2. CASE Frames!Lose \/ Frames!Damage
    <3>1. faults' # 0
      BY <1>0, <2>2 DEF Frames!Lose, Frames!Damage, FramesTyped
    <3> QED
      BY <1>2, <3>1 DEF FramesCarried
  <2>3. CASE Frames!ParseByte
    <3>1. UNCHANGED <<script, sent, faults>> /\ wire # <<>>
      BY <2>3 DEF Frames!ParseByte
    <3>2. Frames!Messages' = Frames!Messages
      BY <3>1 DEF Frames!Messages
    <3>3. FramesCarried
      BY <1>2, <3>1, <3>2 DEF FramesCarried, Frames!Carried, Frames!Acceptable
    <3>4. /\ place = handled /\ sent >= 1 /\ handled = sent - 1
          /\ \E k \in 0 .. Len(Frames!Messages[sent].payload) + 3 : FrameRead(Frames!Messages[sent], k)
      BY <3>1, <3>3 DEF FramesInv, FramesInOrder
    <3>6. PICK m \in FrameMessage : m = Frames!Messages[sent]
      BY <1>1, <3>4
    <3>5. PICK k \in 0 .. Len(m.payload) + 3 : FrameRead(m, k)
      BY <3>4, <3>6
    <3>7. Len(m.payload) \in Nat /\ Len(m.payload) <= 255
      <4>1. Len(m.payload) \in Nat
        BY <3>6, LenProperties DEF FrameMessage
      <4>2. sent \in 1 .. sent
        BY <1>1, <3>4
      <4>3. Len(m.payload) <= 253
        BY <3>3, <3>6, <4>2 DEF FramesCarried, Frames!Carried
      <4> QED
        BY <4>1, <4>3
    <3>8. CASE k = Len(m.payload) + 3
      <4>1. wire' = <<>> /\ parser' = Frames!Waiting /\ handled' = sent /\ place' = sent
        BY <1>0, <2>3, <3>3, <3>4, <3>5, <3>6, <3>8, FrameIsHandled
      <4> QED
        BY <3>1, <4>1 DEF FramesInOrder, Frames!Waiting
    <3>9. CASE k # Len(m.payload) + 3
      <4>1. k \in 0 .. Len(m.payload) + 2 /\ k + 1 \in 0 .. Len(m.payload) + 3
        BY <3>7, <3>9
      <4>2. FrameRead(m, k + 1)' /\ UNCHANGED <<handled, place>>
        BY <1>0, <2>3, <3>5, <3>6, <3>7, <4>1, FrameParsesOn
      <4>3. m = Frames!Messages'[sent']
        BY <3>1, <3>2, <3>6
      <4>4. \E j \in 0 .. Len(Frames!Messages'[sent'].payload) + 3 : FrameRead(Frames!Messages[sent], j)'
        BY <4>1, <4>2, <4>3
      <4>5. sent' >= 1 /\ handled' = sent' - 1 /\ place' = handled'
        BY <3>1, <3>4, <4>2
      <4> QED
        BY <4>4, <4>5 DEF FramesInOrder
    <3> QED
      BY <3>8, <3>9
  <2>4. CASE UNCHANGED Frames!vars
    <3>1. FramesCarried
      BY <1>2, <2>4 DEF FramesCarried, Frames!vars, Frames!Messages, Frames!Carried, Frames!Acceptable
    <3>2. /\ UNCHANGED <<sent, wire, parser, handled, place>> /\ Frames!Messages' = Frames!Messages
          /\ FramesInOrder
      BY <2>4, <3>1 DEF FramesInv, Frames!vars, Frames!Messages
    <3>3. CASE wire = <<>> /\ parser = Frames!Waiting /\ handled = sent
      BY <3>2, <3>3 DEF FramesInOrder, Frames!Waiting
    <3>4. CASE sent >= 1 /\ ~(wire = <<>> /\ parser = Frames!Waiting /\ handled = sent)
      <4>1. PICK m \in FrameMessage : m = Frames!Messages[sent]
        BY <1>1, <3>4
      <4>2. PICK k \in 0 .. Len(m.payload) + 3 : FrameRead(m, k)
        BY <3>2, <3>4, <4>1 DEF FramesInOrder
      <4>3. FrameRead(m, k)'
        BY <3>2, <4>2 DEF FrameRead, FrameLeft, FrameParsed, Frames!Waiting, Frames!Frame, Frames!HEAD
      <4>4. \E j \in 0 .. Len(Frames!Messages'[sent'].payload) + 3 : FrameRead(Frames!Messages[sent], j)'
        BY <3>2, <4>1, <4>3
      <4> QED
        BY <3>2, <3>4, <4>4 DEF FramesInOrder
    <3> QED
      BY <3>2, <3>3, <3>4 DEF FramesInOrder
  <2> QED
    BY <2>1, <2>2, <2>3, <2>4 DEF Frames!Next
<1> QED
  BY <1>0, <1>2 DEF FramesInv

LEMMA FramesInvHolds == FramesInv => Frames!TypeOK /\ FramesAreWhole
<1> SUFFICES ASSUME FramesInv PROVE Frames!TypeOK /\ FramesAreWhole
  OBVIOUS
<1>1. FramesTyped
  BY DEF FramesInv
<1>2. Frames!TypeOK
  BY <1>1 DEF FramesTyped, FrameParser, Bytes, Frames!TypeOK
<1>3. ASSUME FramesCarried
      PROVE  /\ place = handled /\ handled \in {sent - 1, sent}
             /\ wire = <<>> => handled = sent /\ parser = Frames!Waiting
  <2>1. ASSUME sent >= 1, NEW k \in 0 .. Len(Frames!Messages[sent].payload) + 3,
               FrameRead(Frames!Messages[sent], k), wire = <<>>
        PROVE  FALSE
    <3>1. Frames!Messages[sent] \in FrameMessage
      BY <1>1, <2>1, FramesMessages DEF FramesTyped
    <3>2. Len(Frames!Messages[sent].payload) \in Nat /\ Len(<<>>) = 0
      BY <3>1, LenProperties, EmptySeq DEF FrameMessage
    <3> QED
      BY <2>1, <3>2 DEF FrameRead, FrameLeft
  <2> QED
    BY <1>3, <2>1 DEF FramesInv, FramesInOrder
<1> QED
  BY <1>2, <1>3 DEF FramesAreWhole, Frames!LosslessIsWhole, FramesCarried

LEMMA FramesMoves == [Next]_vars => [Frames!Next]_(Frames!vars)
BY DEF Next, NextDevices, NextBoard, NotSerial, vars, framesVars, Frames!vars

(* hid.py, main.cpp of the bridge: whatever is sent, byte by byte and with any *)
(* checksum the two ends share, every message whose text is no longer than     *)
(* 253 bytes is acted upon when its last byte is read, once and in order, as   *)
(* long as the line makes no fault; ByteLine says what a byte is.             *)
THEOREM FramesWhole == ASSUME ByteLine PROVE Spec => []FramesAreWhole
<1>1. Init => FramesInv
  BY FramesInvInit, HostConstants DEF Init, PartsInit
<1>2. FramesInv /\ [Next]_vars => FramesInv'
  BY FramesInvStep, FramesMoves, HostConstants
<1>3. FramesInv => FramesAreWhole
  BY FramesInvHolds
<1> QED
  BY <1>1, <1>2, <1>3, PTL DEF Spec

-----------------------------------------------------------------------------
(* The types of all parts: what the inductive invariants above leave out is   *)
(* the history and the logs, and video capture, which has no invariant of its *)
(* own (its picture comes back: a liveness property).                        *)

PowerLogs ==
  /\ failed \subseteq Lines
  /\ actions \in Seq(Lines) /\ Len(actions) <= LogMax

(* _log_action keeps its limit. *)
LEMMA PowerLogged ==
  ASSUME HostConstants, NEW log \in Seq(Lines), Len(log) <= LogMax, NEW b \in Lines
  PROVE  Power!Logged(log, b) \in Seq(Lines) /\ Len(Power!Logged(log, b)) <= LogMax
<1> DEFINE longer == Append(log, b)
<1>1. longer \in Seq(Lines) /\ Len(longer) = Len(log) + 1 /\ longer # <<>>
  OBVIOUS
<1>2. Len(log) \in Nat /\ LogMax \in Nat \ {0}
  BY DEF HostConstants
<1> HIDE DEF longer
<1>3. Tail(longer) \in Seq(Lines) /\ Len(Tail(longer)) = Len(log)
  BY <1>1, <1>2
<1>4. Power!Logged(log, b) = IF Len(longer) > LogMax THEN Tail(longer) ELSE longer
  BY DEF Power!Logged, longer
<1>5. CASE Len(longer) > LogMax
  BY <1>3, <1>4, <1>5
<1>6. CASE ~(Len(longer) > LogMax)
  BY <1>1, <1>2, <1>4, <1>6
<1> QED
  BY <1>5, <1>6

LEMMA PowerLogsInit == ASSUME HostConstants, Power!Init PROVE PowerLogs
BY DEF Power!Init, PowerLogs, HostConstants

LEMMA PowerLogsStep ==
  ASSUME HostConstants, PowerInv, PowerLogs, [Power!Next]_(Power!vars)
  PROVE  PowerLogs'
<1>0. Len(<<>>) = 0 /\ LogMax \in Nat \ {0}
  BY DEF HostConstants
<1>1. ASSUME NEW p \in Presses, NEW b \in Lines, NEW ticks \in Durations, Power!Request(p, b, ticks)
      PROVE  PowerLogs'
  BY <1>1, PowerLogged DEF Power!Request, PowerLogs
<1>2. ASSUME NEW p \in Presses, Power!Handler(p)
      PROVE  PowerLogs'
  BY <1>2 DEF Power!Handler, Power!Rise, Power!Fall, Power!WriteFails, PowerLogs, PowerInv, PowerTypes
<1>3. CASE Power!Setup \/ Power!Tick \/ Power!Cleanup \/ Power!Crash
  <2>1. failed' \subseteq Lines
    BY <1>3 DEF Power!Setup, Power!Tick, Power!Cleanup, Power!Crash, PowerLogs
  <2>2. actions' = actions \/ actions' = <<>>
    BY <1>3 DEF Power!Setup, Power!Tick, Power!Cleanup, Power!Crash
  <2>3. CASE actions' = <<>>
    BY <1>0, <2>1, <2>3 DEF PowerLogs
  <2>4. CASE actions' = actions
    BY <2>1, <2>4 DEF PowerLogs
  <2> QED
    BY <2>2, <2>3, <2>4
<1>4. CASE UNCHANGED Power!vars
  BY <1>4 DEF Power!vars, PowerLogs
<1> QED
  BY <1>1, <1>2, <1>3, <1>4 DEF Power!Next

LEMMA PowerInvHolds == PowerInv /\ PowerLogs => Power!TypeOK
BY DEF PowerInv, PowerTypes, PowerPress, PowerLogs, Power!TypeOK

TerminalLeaks == leaked \in 0..MaxLeaks

LEMMA TerminalLeaksInit == ASSUME HostConstants, Terminal!Init PROVE TerminalLeaks
BY DEF Terminal!Init, TerminalLeaks, HostConstants

LEMMA TerminalLeaksStep ==
  ASSUME HostConstants, TerminalLeaks, [Terminal!Next]_(Terminal!vars)
  PROVE  TerminalLeaks'
BY DEF HostConstants, TerminalLeaks, Terminal!vars, Terminal!Next, Terminal!Connect, Terminal!Create,
       Terminal!CreateFails, Terminal!ReaderEnds, Terminal!ShellExits, Terminal!Disconnect, Terminal!Shutdown

LEMMA TerminalTypesHold == TerminalInv /\ TerminalLeaks => Terminal!TypeOK
BY DEF TerminalInv, TerminalTypes, TerminalOwned, TerminalLeaks, Terminal!TypeOK

VideoFaults == glitches \in 0..MaxGlitches

VideoPlaces ==
  /\ plugged \in BOOLEAN /\ connected \in BOOLEAN /\ capturing \in BOOLEAN
  /\ cap \in {"none", "good", "bad"}
  /\ capture \in {"none", "top", "opening", "reading", "sleeping", "ended"}
  /\ frame \in {"none", "current", "old"} /\ shown \in {"none", "current", "old"}

LEMMA VideoTypes == VideoPlaces /\ VideoFaults <=> Video!TypeOK
BY ZenonT(30) DEF VideoPlaces, VideoFaults, Video!TypeOK

LEMMA VideoTypesInit == ASSUME HostConstants, Video!Init PROVE VideoPlaces /\ VideoFaults
<1>1. VideoPlaces
  BY Zenon DEF Video!Init, VideoPlaces
<1>2. VideoFaults
  BY DEF Video!Init, VideoFaults, HostConstants
<1> QED
  BY <1>1, <1>2

LEMMA VideoPlacesStep ==
  ASSUME VideoPlaces, [Video!Next]_(Video!vars)
  PROVE  VideoPlaces'
<1>1. CASE Video!Start \/ Video!Stop \/ Video!View \/ Video!Plug
  BY <1>1, ZenonT(30) DEF VideoPlaces, Video!Start, Video!Stop, Video!View, Video!Plug
<1>2. CASE Video!Unplug
  BY <1>2, ZenonT(30) DEF VideoPlaces, Video!Unplug, Video!Ages
<1>3. CASE Video!Top \/ Video!Wakes
  BY <1>3, ZenonT(30) DEF VideoPlaces, Video!Top, Video!Wakes
<1>4. CASE Video!Opened
  BY <1>4, ZenonT(30) DEF VideoPlaces, Video!Opened
<1>5. CASE Video!Captured \/ Video!NotCaptured
  BY <1>5, ZenonT(30) DEF VideoPlaces, Video!Captured, Video!NotCaptured
<1>6. CASE UNCHANGED Video!vars
  BY <1>6, Zenon DEF Video!vars, VideoPlaces
<1> QED
  BY <1>1, <1>2, <1>3, <1>4, <1>5, <1>6 DEF Video!Next, Video!CaptureLoop

LEMMA VideoFaultsStep ==
  ASSUME HostConstants, VideoFaults, [Video!Next]_(Video!vars)
  PROVE  VideoFaults'
<1>1. glitches' = glitches \/ Video!Fault
  BY DEF Video!Next, Video!vars, Video!Start, Video!Stop, Video!View, Video!Plug, Video!Unplug,
         Video!CaptureLoop, Video!Top, Video!Opened, Video!Captured, Video!NotCaptured, Video!Wakes
<1> QED
  BY <1>1 DEF VideoFaults, Video!Fault, HostConstants

LEMMA VideoMoves == [Next]_vars => [Video!Next]_(Video!vars)
BY DEF Next, NextDevices, NextBoard, NotBoard, vars, videoVars, Video!vars

(* Every component keeps the types of its variables and the limits of its     *)
(* logs and counters, for any number of lines, presses, keys, slots, clients, *)
(* bridges and terminals.                                                    *)
THEOREM PartsTypes == ASSUME ByteLine PROVE Spec => []PartsTypeOK
<1> DEFINE Keyboards == ChipInv /\ GadgetInv /\ OrangeInv
           Board     == TerminalInv /\ TerminalLeaks /\ VideoPlaces /\ VideoFaults
           Inv       == PowerInv /\ PowerLogs /\ EspInv /\ Keyboards /\ FramesInv /\ LinkInv /\ Board
<1>1. Init => Inv
  BY PowerInvInit, PowerLogsInit, EspInvInit, ChipInvInit, GadgetInvInit, OrangeInvInit, FramesInvInit, LinkInvInit,
     TerminalInvInit, TerminalLeaksInit, VideoTypesInit, HostConstants DEF Init, PartsInit, HostConstants
<1>2. Inv /\ [Next]_vars => Inv'
  <2> SUFFICES ASSUME Inv, [Next]_vars PROVE Inv'
    OBVIOUS
  <2>1. PowerInv' /\ PowerLogs'
    BY PowerInvStep, PowerLogsStep, PowerMoves, HostConstants DEF HostConstants
  <2>2. EspInv'
    BY EspInvStep, EspMoves, HostConstants
  <2>3. Keyboards'
    BY ChipInvStep, ChipMoves, GadgetInvStep, GadgetMoves, OrangeInvStep, OrangeMoves, HostConstants
  <2>4. FramesInv' /\ LinkInv'
    BY FramesInvStep, FramesMoves, LinkInvStep, LinkMoves, HostConstants
  <2>5. Board'
    BY TerminalInvStep, TerminalLeaksStep, TerminalMoves, VideoPlacesStep, VideoFaultsStep, VideoMoves, HostConstants
       DEF HostConstants
  <2> QED
    BY <2>1, <2>2, <2>3, <2>4, <2>5
<1>3. Inv => PartsTypeOK
  BY PowerInvHolds, EspInvHolds, GadgetInvHolds, OrangeInvHolds, FramesInvHolds, LinkInvHolds, HostConstants,
     TerminalTypesHold, VideoTypes
     DEF ChipInv, PartsTypeOK
<1> QED
  BY <1>1, <1>2, <1>3, PTL DEF Spec
=============================================================================
