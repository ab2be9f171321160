------------------------------ MODULE HidLink ------------------------------
(***************************************************************************)
(* The life of the serial link of the CM4 server to the ESP32-S3 bridge:      *)
(* SerialHIDBridge and HIDManager of hid.py (start, stop, select_port, the    *)
(* heartbeat), and ESP32Flasher of esp32_flasher.py, which closes the link,   *)
(* puts the chip into its boot loader with the EN and BOOT lines, runs        *)
(* esptool, resets the chip and opens the link again.  Only flashing looks at *)
(* _flashing: a reset, a second reset and a change of port come at any time.  *)
(* A request may be cancelled at any await and the server may end at any      *)
(* moment; a sequence of line changes runs in a pool thread, which a          *)
(* cancelled request leaves running.  The pins work once they are set up.     *)
(***************************************************************************)
EXTENDS Integers, Sequences

CONSTANTS
  Requests,   \* bound: flashes and resets under way at a time, threads left running included
  MaxBridges, \* bound: SerialHIDBridge objects a server makes
  Patience    \* heartbeats without an answer before the link is given up (3)

VARIABLES
  bridge,   \* of each object: is its port open, is it _connected, does its heartbeat
            \* run, answers missed (Patience before the first answer)
  current,  \* manager._bridge
  request,  \* of each flash_firmware and reset_esp32: where it is suspended, whether only
            \* its thread is left, and the bridge it is closing
  select,   \* the bridge whose select_port is suspended, or 0
  chip,     \* EN and BOOT lines, and what the chip runs
  crossed,  \* history: two of the requests overlapped, or a bridge was replaced unstopped
  cut       \* history: a flash was cut short between its entry into the boot loader and
            \* its way back, and none has gone that way since

vars == <<bridge, current, request, select, chip, crossed, cut>>

Bridges == 1 .. MaxBridges
Unmade  == [made |-> FALSE, open |-> FALSE, connected |-> FALSE, beats |-> FALSE, missed |-> 0]
Made(ok) == [made |-> TRUE, open |-> ok, connected |-> ok, beats |-> ok, missed |-> Patience]

Idle      == [at |-> "idle", gone |-> FALSE, of |-> 0]
At(r)     == request[r].at
Entering  == {"enter1", "enter2", "enter3"}
Exiting   == {"exit1", "exit2", "exit3"}
Resetting == {"low", "high"}
Flashing  == {"closing", "esptool", "reopen"} \cup Entering \cup Exiting
Places    == {"idle", "stopping", "restart"} \cup Flashing \cup Resetting

Working == select # 0 \/ \E r \in Requests : At(r) # "idle"

(* A request comes: does it overlap another? *)
Crosses == crossed' = (crossed \/ Working)

(* The lines; a rise of EN starts what BOOT asks for. *)
EN(high) ==
  [chip EXCEPT !.en = high,
               !.runs = IF ~high THEN "nothing"
                        ELSE IF chip.en THEN @ ELSE IF chip.boot THEN "app" ELSE "loader"]
BOOT(high) == [chip EXCEPT !.boot = high]

Answers == chip.runs = "app"

-----------------------------------------------------------------------------
(* SerialHIDBridge. *)

(* HIDManager.start: a new bridge takes the place of the old one, whatever    *)
(* that still does; probing answers or not, opening works or not.             *)
Restart ==
  /\ current < MaxBridges
  /\ current' = current + 1
  /\ \E ok \in {FALSE, Answers} : bridge' = [bridge EXCEPT ![current + 1] = Made(ok)]
  /\ crossed' = (crossed \/ bridge[current].open)

(* _heartbeat_loop of one bridge: an answer, or none. *)
Heartbeat(b) ==
  /\ bridge[b].beats /\ bridge[b].connected
  /\ \/ /\ Answers /\ bridge[b].open
        /\ bridge' = [bridge EXCEPT ![b].missed = 0]
     \/ bridge' = [bridge EXCEPT ![b].missed = IF @ < Patience THEN @ + 1 ELSE @,
                                 ![b].connected = bridge[b].missed + 1 < Patience]
  /\ UNCHANGED <<current, request, select, chip, crossed, cut>>

(* A write of a frame fails. *)
WriteFails ==
  /\ bridge[current].connected
  /\ bridge' = [bridge EXCEPT ![current].connected = FALSE]
  /\ UNCHANGED <<current, request, select, chip, crossed, cut>>

(* select_port: the link is closed at once; while the new port is probed      *)
(* _connected is left as it was.                                              *)
SelectPort ==
  /\ select = 0
  /\ select' = current /\ Crosses
  /\ bridge' = [bridge EXCEPT ![current] = [@ EXCEPT !.beats = FALSE, !.open = FALSE]]
  /\ UNCHANGED <<current, request, chip, cut>>

(* The new port answers and is opened, or the request ends, by itself or      *)
(* cancelled, with the link closed.                                           *)
SelectProbed ==
  /\ select # 0
  /\ select' = 0
  /\ \/ UNCHANGED bridge
     \/ Answers /\ \E ok \in BOOLEAN :
          bridge' = [bridge EXCEPT ![select] = [@ EXCEPT !.open = ok, !.connected = ok, !.beats = ok]]
  /\ UNCHANGED <<current, request, chip, crossed, cut>>

-----------------------------------------------------------------------------
(* ESP32Flasher. *)

(* HIDManager.stop, on behalf of a flash or a reset: the heartbeat is         *)
(* cancelled, and while the RESET_ALL frame is written the request waits.     *)
Stop(r, waits) ==
  /\ At(r) = "idle" /\ current < MaxBridges
  /\ request' = [request EXCEPT ![r] = [at |-> waits, gone |-> FALSE, of |-> current]]
  /\ bridge' = [bridge EXCEPT ![current].beats = FALSE]
  /\ Crosses
  /\ UNCHANGED <<current, select, chip, cut>>

(* flash_firmware, and reset_esp32 whose only condition is available. *)
Flash(r) == (\A o \in Requests : At(o) \in Flashing => request[o].gone) /\ Stop(r, "closing")
Reset(r) == Stop(r, "stopping")

(* The frame is written and the port is closed, or closing raises: flashing   *)
(* goes on to its emergency recovery, a reset ends.                           *)
Stopped(r) ==
  LET of == request[r].of
      Goes(at) == request' = [request EXCEPT ![r] = [at |-> at, gone |-> FALSE, of |-> 0]]
  IN /\ At(r) \in {"closing", "stopping"}
     /\ \/ /\ bridge' = [bridge EXCEPT ![of] = [@ EXCEPT !.open = FALSE, !.connected = FALSE]]
           /\ Goes(IF At(r) = "closing" THEN "enter1" ELSE "low")
        \/ /\ UNCHANGED bridge
           /\ Goes(IF At(r) = "closing" THEN "exit1" ELSE "idle")
     /\ UNCHANGED <<current, select, chip, crossed, cut>>

(* One step of a sequence in its pool thread, with a sleep after it.  A       *)
(* thread whose request was cancelled ends with its sequence.                 *)
Step(r, from, to, newChip) ==
  /\ At(r) = from
  /\ request' = [request EXCEPT ![r] =
       IF @.gone /\ to \in {"esptool", "reopen", "restart"} THEN Idle ELSE [@ EXCEPT !.at = to]]
  /\ chip' = newChip
  /\ UNCHANGED <<bridge, current, select, crossed>>

EnterDownloadMode(r) ==
  /\ \/ Step(r, "enter1", "enter2", BOOT(FALSE))
     \/ Step(r, "enter2", "enter3", EN(FALSE))
     \/ Step(r, "enter3", "esptool", EN(TRUE))
  /\ UNCHANGED cut

(* esptool ends, well or not: the way back is the same. *)
RunEsptool(r) ==
  /\ At(r) = "esptool"
  /\ request' = [request EXCEPT ![r].at = "exit1"]
  /\ UNCHANGED <<bridge, current, select, chip, crossed, cut>>

(* BOOT is released: the way back makes good what was cut short before, but   *)
(* for a thread that is still on its way into the boot loader.                *)
Released == cut' = (\E r \in Requests : request[r].gone /\ At(r) \in Entering)

(* Mutant: the chip is reset before BOOT is released. *)
ExitResetsFirst(r) ==
  \/ Step(r, "exit1", "exit2", EN(FALSE)) /\ UNCHANGED cut
  \/ Step(r, "exit2", "exit3", EN(TRUE)) /\ UNCHANGED cut
  \/ Step(r, "exit3", "reopen", BOOT(TRUE)) /\ Released

ExitDownloadMode(r) ==
  \/ Step(r, "exit1", "exit2", BOOT(TRUE)) /\ Released
  \/ Step(r, "exit2", "exit3", EN(FALSE)) /\ UNCHANGED cut
  \/ Step(r, "exit3", "reopen", EN(TRUE)) /\ UNCHANGED cut

PulseReset(r) ==
  /\ \/ Step(r, "low", "high", EN(FALSE))
     \/ Step(r, "high", "restart", EN(TRUE))
  /\ UNCHANGED cut

(* The link is opened again, whether esptool succeeded or not. *)
Reopens(r) ==
  /\ At(r) \in {"reopen", "restart"}
  /\ request' = [request EXCEPT ![r] = Idle]
  /\ Restart
  /\ UNCHANGED <<select, chip, cut>>

(* A flash or a reset is cancelled: CancelledError passes the except clause   *)
(* and with it the recovery.  A sequence goes on in its thread, unless it was *)
(* not begun.                                                                 *)
Cancel(r) ==
  /\ At(r) # "idle" /\ ~request[r].gone
  /\ \/ /\ At(r) \in Entering \cup Exiting \cup Resetting
        /\ request' = [request EXCEPT ![r].gone = TRUE]
        /\ cut' = (cut \/ At(r) \in Entering)
     \/ /\ At(r) \notin {"enter2", "enter3", "exit2", "exit3", "high"}
        /\ request' = [request EXCEPT ![r] = Idle]
        /\ cut' = (cut \/ At(r) \in {"esptool", "exit1"})
  /\ UNCHANGED <<bridge, current, select, chip, crossed>>

-----------------------------------------------------------------------------
(* Mutant: the new server leaves the lines as it finds them. *)
NoSetup == chip' = chip

(* GPIOPin.setup, or cleanup before it: EN goes high, then BOOT. *)
Setup == chip' = [EN(TRUE) EXCEPT !.boot = TRUE]

(* The server dies or ends, wherever its requests and threads are, and a new  *)
(* one starts: the manager first, which opens the link if the chip answers,   *)
(* then the lines.                                                            *)
Anew ==
  /\ \E ok \in {FALSE, Answers} : bridge' = [b \in Bridges |-> IF b = 1 THEN Made(ok) ELSE Unmade]
  /\ current' = 1 /\ select' = 0 /\ crossed' = FALSE
  /\ request' = [r \in Requests |-> Idle]
  /\ Setup
  /\ cut' = (cut \/ \E r \in Requests : At(r) \in {"enter2", "enter3", "esptool", "exit1", "exit2"})

Init ==
  /\ chip = [en |-> TRUE, boot |-> TRUE, runs |-> "app"]
  /\ current = 1
  /\ \E ok \in BOOLEAN : bridge = [b \in Bridges |-> IF b = 1 THEN Made(ok) ELSE Unmade]
  /\ request = [r \in Requests |-> Idle] /\ select = 0
  /\ crossed = FALSE /\ cut = FALSE

FlashRun(r) == EnterDownloadMode(r) \/ RunEsptool(r) \/ ExitDownloadMode(r) \/ Reopens(r)

Next ==
  \/ \E r \in Requests :
       Flash(r) \/ Reset(r) \/ Stopped(r) \/ FlashRun(r) \/ PulseReset(r) \/ Cancel(r)
  \/ SelectPort \/ SelectProbed \/ WriteFails \/ Anew
  \/ \E b \in Bridges : Heartbeat(b)

Spec == Init /\ [][Next]_vars

-----------------------------------------------------------------------------
TypeOK ==
  /\ current \in Bridges
  /\ bridge \in [Bridges -> [made : BOOLEAN, open : BOOLEAN, connected : BOOLEAN,
                             beats : BOOLEAN, missed : 0 .. Patience]]
  /\ request \in [Requests -> [at : Places, gone : BOOLEAN, of : 0 .. MaxBridges]]
  /\ chip \in [en : BOOLEAN, boot : BOOLEAN, runs : {"app", "loader", "nothing"}]
  /\ select \in 0 .. MaxBridges
  /\ crossed \in BOOLEAN /\ cut \in BOOLEAN

(* When neither flashing nor a reset is under way, nor a thread one of them   *)
(* left, the chip runs its application with both lines released: whichever    *)
(* requests overlapped, whether closing the link or esptool failed, wherever  *)
(* a reset was cancelled or its server died.  Only a flash cut short between  *)
(* its entry and its way back leaves it in the boot loader, until the next.   *)
ChipIsBack ==
  ~cut /\ (\A r \in Requests : At(r) = "idle") => chip = [en |-> TRUE, boot |-> TRUE, runs |-> "app"]

(* While a flash waits for esptool nothing of the server holds the port open  *)
(* or beats on it, as long as flashing overlapped no other request and its    *)
(* recovery from an error replaced no open bridge.                            *)
EsptoolOwnsPort ==
  ~crossed /\ (\E r \in Requests : At(r) = "esptool")
    => \A b \in Bridges : ~bridge[b].open /\ ~bridge[b].beats
=============================================================================
