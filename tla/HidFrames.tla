----------------------------- MODULE HidFrames -----------------------------
(***************************************************************************)
(* The serial protocol between the CM4 server and the ESP32-S3 bridge: the   *)
(* frames SerialHIDBridge of hid.py builds, and the parser and dispatcher of *)
(* armhost-cm4/firmware/src/main.cpp that read them, one action per byte.     *)
(* The line may lose or damage a byte.  The parser has no timeout: a lost     *)
(* byte leaves it in the middle of a frame until other bytes fill it up.      *)
(*                                                                          *)
(* The order in which the host writes and the chip reads does not matter to   *)
(* the parser, so a frame is put on the wire when the wire is empty.          *)
(***************************************************************************)
EXTENDS Integers, Sequences, FiniteSetsExt

CONSTANTS
  Scripts,   \* what the host may send: the messages, and how many are at risk on the line
  Jsons,     \* payloads that are JSON texts
  MaxFaults, \* bytes the line loses or damages
  Damages,   \* what it may do to a byte: masks
  Corrupt(_, _), \* the byte it makes of one, with a mask
  Checksum(_)    \* crc8_calc

HEAD == 170
KEYBOARD == 1  MOUSE == 2  HEARTBEAT == 3  RESET_ALL == 4  MOVE_REL == 5  JSON_HID == 16

VARIABLES
  script,  \* the number of the script of this behaviour
  sent,    \* how many of them are sent
  wire,    \* bytes on their way to the chip
  parser,  \* parse_state, frame_type, frame_len, frame_payload
  handled, \* how many messages the chip acted upon
  place,   \* history: their places in the script, in order: the last one; -1 for none
  replies, \* kinds of the frames it sent back
  faults,  \* bytes lost or damaged so far
  silent   \* history: bytes read since the last message was handled

vars == <<script, sent, wire, parser, handled, place, replies, faults, silent>>

(* On the chip crc8_calc takes the length as a uint8_t. *)
ChipCrc(bytes) == Checksum(SubSeq(bytes, 1, Len(bytes) % 256))

(* _build_frame. *)
Frame(m) ==
  LET body == <<m.type, Len(m.payload)>> \o m.payload
  IN  <<HEAD>> \o body \o <<Checksum(body)>>

Messages == Scripts[script].messages

(* What the host may be asked to send are bytes. *)
ScriptsOK ==
  \A i \in DOMAIN Scripts :
    Scripts[i].messages \in Seq([type : 0 .. 255, payload : Seq(0 .. 255)])

(* send_json: a text that does not fit into a frame is dropped. *)
Fits(m) == Len(m.payload) <= 255

Send ==
  /\ wire = <<>> /\ sent < Len(Messages)
  /\ sent' = sent + 1
  /\ wire' = IF Fits(Messages[sent']) THEN Frame(Messages[sent']) ELSE <<>>
  /\ UNCHANGED <<script, parser, handled, place, replies, faults, silent>>

Lose ==
  /\ wire # <<>> /\ faults < MaxFaults /\ sent <= Scripts[script].risked
  /\ wire' = Tail(wire) /\ faults' = faults + 1
  /\ UNCHANGED <<script, sent, parser, handled, place, replies, silent>>

Damage ==
  /\ wire # <<>> /\ faults < MaxFaults /\ sent <= Scripts[script].risked
  /\ \E mask \in Damages : wire' = <<Corrupt(Head(wire), mask)>> \o Tail(wire)
  /\ faults' = faults + 1
  /\ UNCHANGED <<script, sent, parser, handled, place, replies, silent>>

-----------------------------------------------------------------------------
Waiting == [state |-> "head", type |-> 0, len |-> 0, payload |-> <<>>]

(* The first place of the script behind from that holds m; -1 when there is none. *)
Match(m, from) ==
  LET hits == {i \in from + 1 .. Len(Messages) : Messages[i] = m}
  IN  IF from < 0 \/ hits = {} THEN -1 ELSE Min(hits)

(* process_frame: what is acted upon; everything else is answered by an error. *)
Acceptable(type, payload) ==
  CASE type = KEYBOARD -> Len(payload) = 8
    [] type = MOUSE    -> Len(payload) = 7
    [] type = MOVE_REL -> Len(payload) = 2
    [] type = JSON_HID -> payload \in Jsons
    [] OTHER           -> type \in {HEARTBEAT, RESET_ALL}

(* A checked frame is processed; a heartbeat is answered. *)
Process(m) ==
  IF Acceptable(m.type, m.payload)
  THEN /\ handled' = handled + 1 /\ place' = Match(m, place)
       /\ replies' = IF m.type = HEARTBEAT THEN Append(replies, "ack") ELSE replies
  ELSE /\ replies' = Append(replies, "error")
       /\ UNCHANGED <<handled, place>>

Silent == UNCHANGED <<handled, place, replies>>

(* Mutant: the checksum is not compared. *)
ParseCrcUnchecked(b) ==
  parser' = Waiting /\ Process([type |-> parser.type, payload |-> parser.payload])

(* WAIT_CRC. *)
ParseCrc(b) ==
  LET m == [type |-> parser.type, payload |-> parser.payload]
  IN  /\ parser' = Waiting
      /\ IF b = ChipCrc(<<m.type, parser.len>> \o m.payload)
         THEN Process(m)
         ELSE replies' = Append(replies, "error") /\ UNCHANGED <<handled, place>>

(* parse_byte; PROTO_MAX_PAYLOAD is 255, so no length is too large. *)
ParseByte ==
  /\ wire # <<>>
  /\ wire' = Tail(wire)
  /\ LET b == Head(wire)
     IN  \/ /\ parser.state = "head" /\ Silent
            /\ parser' = IF b = HEAD THEN [Waiting EXCEPT !.state = "type"] ELSE parser
         \/ /\ parser.state = "type" /\ Silent
            /\ parser' = [parser EXCEPT !.state = "len", !.type = b]
         \/ /\ parser.state = "len" /\ Silent
            /\ parser' = [parser EXCEPT !.state = IF b = 0 THEN "crc" ELSE "payload", !.len = b]
         \/ /\ parser.state = "payload" /\ Silent
            /\ parser' = [parser EXCEPT
                 !.payload = Append(@, b),
                 !.state = IF Len(parser.payload) + 1 >= parser.len THEN "crc" ELSE "payload"]
         \/ parser.state = "crc" /\ ParseCrc(b)
  /\ silent' = IF handled' = handled THEN silent + 1 ELSE 0
  /\ UNCHANGED <<script, sent, faults>>

Init ==
  /\ script \in DOMAIN Scripts /\ sent = 0 /\ wire = <<>>
  /\ parser = Waiting /\ handled = 0 /\ place = 0 /\ replies = <<>> /\ faults = 0
  /\ silent = 0

Next == Send \/ Lose \/ Damage \/ ParseByte
Spec == Init /\ [][Next]_vars

-----------------------------------------------------------------------------
TypeOK ==
  /\ wire \in Seq(0 .. 255) /\ sent \in 0 .. Len(Messages)
  /\ parser.state \in {"head", "type", "len", "payload", "crc"} /\ parser.payload \in Seq(0 .. 255)
  /\ faults \in 0 .. MaxFaults

(* The chip acts upon messages the host sent, each at most once and in their  *)
(* order: a frame torn or damaged on the line is never taken for another.     *)
HandledInOrder == place \in 0 .. sent

(* Without a fault every message is acted upon as soon as its last byte is    *)
(* read, once and in order, and leaves the parser ready for the next; up to   *)
(* 253 bytes: with 254 and 255 the chip's length wraps in ChipCrc.           *)
Carried(m) == Acceptable(m.type, m.payload) /\ Len(m.payload) <= 253
LosslessIsWhole ==
  faults = 0 /\ (\A i \in 1 .. sent : Carried(Messages[i])) =>
    /\ place = handled /\ handled \in {sent - 1, sent}
    /\ wire = <<>> => handled = sent /\ parser = Waiting

(* After a fault the parser may take any byte for a length and swallow as     *)
(* many, but then it is back: it handles a message at least once in the bytes *)
(* of the longest payload and two of its frames.                              *)
FaultPasses == \E i \in DOMAIN Messages : silent <= 258 + 2 * (4 + Len(Messages[i].payload))
=============================================================================
