---------------------------- MODULE HidChecksum ----------------------------
(***************************************************************************)
(* The checksum of the serial frames, byte for byte as _crc8 of hid.py and   *)
(* crc8_calc of protocol.h compute it, and what the line may do to a byte.    *)
(* In a module of its own because it takes the bitwise operators: what        *)
(* HidFrames promises without a fault holds for every checksum.              *)
(***************************************************************************)
EXTENDS Integers, Sequences, SequencesExt, Bitwise

(* crc8_calc: polynomial 0x07, one table entry per byte. *)
CrcShift == [c \in 0 .. 255 |-> IF c >= 128 THEN ((2 * c) % 256) ^^ 7 ELSE 2 * c]
CrcTable == [c \in 0 .. 255 |->
  CrcShift[CrcShift[CrcShift[CrcShift[CrcShift[CrcShift[CrcShift[CrcShift[c]]]]]]]]]

(* The bytes are taken a block at a time, which only keeps the recursion flat. *)
CrcFrom[crc0 \in 0 .. 255, bytes \in Seq(0 .. 255)] ==
  FoldLeft(LAMBDA crc, byte : CrcTable[crc ^^ byte], crc0, bytes)
Blocks(bytes) ==
  [k \in 1 .. (Len(bytes) + 15) \div 16 |->
    SubSeq(bytes, 16 * k - 15, IF 16 * k < Len(bytes) THEN 16 * k ELSE Len(bytes))]
Crc(bytes) == FoldLeft(LAMBDA crc, block : CrcFrom[crc, block], 0, Blocks(bytes))

(* The line turns the bits of mask over (external). *)
Flipped(byte, mask) == byte ^^ mask
=============================================================================
