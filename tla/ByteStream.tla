----------------------------- MODULE ByteStream -----------------------------
(***************************************************************************)
(* The byte streams libstyxe reads from and writes to (Solace::ByteWriter, *)
(* Solace::ByteReader, not part of this repository) and the little-endian  *)
(* integers that Encoder and Decoder put on them.                          *)
(*                                                                         *)
(* A writer is a record: mem, the cells of the buffer, indexed from 0;     *)
(* pos, the index of the next cell to write; lim, the first index that may *)
(* not be written.  The library relies on two facts about it: a write that *)
(* does not fit changes nothing, and neither does moving past the limit.   *)
(*                                                                         *)
(* Integers keep their width in cells: 1, 2, 4 or 8.  Base is the number   *)
(* of values of one digit of a multi-byte integer, 256 in the code.  A     *)
(* smaller Base keeps every layout and every size and brings the overflow  *)
(* of a uint16 within the reach of TLC.                                    *)
(***************************************************************************)
EXTENDS Integers, Sequences

CONSTANT Base

ASSUME BaseAssumption == Base \in Nat \ {0, 1}

-----------------------------------------------------------------------------
(* Integers on the wire: encoder.cpp writes and decoder.cpp reads them with *)
(* writeLE and readLE, lowest digit first.  Digits beyond the width are     *)
(* cut off, as in a conversion to the narrower C++ type.                    *)

Quot1(v) == v \div Base
Quot2(v) == Quot1(v) \div Base
Quot3(v) == Quot2(v) \div Base
Quot4(v) == Quot3(v) \div Base

U16Bytes(v) == << v % Base, Quot1(v) % Base >>

U32Bytes(v) == << v % Base, Quot1(v) % Base, Quot2(v) % Base, Quot3(v) % Base >>

U64Bytes(v) == U32Bytes(v) \o U32Bytes(Quot4(v))

U16Value(b) == b[1] + Base * b[2]

U32Value(b) == b[1] + Base * (b[2] + Base * (b[3] + Base * b[4]))

U64Value(b) == U32Value(b)
               + Base * Base * Base * Base * U32Value(SubSeq(b, 5, 8))

(* headerSize(): messageSize, type and tag, in front of every message *)
headerSize == 4 + 1 + 2

(* The number of values of uint16_t, of uint32_t and of uint64_t. *)
U16Range == Base * Base
U32Range == Base * Base * Base * Base
U64Range == U32Range * U32Range

-----------------------------------------------------------------------------
(* ByteWriter *)

Fits(s, n) == s.pos + n <= s.lim

(* write and writeLE: all of the bytes, or, when they do not fit, none. *)
Write(s, bytes) ==
  IF Fits(s, Len(bytes))
  THEN [mem |-> [i \in DOMAIN s.mem |->
                   IF s.pos <= i /\ i < s.pos + Len(bytes)
                   THEN bytes[i - s.pos + 1]
                   ELSE s.mem[i]],
        pos |-> s.pos + Len(bytes),
        lim |-> s.lim]
  ELSE s

(* position(p) and advance(n): an error, and no move, past the limit. *)
MoveTo(s, p) == IF p <= s.lim THEN [mem |-> s.mem, pos |-> p, lim |-> s.lim] ELSE s

Advance(s, n) == MoveTo(s, s.pos + n)

(* Cells from .. to-1 as a sequence of bytes. *)
Slice(s, from, to) == [i \in 1..(to - from) |-> s.mem[from + i - 1]]

(* What every writer is, whatever was written to it. *)
IsByteWriter(s) ==
  /\ s = [mem |-> s.mem, pos |-> s.pos, lim |-> s.lim]
  /\ s.lim \in Nat
  /\ s.pos \in 0..s.lim
  /\ s.mem \in [0..(s.lim - 1) -> Nat]
=============================================================================
