---------------------------- MODULE MessageFrame ----------------------------
(***************************************************************************)
(* The header of a message and what MessageWriterBase does with it:        *)
(* include/styxe/messageWriter.hpp and src/messageWriter.cpp.              *)
(***************************************************************************)
EXTENDS ByteStream

Headers == [messageSize : Nat, type : Nat, tag : Nat]

(* The header a writer starts with *)
NewHeader(t) == [messageSize |-> headerSize, type |-> 0, tag |-> t]

(* A header as it is on the wire *)
HeaderBytes(h) == U32Bytes(h.messageSize) \o <<h.type>> \o U16Bytes(h.tag)

(* Encoder << MessageHeader *)
WriteHeader(s, h) ==
  Write(Write(Write(s, U32Bytes(h.messageSize)), <<h.type>>), U16Bytes(h.tag))

(* Mistakes in updateMessageSize: _header keeps its old size; the header   *)
(* goes to the beginning of the buffer.                                    *)
updateMessageSizeStale(s, from, h) ==
  LET h2 == [messageSize |-> (s.pos - from) % U32Range, type |-> h.type, tag |-> h.tag]
  IN  [out |-> MoveTo(WriteHeader(MoveTo(s, from), h2), s.pos), header |-> h]

updateMessageSizeAtZero(s, from, h) ==
  LET h2 == [messageSize |-> (s.pos - from) % U32Range, type |-> h.type, tag |-> h.tag]
  IN  [out |-> MoveTo(WriteHeader(MoveTo(s, 0), h2), s.pos), header |-> h2]

(* updateMessageSize: the stream and the header it leaves *)
updateMessageSize(s, from, h) ==
  LET size == s.pos - from
      h2   == [messageSize |-> size % U32Range, type |-> h.type, tag |-> h.tag]
  IN  IF s.pos = from \/ h.messageSize = size
      THEN [out |-> s, header |-> h]
      ELSE [out |-> MoveTo(WriteHeader(MoveTo(s, from), h2), s.pos), header |-> h2]

(* A mistake: the stream is left behind the field that was patched. *)
PatchAndStay(s, p, bytes) == Write(MoveTo(s, p), bytes)

(* Overwrite a field at p and come back to where the stream was. *)
Patch(s, p, bytes) == MoveTo(Write(MoveTo(s, p), bytes), s.pos)
=============================================================================
