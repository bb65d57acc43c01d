--------------------------- MODULE MessageWriter ---------------------------
(***************************************************************************)
(* Building 9P messages: MessageWriterBase and the partial writers of      *)
(* include/styxe/messageWriter.hpp and src/messageWriter.cpp, and encode   *)
(* of src/write_helper.hpp.                                                *)
(*                                                                         *)
(* A caller constructs a writer over a ByteWriter, gives it one message    *)
(* and, when the message is a partial one, the segments or the data that   *)
(* follow; it may then construct the next writer over the same stream, or  *)
(* empty the stream and give the next message to the same writer.          *)
(* The writer does not know how long a message will be, so it writes a     *)
(* header first and goes back to patch it (updateMessageSize) and to patch *)
(* the count of a path, a string or a data field, after each call.         *)
(* Encoder ignores the result of every write: what does not fit is         *)
(* dropped without a trace, and the writes that follow still happen.       *)
(*                                                                         *)
(* The writes of one message are separate steps here, in the order of the  *)
(* code; every call of a partial writer is one step.                       *)
(***************************************************************************)
EXTENDS MessageFrame

CONSTANTS
  Messages,      \* the messages callers may give to a writer
  Tags,          \* message tags
  ExplicitTags,  \* tags given to messageType(type, tag) by a caller
  Pieces,        \* byte strings given to segment, string and data
  Limits,        \* capacities of the output buffer
  Starts,        \* positions the first writer may start from
  Fill,          \* what the buffer holds before anything is written
  MaxMessages,   \* bound: messages written to one buffer
  MaxCalls       \* bound: calls made on one partial writer

(* A message is what a writer is given: its type code, its fields as the   *)
(* byte strings Encoder writes one after the other, and the partial writer *)
(* that completes it ("whole" if none).                                    *)
Parts == {"whole", "path", "pathdata", "data", "string"}

ASSUME MessagesAssumption ==
  \A m \in Messages : /\ m.code \in Nat
                      /\ m.part \in Parts
                      /\ m.chunks \in Seq(Seq(Nat))

ASSUME InputsAssumption ==
  /\ Tags \subseteq Nat /\ ExplicitTags \subseteq Nat
  /\ Limits \subseteq Nat /\ Starts \subseteq Nat /\ Fill \in Nat
  /\ MaxMessages \in Nat /\ MaxCalls \in Nat
  /\ \A v \in Pieces : v \in Seq(Nat) /\ Len(v) < U16Range

(* A tag is a uint16. *)
ASSUME TagsAssumption == \A t \in Tags \cup ExplicitTags : t < U16Range

(* The size of a message is a uint32: one of 4 GiB has none. *)
ASSUME LimitsAssumption == \A lim \in Limits : lim < U32Range

VARIABLES
  out,      \* the ByteWriter behind Encoder
  start,    \* MessageWriterBase::_pos
  header,   \* MessageWriterBase::_header
  partial,  \* _segmentsPos and _nSegments or _dataSize of the partial writer
  pc,       \* how far the writer has come
  rest,     \* fields of the message that are still to be written
  want,     \* history: what the caller asked for
  lost,     \* history: TRUE once a write of this message did not fit
  count     \* history: messages started and calls of this partial writer

vars == <<out, start, header, partial, pc, rest, want, lost, count>>

-----------------------------------------------------------------------------
(* The last step of every call: s is the stream, the size still to be fixed. *)
Settle(s) ==
  /\ out' = updateMessageSize(s, start, header).out
  /\ header' = updateMessageSize(s, start, header).header
  /\ UNCHANGED start

NoMessage == [code |-> 0, part |-> "whole", chunks |-> <<>>]

Nothing(t) == [msg |-> NoMessage, tag |-> t, fixed |-> <<>>,
               segs |-> <<>>, path |-> <<>>, blob |-> <<>>, view |-> <<>>]

(* MessageWriterBase(dest, tag) *)
Init ==
  \E lim \in Limits, from \in Starts, t \in Tags :
    /\ from <= lim
    /\ out = [mem |-> [i \in 0..(lim - 1) |-> Fill], pos |-> from, lim |-> lim]
    /\ start = from
    /\ header = NewHeader(t)
    /\ partial = [segmentsPos |-> 0, size |-> 0]
    /\ pc = "new"
    /\ rest = <<>>
    /\ want = Nothing(t)
    /\ lost = FALSE
    /\ count = [messages |-> 1, calls |-> 0]

(* The next writer, over the same stream. *)
NewWriter(t) ==
  /\ pc \in {"partial", "complete"}
  /\ count.messages < MaxMessages
  /\ start' = out.pos
  /\ header' = NewHeader(t)
  /\ pc' = "new"
  /\ want' = Nothing(t)
  /\ lost' = FALSE
  /\ count' = [messages |-> count.messages + 1, calls |-> 0]
  /\ UNCHANGED <<out, partial, rest>>

(* The same writer again, over the emptied stream (MessageDump of          *)
(* 9p-corpus.cpp): its _header still has the size, the type and the tag of *)
(* the message before.                                                     *)
ReuseWriter ==
  /\ pc \in {"partial", "complete"}
  /\ start = 0
  /\ count.messages < MaxMessages
  /\ out' = MoveTo(out, 0)
  /\ pc' = "new"
  /\ want' = Nothing(header.tag)
  /\ lost' = FALSE
  /\ count' = [messages |-> count.messages + 1, calls |-> 0]
  /\ UNCHANGED <<start, header, partial, rest>>

(* messageType(type, tag): the header goes out with the tag that was given, *)
(* but only the type is kept in _header.                                    *)
messageType(m, t) ==
  /\ pc = "new"
  /\ header' = [messageSize |-> header.messageSize, type |-> m.code, tag |-> header.tag]
  /\ out' = WriteHeader(out, [messageSize |-> header.messageSize,
                              type |-> m.code, tag |-> t])
  /\ pc' = "fields"
  /\ rest' = m.chunks
  /\ want' = [want EXCEPT !.msg = m, !.tag = t]
  /\ lost' = ~Fits(out, headerSize)
  /\ UNCHANGED <<start, partial, count>>

(* messageTypeOf<M>() and messageType(type) *)
StartMessage(m) == messageType(m, header.tag)

(* encoder << field *)
WriteField ==
  /\ pc = "fields"
  /\ rest # <<>>
  /\ out' = Write(out, Head(rest))
  /\ lost' = (lost \/ ~Fits(out, Len(Head(rest))))
  /\ rest' = Tail(rest)
  /\ want' = [want EXCEPT !.fixed = @ \o Head(rest)]
  /\ UNCHANGED <<start, header, partial, pc, count>>

FieldsWritten(part) == pc = "fields" /\ rest = <<>> /\ want.msg.part = part

(* encode: the end of a message written in one go *)
FinishMessage ==
  /\ FieldsWritten("whole")
  /\ Settle(out)
  /\ pc' = "complete"
  /\ UNCHANGED <<partial, rest, want, lost, count>>

(* The constructor of a partial writer: an empty count, to be patched. *)
BeginPartial(zero) ==
  /\ Settle(Write(out, zero))
  /\ partial' = [segmentsPos |-> out.pos, size |-> 0]
  /\ lost' = (lost \/ ~Fits(out, Len(zero)))
  /\ pc' = "partial"
  /\ UNCHANGED <<rest, want, count>>

BeginPath     == FieldsWritten("path") /\ BeginPartial(U16Bytes(0))
BeginPathData == FieldsWritten("pathdata") /\ BeginPartial(U16Bytes(0))
BeginString   == FieldsWritten("string") /\ BeginPartial(U16Bytes(0))
BeginData     == FieldsWritten("data") /\ BeginPartial(U32Bytes(0))

Call(parts) ==
  /\ pc = "partial"
  /\ want.msg.part \in parts
  /\ count.calls < MaxCalls
  /\ count' = [messages |-> count.messages, calls |-> count.calls + 1]
  /\ UNCHANGED rest

(* PartialPathWriter::segment *)
segment(v) ==
  LET n       == (partial.size + 1) % U16Range
      counted == Patch(out, partial.segmentsPos, U16Bytes(n))
      sized   == Write(counted, U16Bytes(Len(v)))
  IN  /\ Call({"path", "pathdata"})
      /\ partial' = [segmentsPos |-> partial.segmentsPos, size |-> n]
      /\ Settle(Write(sized, v))
      /\ lost' = (lost \/ ~Fits(counted, 2) \/ ~Fits(sized, Len(v)))
      /\ want' = [want EXCEPT !.segs = Append(@, v),
                              !.path = @ \o U16Bytes(Len(v)) \o v]
      /\ UNCHANGED pc

(* PathDataWriter::data *)
pathData(v) ==
  LET sized == Write(out, U32Bytes(Len(v)))
  IN  /\ Call({"pathdata"})
      /\ Settle(Write(sized, v))
      /\ lost' = (lost \/ ~Fits(out, 4) \/ ~Fits(sized, Len(v)))
      /\ want' = [want EXCEPT !.blob = v]
      /\ pc' = "complete"
      /\ UNCHANGED partial

(* PartialStringWriter::string *)
string(v) ==
  LET n     == (partial.size + Len(v)) % U16Range
      wrote == Write(out, v)
  IN  /\ Call({"string"})
      /\ partial' = [segmentsPos |-> partial.segmentsPos, size |-> n]
      /\ Settle(Patch(wrote, partial.segmentsPos, U16Bytes(n)))
      /\ lost' = (lost \/ ~Fits(out, Len(v)))
      /\ want' = [want EXCEPT !.blob = @ \o v]
      /\ UNCHANGED pc

(* A mistake: the stream moves behind the data without a check. *)
SetDataSizeUnchecked(s, n) ==
  LET counted == Write(MoveTo(s, partial.segmentsPos), U32Bytes(n))
  IN  /\ partial' = [segmentsPos |-> partial.segmentsPos, size |-> n]
      /\ Settle([counted EXCEPT !.pos = @ + n])
      /\ UNCHANGED pc

(* The part PartialDataWriter::data and ::update share: n is _dataSize.    *)
(* When advance fails the stream stays right behind the count.             *)
SetDataSize(s, n) ==
  LET counted == Write(MoveTo(s, partial.segmentsPos), U32Bytes(n))
  IN  /\ partial' = [segmentsPos |-> partial.segmentsPos, size |-> n]
      /\ Settle(Advance(counted, n))
      /\ UNCHANGED pc

(* PartialDataWriter::data *)
data(v) ==
  /\ Call({"data"})
  /\ SetDataSize(Write(out, v), (partial.size + Len(v)) % U32Range)
  /\ lost' = (lost \/ ~Fits(out, Len(v)))
  /\ want' = [want EXCEPT !.blob = @ \o v, !.view = <<>>]

(* The caller stores v in PartialDataWriter::viewRemainder().  The view is *)
(* memory: storing does not move the stream.                               *)
FillView(v) ==
  /\ Call({"data"})
  /\ ~lost
  /\ Fits(out, Len(v))
  /\ out' = MoveTo(Write(out, v), out.pos)
  /\ want' = [want EXCEPT !.view = v]
  /\ UNCHANGED <<start, header, partial, pc, lost>>

(* PartialDataWriter::update: the data is what has been written and stored *)
(* so far, cut to n bytes.  A caller asks for no more than that, or for    *)
(* more than the buffer holds (the TODO in the code).                      *)
update(n) ==
  LET given == want.blob \o want.view
  IN  /\ Call({"data"})
      /\ ~lost
      /\ n <= Len(given) \/ n = out.lim
      /\ SetDataSize(out, n)
      /\ lost' = ~(n <= Len(given))
      /\ want' = IF n <= Len(given)
                 THEN [want EXCEPT !.blob = SubSeq(given, 1, n),
                                   !.view = SubSeq(given, n + 1, Len(given))]
                 ELSE want

Next ==
  \/ \E t \in Tags : NewWriter(t)
  \/ ReuseWriter
  \/ pc = "new" /\ \E m \in Messages : StartMessage(m)
  \/ pc = "new" /\ \E m \in Messages, t \in ExplicitTags : messageType(m, t)
  \/ WriteField
  \/ FinishMessage
  \/ BeginPath \/ BeginPathData \/ BeginString \/ BeginData
  \/ \E v \in Pieces :
       segment(v) \/ pathData(v) \/ string(v) \/ data(v) \/ FillView(v)
  \/ \E n \in 0..out.lim : update(n)

Spec == Init /\ [][Next]_vars

-----------------------------------------------------------------------------
(* Properties *)

(* Every variable has its type; the stream never passes its limit and      *)
(* never falls back behind the message under construction, although the    *)
(* partial writers move it back and forth to patch what they wrote.        *)
TypeOK ==
  /\ IsByteWriter(out)
  /\ start \in 0..out.pos
  /\ header \in Headers
  /\ partial \in [segmentsPos : Nat, size : Nat]
  /\ pc \in {"new", "fields", "partial", "complete"}
  /\ rest \in Seq(Seq(Nat))
  /\ lost \in BOOLEAN

(* No call of this writer is under way: what the stream holds from start   *)
(* on is what the caller would send.                                       *)
Settled == pc \in {"partial", "complete"}

Payload(w) ==
  CASE w.msg.part = "whole"    -> w.fixed
    [] w.msg.part = "path"     -> w.fixed \o U16Bytes(Len(w.segs)) \o w.path
    [] w.msg.part = "string"   -> w.fixed \o U16Bytes(Len(w.blob)) \o w.blob
    [] w.msg.part = "data"     -> w.fixed \o U32Bytes(Len(w.blob)) \o w.blob
    [] w.msg.part = "pathdata" ->
         w.fixed \o U16Bytes(Len(w.segs)) \o w.path
         \o IF pc = "complete" THEN U32Bytes(Len(w.blob)) \o w.blob ELSE <<>>

Intended(w) ==
  HeaderBytes([messageSize |-> headerSize + Len(Payload(w)),
               type |-> w.msg.code, tag |-> w.tag])
  \o Payload(w)

(* If nothing was dropped, the bytes of the message are those of the       *)
(* message the caller asked for: all the going back to patch the size and  *)
(* the counts leaves a frame as if its sizes had been known from the start.*)
FrameAsIntended ==
  Settled /\ ~lost => Slice(out, start, out.pos) = Intended(want)

(* The header kept in memory and the header on the wire agree, and both    *)
(* give the number of bytes really written, even after writes were dropped *)
(* or the data was cut short: updateMessageSize, with its early return,    *)
(* never leaves a stale size.                                              *)
HeaderAgrees ==
  Settled /\ out.pos - start >= headerSize =>
    /\ header.messageSize = out.pos - start
    /\ Slice(out, start, start + headerSize) = HeaderBytes(header)

(* A step never changes a byte in front of the message it writes: messages *)
(* already in the buffer survive every patch made for the next one.        *)
EarlierBytesKept ==
  [][\A i \in 0..(start - 1) : out'.mem[i] = out.mem[i]]_vars

(* The tag on the wire is the tag messageType was called with, as the      *)
(* comment of messageType(type, tag) promises.                             *)
TagAsRequested ==
  Settled /\ ~lost => Slice(out, start + 5, start + headerSize) = U16Bytes(want.tag)
=============================================================================
