---------------------------- MODULE StreamDecoder ----------------------------
(***************************************************************************)
(* A program that reads one message after the other from files and shows   *)
(* them: main and readAndPrintMessage of examples/9pdecode.cpp.  One       *)
(* buffer serves for the header and for the payload of every message of    *)
(* every file, so it always holds bytes of what was read before.  Standard *)
(* input, read when no file is named, is a single file that opens.         *)
(*                                                                         *)
(* The report of a message is what VisitRequest and VisitResponse are      *)
(* given, and the name and tag of printHeader; its formatting is not       *)
(* modelled.                                                               *)
(***************************************************************************)
EXTENDS MessageParser, MessageNames

CONSTANTS
  Invocations  \* [ver, max, files]: the options -p and -m, and the files.  A
               \* file is [opens, frames, ends, bytes]: whether it can be opened,
               \* the messages in it, where each of them ends, and the bytes,
               \* which may end too early.  A frame is [bytes, report]: a message
               \* and how it should be shown.

(* The header is read into the buffer without a check of its size.  What   *)
(* -m takes is an int.                                                     *)
ASSUME BufferAssumption ==
  \A v \in Invocations :
    v.max \in Nat /\ v.max >= headerSize /\ headerSize + v.max < U32Range

(* Frame after frame, as far as the file goes *)
IsFile(f) ==
  /\ f.opens \in BOOLEAN
  /\ f.bytes \in Seq(Nat)
  /\ Len(f.frames) \in Nat
  /\ f.ends \in [0..Len(f.frames) -> Nat]
  /\ f.ends[0] = 0
  /\ Len(f.bytes) <= f.ends[Len(f.frames)]
  /\ \A i \in 1..Len(f.frames) :
       LET b == f.frames[i].bytes
       IN  /\ b \in Seq(Nat)
           /\ f.ends[i] = f.ends[i - 1] + Len(b)
           /\ \A k \in 1..Len(b) :
                f.ends[i - 1] + k <= Len(f.bytes) => f.bytes[f.ends[i - 1] + k] = b[k]

ASSUME FilesAssumption ==
  \A v \in Invocations : Len(v.files) \in Nat /\ \A i \in 1..Len(v.files) : IsFile(v.files[i])

(* The parser for messages of this type, and what is shown *)
Parser(v, type) == [ver |-> v.ver, max |-> v.max,
                    dir |-> IF type % 2 = 0 THEN "Request" ELSE "Response"]

Shown(v, h, result) ==
  IF result.err # "none" THEN [err |-> result.err]
  ELSE [err |-> "none", header |-> messageName(v.ver, h.type), tag |-> h.tag,
        dir |-> Parser(v, h.type).dir, name |-> result.name, val |-> result.val]

(* The header of a message tells its size, and the buffer has room for it. *)
IsWellFramed(v, bytes) ==
  LET h == parseMessageHeader(bytes)
  IN  /\ h.err = "none"
      /\ h.messageSize = Len(bytes)
      /\ payloadSize(h) <= v.max

(* How a message should be shown is how it is shown when it is the only    *)
(* one and the buffer holds nothing else.                                  *)
ASSUME ReportsAssumption ==
  \A v \in Invocations : \A i \in 1..Len(v.files) : \A j \in 1..Len(v.files[i].frames) :
    LET b == v.files[i].frames[j].bytes
        h == parseMessageHeader(b)
    IN  IsWellFramed(v, b) =>
          v.files[i].frames[j].report =
            Shown(v, h, parseBody(Parser(v, h.type), h, SubSeq(b, headerSize + 1, Len(b))))

VARIABLES
  call,     \* the invocation
  pc,       \* "open" (the next file), "read" or "exited"
  current,  \* the number of the file
  at,       \* the position in it
  good,     \* input && !input.eof()
  buf,      \* the buffer
  log,      \* what was reported of this file
  exit      \* the exit code

vars == <<call, pc, current, at, good, buf, log, exit>>

File  == call.files[current]
Bytes == File.bytes

-----------------------------------------------------------------------------
(* in.read: as many of n bytes as there are, to the front of the buffer *)

Available    == Len(Bytes) - at
gcount(p, n) == IF p + n <= Len(Bytes) THEN n ELSE Len(Bytes) - p

ReadInto(b, p, n) ==
  [i \in DOMAIN b |-> IF i <= gcount(p, n) THEN Bytes[p + i] ELSE b[i]]

WithHeader == ReadInto(buf, at, headerSize)
Header     == parseMessageHeader(SubSeq(WithHeader, 1, headerSize))
Body       == at + headerSize

(* A mistake: room for the message instead of room for the payload. *)
HasRoomWrong(h) == payloadSize(h) <= call.max + headerSize

HasRoom(h) == payloadSize(h) <= call.max

(* A mistake: what the stream had to give is taken for the payload. *)
PayloadReadUnchecked(h) == TRUE

PayloadRead(h) == gcount(Body, payloadSize(h)) = payloadSize(h)

Report(err) == log' = Append(log, [err |-> err])

Reading == /\ pc = "read" /\ good
           /\ UNCHANGED <<call, pc, current, exit>>

(* A mistake: the state of the stream is not looked at. *)
ReadNothingForever ==
  /\ Reading
  /\ Available = 0
  /\ UNCHANGED <<at, good, buf, log>>

ReadNothing ==
  /\ Reading
  /\ Available = 0
  /\ good' = FALSE
  /\ UNCHANGED <<at, buf, log>>

HeaderCut ==
  /\ Reading
  /\ Available \in 1..(headerSize - 1)
  /\ buf' = WithHeader
  /\ at' = Len(Bytes)
  /\ good' = FALSE
  /\ Report("EOF")

(* The rest of readAndPrintMessage starts with a header in the buffer. *)
Framed == Reading /\ Available >= headerSize

BadHeader ==
  /\ Framed
  /\ Header.err # "none"
  /\ buf' = WithHeader
  /\ at' = Body
  /\ Report(Header.err)
  /\ UNCHANGED good

(* The payload stays in the stream. *)
DataOverflow ==
  /\ Framed
  /\ Header.err = "none"
  /\ ~HasRoom(Header)
  /\ buf' = WithHeader
  /\ at' = Body
  /\ Report("Data overflow")
  /\ UNCHANGED good

PayloadCut ==
  /\ Framed
  /\ Header.err = "none"
  /\ HasRoom(Header)
  /\ ~PayloadRead(Header)
  /\ buf' = ReadInto(WithHeader, Body, payloadSize(Header))
  /\ at' = Len(Bytes)
  /\ good' = FALSE
  /\ Report("unexpected EOF")

ReadMessage ==
  LET b       == ReadInto(WithHeader, Body, payloadSize(Header))
      payload == SubSeq(b, 1, IF payloadSize(Header) <= Len(b) THEN payloadSize(Header) ELSE Len(b))
      result  == parseBody(Parser(call, Header.type), Header, payload)
  IN  /\ Framed
      /\ Header.err = "none"
      /\ HasRoom(Header)
      /\ PayloadRead(Header)
      /\ buf' = b
      /\ at' = Body + gcount(Body, payloadSize(Header))
      /\ log' = Append(log, Shown(call, Header, result))
      /\ UNCHANGED good

-----------------------------------------------------------------------------
(* main *)

OpenFile ==
  /\ pc = "open"
  /\ current <= Len(call.files)
  /\ File.opens
  /\ pc' = "read"
  /\ at' = 0 /\ good' = TRUE /\ log' = << >>
  /\ UNCHANGED <<call, current, buf, exit>>

OpenFails ==
  /\ pc = "open"
  /\ current <= Len(call.files)
  /\ ~File.opens
  /\ pc' = "exited" /\ exit' = "EXIT_FAILURE"
  /\ UNCHANGED <<call, current, at, good, buf, log>>

FileDone ==
  /\ pc = "read"
  /\ ~good
  /\ pc' = "open" /\ current' = current + 1
  /\ UNCHANGED <<call, at, good, buf, log, exit>>

Exit ==
  /\ pc = "open"
  /\ current > Len(call.files)
  /\ pc' = "exited" /\ exit' = "EXIT_SUCCESS"
  /\ UNCHANGED <<call, current, at, good, buf, log>>

Init ==
  /\ call \in Invocations
  /\ pc = "open" /\ current = 1 /\ exit = "none"
  /\ at = 0 /\ good = FALSE /\ log = << >>
  /\ buf = [i \in 1..call.max |-> 0]

Exited == pc = "exited" /\ UNCHANGED vars

Control == OpenFile \/ OpenFails \/ FileDone \/ Exit \/ ReadNothing \/ HeaderCut

Next ==
  \/ Control
  \/ BadHeader \/ DataOverflow \/ PayloadCut \/ ReadMessage
  \/ Exited

(* The program runs as long as it can.  A call that finds a header always  *)
(* moves the stream, which is all ENABLED has to know of the last four.    *)
Consume ==
  /\ pc = "read" /\ good /\ Available >= headerSize
  /\ at' \in Body..Len(Bytes)

Spec == Init /\ [][Next]_vars /\ WF_vars(Control) /\ WF_at(Consume)

-----------------------------------------------------------------------------
(* Properties *)

(* The messages that are in the file to their last byte *)
Whole == {i \in 0..Len(File.frames) : File.ends[i] <= Len(Bytes)}

WellFramed == \A i \in 1..Len(File.frames) : IsWellFramed(call, File.frames[i].bytes)

Reports(n) == [i \in 1..n |-> File.frames[i].report]

(* The messages of a file are reported one by one, in their order, each as *)
(* what it is and under its name.  One the parser does not know or cannot  *)
(* decode costs only itself; one that is cut off by the end of the file is *)
(* an error, never a message completed with bytes the buffer still held;   *)
(* and whatever became of the files before has no effect.                  *)
EveryMessageReported ==
  pc = "read" /\ WellFramed =>
    IF good
    THEN \E n \in Whole : at = File.ends[n] /\ log = Reports(n)
    ELSE \E n \in Whole :
           /\ n + 1 \notin Whole
           /\ IF File.ends[n] = Len(Bytes)
              THEN log = Reports(n)
              ELSE \E err \in {"EOF", "unexpected EOF"} :
                     log = Append(Reports(n), [err |-> err])

(* Whatever the stream holds, a parser is never given a payload of another *)
(* size than the header says, nor one it was created too small for: the    *)
(* buffer, the limit of the reader and maxPayloadSize agree.               *)
SizesAgree ==
  \A i \in DOMAIN log :
    log[i].err \notin {"IllFormedHeader_TooBig", "NotEnoughData", "MoreThenExpectedData"}

(* The program ends, also when it lost its place in a stream. *)
Terminates == <>(pc = "exited")
=============================================================================
