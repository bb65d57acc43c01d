------------------------------ MODULE Exchange ------------------------------
(***************************************************************************)
(* A message from the program that writes it to the program that parses    *)
(* it: MessageWriter and MessageParser composed, over the messages of all  *)
(* four protocol versions.                                                 *)
(*                                                                         *)
(* The sender may hand over what it has whenever no call is under way; it  *)
(* has no way to learn that a write was dropped.  The transport delivers   *)
(* the bytes as they are, or one byte short, or with the first byte of     *)
(* whatever comes next.  The receiver may have been created for another    *)
(* version of the protocol or for smaller messages.                        *)
(***************************************************************************)
EXTENDS MessageWriter, MessageParser

CONSTANTS
  Receivers,  \* parsers and deliveries: [ver, dir, max, slip]
  Listeners   \* servers awaiting a Version request: [max, slip]

(* The fields that the calls of a partial writer add to a message *)
Added(part) ==
  CASE part = "whole"    -> << >>
    [] part = "path"     -> Leaf(<<"path">>, "path")
    [] part = "pathdata" -> Leaf(<<"path">>, "path") \o Leaf(<<"data">>, "data")
    [] part = "data"     -> Leaf(<<"data">>, "data")
    [] part = "string"   -> Leaf(<<"ename">>, "str")

(* The fields that the writer is given with the message *)
Written(ver, dir, name, part) ==
  IF part = "whole" THEN EncLeaves[ver][dir][name]
  ELSE Leaves(Struct[ver][dir][name], Partial[ver][dir][name].fields, EncNested)

(* What an operator<< writes is what the operator>> of the same struct     *)
(* reads, field by field, and the parser looks for that struct under the   *)
(* code that messageCodeOf gives it.                                       *)
WholeAgrees(ver, dir, name) ==
  /\ Written(ver, dir, name, "whole") = DecLeaves[ver][dir][name]
  /\ MessageCode[ver][dir][name] \in DOMAIN ParserTable[ver][dir]
  /\ ParserTable[ver][dir][MessageCode[ver][dir][name]] = name

(* So is what a partial writer completes, and it writes no field twice.    *)
PartialAgrees(ver, dir, name, part) ==
  LET leaves == Written(ver, dir, name, part)
  IN  /\ leaves \o Added(part) = DecLeaves[ver][dir][name]
      /\ \A i \in DOMAIN leaves, j \in DOMAIN Added(part) :
           leaves[i].key # Added(part)[j].key

(* The tables of the four versions agree.  Nothing here depends on a       *)
(* constant: evaluating it once is all there is to show.                   *)
ASSUME TablesAgree ==
  /\ \A ver \in Versions, dir \in Directions :
       /\ \A name \in DOMAIN EncOrder[ver][dir] : WholeAgrees(ver, dir, name)
       /\ \A name \in DOMAIN Partial[ver][dir] :
            PartialAgrees(ver, dir, name, Partial[ver][dir][name].part)
  /\ MessageCode["9P2000"]["Request"]["Version"] = MessageType9P.TVersion

(* m is a struct of the library, every field with a value of its type.     *)
IsMessage(m, leaves) ==
  /\ m.ver \in Versions /\ m.dir \in Directions
  /\ m.name \in DOMAIN EncOrder[m.ver][m.dir]
  /\ m.code = MessageCode[m.ver][m.dir][m.name]
  /\ m.part # "whole" => /\ m.name \in DOMAIN Partial[m.ver][m.dir]
                         /\ m.part = Partial[m.ver][m.dir][m.name].part
  /\ HasValues(leaves, m.val)
  /\ m.val = [k \in {leaves[i].key : i \in DOMAIN leaves} |-> m.val[k]]
  /\ m.chunks = EncodeAll(leaves, m.val)

(* Callers write the structs of the library. *)
ASSUME StructsAssumption ==
  \A m \in Messages : IsMessage(m, Written(m.ver, m.dir, m.name, m.part))

ASSUME ReceiversAssumption ==
  /\ \A r \in Receivers : r.max \in Nat /\ r.slip \in Int
  /\ \A r \in Listeners : r.max \in Nat /\ r.slip \in Int

VARIABLE parsed  \* what the receiver made of the message

NotParsed == [by |-> "nobody"]

allVars == <<out, start, header, partial, pc, rest, want, lost, count, parsed>>

(* createRequestParser and createResponseParser: is there such a parser? *)
Supported(ver) == ver \in Versions

(* The bytes a receiver is given: r.slip more, or fewer, than were sent. *)
Delivered(r) == Slice(out, start, out.pos + r.slip)

CanDeliver(r) ==
  /\ Settled
  /\ parsed = NotParsed
  /\ out.pos + r.slip \in start..out.lim
  /\ UNCHANGED vars

(* A receiver reads the header, then gives the rest to its parser. *)
Receive(r) ==
  LET bytes == Delivered(r)
      head  == parseMessageHeader(bytes)
  IN  /\ CanDeliver(r)
      /\ parsed' =
           [by |-> "parser", parser |-> r, largest |-> headerSize + r.max, header |-> head,
            result |->
              IF ~Supported(r.ver) THEN Rejected("UnsupportedProtocolVersion")
              ELSE IF head.err # "none" THEN Rejected(head.err)
              ELSE parseBody(r, head, SubSeq(bytes, headerSize + 1, Len(bytes)))]

(* A server reads the first message of a connection. *)
ReceiveVersion(r) ==
  LET bytes == Delivered(r)
      head  == parseMessageHeader(bytes)
  IN  /\ CanDeliver(r)
      /\ parsed' =
           [by |-> "parseVersionRequest",
            parser |-> [ver |-> "9P2000", dir |-> "Request", max |-> r.max, slip |-> r.slip],
            largest |-> r.max, header |-> head,
            result |->
              IF head.err # "none" THEN Rejected(head.err)
              ELSE parseVersionRequest(head, SubSeq(bytes, headerSize + 1, Len(bytes)), r.max)]

XInit == Init /\ parsed = NotParsed

XNext ==
  \/ Next /\ parsed' = NotParsed
  \/ \E r \in Receivers : Receive(r)
  \/ \E r \in Listeners : ReceiveVersion(r)

XSpec == XInit /\ [][XNext]_allVars

-----------------------------------------------------------------------------
(* Properties *)

Done == parsed # NotParsed
Ok   == parsed.result.err = "none"

(* The caller has given everything there is to give, and nothing was lost. *)
Complete == ~lost /\ (want.msg.part = "pathdata" => pc = "complete")

(* What the caller gave fits the uint16 that counts it. *)
Countable == Len(want.segs) < U16Range
             /\ (want.msg.part = "string" => Len(want.blob) < U16Range)

(* The fields of the message the caller meant. *)
Given ==
  LET val == want.msg.val
  IN  CASE want.msg.part = "whole"    -> val
        [] want.msg.part = "path"     -> With(val, <<"path">>, want.segs)
        [] want.msg.part = "pathdata" -> With(With(val, <<"path">>, want.segs),
                                              <<"data">>, want.blob)
        [] want.msg.part = "data"     -> With(val, <<"data">>, want.blob)
        [] want.msg.part = "string"   -> With(val, <<"ename">>, want.blob)

(* The receiver speaks the sender's version, is given the message as it is, *)
(* and allows messages of that size.                                        *)
Matching ==
  /\ parsed.parser.slip = 0
  /\ parsed.parser.ver = want.msg.ver /\ parsed.parser.dir = want.msg.dir
  /\ parsed.by = "parseVersionRequest" => want.msg.name = "Version"
  /\ out.pos - start <= parsed.largest /\ parsed.largest < U32Range

(* A complete message is accepted by a parser of the same version, as the  *)
(* struct it was written from, with the value every field was given: each  *)
(* operator>> undoes its operator<<, the parser's table and messageCodeOf  *)
(* agree, and what a partial writer patches is where the decoder looks.    *)
RoundTrip ==
  Done /\ Complete /\ Countable /\ Matching =>
    /\ Ok
    /\ parsed.result.name = want.msg.name
    /\ parsed.result.val = Given


(* Whatever any parser accepts was delivered as it was sent, no byte short *)
(* and no byte over, is known by the size, the type and the tag it was     *)
(* sent with, even when writes were dropped on the way into the buffer,    *)
(* and is no larger than the parser allows (which wraps as a uint32): the  *)
(* header that the writer patches behind the caller's back and the checks  *)
(* of validateHeader leave no room for another boundary.                   *)
AcceptedIsWhole ==
  Done /\ Ok =>
    /\ parsed.parser.slip = 0
    /\ parsed.header.messageSize = out.pos - start
    /\ parsed.header.type = want.msg.code
    /\ parsed.header.tag = want.tag
    /\ parsed.header.messageSize <= parsed.largest


(* A parser accepts no message larger than the size given to               *)
(* createRequestParser or createResponseParser, "Maximum size of a message *)
(* in bytes as negotioated with Request::Version" in their comments.       *)
WithinNegotiated ==
  Done /\ parsed.by = "parser" /\ Ok =>
    parsed.header.messageSize <= parsed.parser.max
=============================================================================
