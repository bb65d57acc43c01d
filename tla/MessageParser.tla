---------------------------- MODULE MessageParser ----------------------------
(***************************************************************************)
(* RequestParser and ResponseParser: include/styxe/messageParser.hpp and   *)
(* src/messageParser.cpp.  A parser is [ver, dir, max]: the version it was *)
(* created for, the direction, and the maxPayloadSize it was given.        *)
(***************************************************************************)
EXTENDS Codec

(* getRequestParserTable and getResponseParserTable of each version *)
ParserTable ==
  "9P2000"   :> [Request |-> RequestTable9P, Response |-> ResponseTable9P] @@
  "9P2000.u" :> [Request |-> RequestTableU,  Response |-> ResponseTableU] @@
  "9P2000.e" :> [Request |-> RequestTableE,  Response |-> ResponseTableE] @@
  "9P2000.L" :> [Request |-> RequestTableL,  Response |-> ResponseTableL]

Rejected(err) == [err |-> err, name |-> "", val |-> << >>]

Accepted(name, val) == [err |-> "none", name |-> name, val |-> val]

(* parseMessageHeader: bytes is what the caller has received *)
parseMessageHeader(bytes) ==
  LET size == ReadInt(bytes, 0, "u32")
      type == ReadInt(bytes, size.next, "u8")
      tag  == ReadInt(bytes, type.next, "u16")
  IN  IF ~tag.ok THEN [err |-> "NoData"]
      ELSE IF size.val < headerSize THEN [err |-> "IllFormedHeader_FrameTooShort"]
      ELSE [err |-> "none", messageSize |-> size.val, type |-> type.val, tag |-> tag.val]

payloadSize(header) == header.messageSize - headerSize

(* A mistake: more data than the message has is let through. *)
validateHeaderLax(header, dataAvailible, maxMessageSize) ==
  IF header.messageSize < headerSize THEN "IllFormedHeader_FrameTooShort"
  ELSE IF header.messageSize > maxMessageSize THEN "IllFormedHeader_TooBig"
  ELSE IF payloadSize(header) > dataAvailible THEN "NotEnoughData"
  ELSE "none"

validateHeader(header, dataAvailible, maxMessageSize) ==
  IF header.messageSize < headerSize THEN "IllFormedHeader_FrameTooShort"
  ELSE IF header.messageSize > maxMessageSize THEN "IllFormedHeader_TooBig"
  ELSE IF payloadSize(header) > dataAvailible THEN "NotEnoughData"
  ELSE IF payloadSize(header) < dataAvailible THEN "MoreThenExpectedData"
  ELSE "none"

(* ParserBase::maxMessageSize, a uint32 *)
maxMessageSize(parser) == (headerSize + parser.max) % U32Range

DecodeAs(ver, dir, name, payload) ==
  LET r == DecodeAll(payload, DecLeaves[ver][dir][name])
  IN  IF r.ok THEN Accepted(name, r.val) ELSE Rejected("NoData")

(* RequestParser::parseRequest and ResponseParser::parseResponse *)
parseBody(parser, header, payload) ==
  LET err   == validateHeader(header, Len(payload), maxMessageSize(parser))
      table == ParserTable[parser.ver][parser.dir]
  IN  IF err # "none" THEN Rejected(err)
      ELSE IF header.type \notin DOMAIN table THEN Rejected("UnsupportedMessageType")
      ELSE DecodeAs(parser.ver, parser.dir, table[header.type], payload)

(* parseVersionRequest: what a server reads before it has a parser *)
parseVersionRequest(header, payload, max) ==
  LET err == validateHeader(header, Len(payload), max)
  IN  IF err # "none" THEN Rejected(err)
      ELSE IF header.type # MessageType9P.TVersion THEN Rejected("UnsupportedMessageType")
      ELSE DecodeAs("9P2000", "Request", "Version", payload)
=============================================================================
