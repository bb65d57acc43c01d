--------------------------- MODULE ExchangeProofs ---------------------------
(***************************************************************************)
(* What a receiver may rely on once a parser has accepted a message, for   *)
(* every Base, every set of messages, buffers and calls, every parser and  *)
(* every delivery: AcceptedIsWhole.  And what a sender may rely on: the    *)
(* parsers of the version accept what it wrote, with every value it gave:  *)
(* RoundTrip.                                                              *)
(*                                                                         *)
(* Writer and parser share nothing but the bytes.  The proof composes what *)
(* is proved of each: the composition is a behaviour of MessageWriter, so  *)
(* the header on the wire is the one in memory and gives the number of     *)
(* bytes written (HeaderInv); parseMessageHeader reads back the numbers    *)
(* that Encoder wrote; and validateHeader accepts one number of bytes only.*)
(*                                                                         *)
(* RoundTrip needs the bytes behind the header as well: they are the       *)
(* payload asked for (FrameInv), which is made of the fields given with    *)
(* the message and of those the partial writers added (AskedInv), in the   *)
(* order in which DecodeAll looks for them (TablesAgree).                  *)
(***************************************************************************)
EXTENDS Exchange, MessageWriterProofs, CodecProofs

LOCAL INSTANCE SequencesExt

(* The tag of a writer is one of those its callers use: a uint16.          *)
TagInv == header.tag \in Tags

SentInv == WriterInv /\ WantOK /\ HeaderInv /\ TagInv

-----------------------------------------------------------------------------
(* The writer in the composition                                           *)

LEMMA TagStep ==
  ASSUME WriterInv, TagInv, [Next]_vars
  PROVE  TagInv'
<1>1. ASSUME NEW s, Settle(s)
      PROVE  header'.tag = header.tag
  BY <1>1, SettleTag DEF WriterInv, TypeOK
<1>2. CASE \E t \in Tags : NewWriter(t)
  BY <1>2 DEF NewWriter, NewHeader, TagInv
<1>3. CASE ReuseWriter \/ WriteField \/ UNCHANGED vars \/ (\E v \in Pieces : FillView(v))
  BY <1>3 DEF ReuseWriter, WriteField, FillView, vars, TagInv
<1>4. CASE \E m \in Messages : StartMessage(m) \/ (\E t \in ExplicitTags : messageType(m, t))
  <2>1. \E m, t : messageType(m, t)
    BY <1>4 DEF StartMessage
  <2>2. header'.tag = header.tag
    BY <2>1 DEF messageType
  <2> QED  BY <2>2 DEF TagInv
<1>5. CASE FinishMessage \/ BeginPath \/ BeginPathData \/ BeginString \/ BeginData
  <2>1. \E s : Settle(s)
    BY <1>5 DEF FinishMessage, BeginPath, BeginPathData, BeginString, BeginData, BeginPartial
  <2> QED  BY <1>1, <2>1 DEF TagInv
<1>6. CASE \E v \in Pieces : segment(v) \/ pathData(v) \/ string(v) \/ data(v)
  <2>1. \E s : Settle(s)
    BY <1>6 DEF segment, pathData, string, data, SetDataSize
  <2> QED  BY <1>1, <2>1 DEF TagInv
<1>7. CASE \E n \in 0..out.lim : update(n)
  <2>1. \E s : Settle(s)
    BY <1>7 DEF update, SetDataSize
  <2> QED  BY <1>1, <2>1 DEF TagInv
<1> QED  BY <1>2, <1>3, <1>4, <1>5, <1>6, <1>7 DEF Next

LEMMA InitSent == XInit => SentInv
<1>1. Init => TagInv
  BY DEF Init, NewHeader, TagInv
<1> QED  BY <1>1, InitLemma, InitWant, InitHeader DEF XInit, SentInv

(* A receiver looks at what was sent and changes nothing of it.            *)
LEMMA SenderStep ==
  ASSUME [XNext]_allVars
  PROVE  [Next]_vars
BY DEF XNext, Receive, ReceiveVersion, CanDeliver, allVars, vars

LEMMA SentStep ==
  ASSUME SentInv, [XNext]_allVars
  PROVE  SentInv'
BY SenderStep, StepLemma, WantStep, HeaderStep, TagStep DEF SentInv

-----------------------------------------------------------------------------
(* A header from the buffer to the receiver                                *)

(* The bytes that a receiver is given                                      *)
LEMMA DeliveredLemma ==
  ASSUME WriterInv, NEW r, r.slip \in Int, out.pos + r.slip \in start..out.lim
  PROVE  /\ Delivered(r) \in Seq(Nat)
         /\ Len(Delivered(r)) = (out.pos + r.slip) - start
         /\ Len(Delivered(r)) \in Nat
         /\ \A i \in 1..Len(Delivered(r)) : Delivered(r)[i] = out.mem[start + i - 1]
<1>1. /\ start \in Nat /\ out.pos \in Nat /\ out.lim \in Nat
      /\ out.mem \in [0..(out.lim - 1) -> Nat]
  BY DEF WriterInv, TypeOK, IsByteWriter
<1> DEFINE n == (out.pos + r.slip) - start
<1>2. n \in Nat /\ start + n <= out.lim
  BY <1>1
<1>3. Delivered(r) = [i \in 1..n |-> out.mem[start + i - 1]]
  BY DEF Delivered, Slice
<1> HIDE DEF n
<1>4. \A i \in 1..n : out.mem[start + i - 1] \in Nat
  BY <1>1, <1>2
<1>5. Delivered(r) \in Seq(Nat) /\ Len(Delivered(r)) = n
  BY <1>2, <1>3, <1>4
<1> QED  BY <1>2, <1>3, <1>5 DEF n

(* A receiver that gets as far as the header gets the one in memory.       *)
LEMMA HeaderDelivered ==
  ASSUME SentInv, Settled, SameTag,
         NEW r, r.slip \in Int, out.pos + r.slip \in start..out.lim,
         7 <= Len(Delivered(r))
  PROVE  /\ parseMessageHeader(Delivered(r)).err = "none"
         /\ parseMessageHeader(Delivered(r)).messageSize = out.pos - start
         /\ parseMessageHeader(Delivered(r)).type = want.msg.code
         /\ parseMessageHeader(Delivered(r)).tag = want.tag
<1> DEFINE d == Delivered(r)
           h == HeaderBytes(header)
<1>1. WriterInv /\ WantOK /\ HeaderInv /\ TagInv
  BY DEF SentInv
<1>2. /\ start \in Nat /\ body = start + 7 /\ body \in Nat /\ out.pos \in Nat
      /\ out.lim \in Nat /\ out.pos <= out.lim /\ header \in Headers
  BY <1>1, HeadersBody
<1>3. /\ d \in Seq(Nat) /\ Len(d) = (out.pos + r.slip) - start
      /\ \A i \in 1..Len(d) : d[i] = out.mem[start + i - 1]
  BY <1>1, DeliveredLemma
<1>4. 7 <= Len(d)
  OBVIOUS
<1>5. HasHeader /\ pc # "new"
  BY <1>2, <1>3, <1>4 DEF HasHeader, Settled
<1>6. /\ Holds(out, start, h) /\ header.messageSize = out.pos - start
      /\ body <= out.pos /\ out.lim < U32Range
  BY <1>1, <1>5 DEF HeaderInv, HeaderOnWire, HeaderInFront, SizeSettled
<1>7. h \in Seq(Nat) /\ Len(h) = 7
  BY <1>2, HeaderBytesLemma
<1>8. \A i \in 1..7 : d[i] = h[i]
  <2>1. \A i \in 1..7 : out.mem[start + i - 1] = h[i]
    BY <1>6, <1>7 DEF Holds
  <2>2. \A i \in 1..7 : d[i] = out.mem[start + i - 1]
    <3>1. Len(d) \in Nat
      BY <1>3
    <3> QED  BY <1>3, <1>4, <3>1
  <2> QED  BY <2>1, <2>2
<1>9. parseMessageHeader(d) = parseMessageHeader(h)
  <2> HIDE DEF d, h
  <2>1. d \in Seq(Nat) /\ h \in Seq(Nat) /\ 7 <= Len(d) /\ 7 <= Len(h)
    BY <1>3, <1>4, <1>7
  <2> QED  BY <1>8, <2>1, SameHeader
<1>10. header.messageSize < U32Range /\ 7 <= header.messageSize
  BY <1>2, <1>6, RangeLemma
<1>11. header.tag < U16Range
  BY <1>1, TagsAssumption DEF TagInv
<1>12. parseMessageHeader(h) = [err |-> "none", messageSize |-> header.messageSize,
                                type |-> header.type, tag |-> header.tag]
  BY <1>2, <1>10, <1>11, HeaderRoundTrip
<1>13. header.type = want.msg.code /\ header.tag = want.tag
  BY <1>1, <1>5 DEF WantOK, SameTag
<1> QED  BY <1>6, <1>9, <1>12, <1>13

LEMMA HeaderReceived ==
  ASSUME SentInv, Settled, SameTag,
         NEW r, r.slip \in Int, out.pos + r.slip \in start..out.lim,
         parseMessageHeader(Delivered(r)).err = "none"
  PROVE  /\ 7 <= Len(Delivered(r))
         /\ parseMessageHeader(Delivered(r)).messageSize = out.pos - start
         /\ parseMessageHeader(Delivered(r)).type = want.msg.code
         /\ parseMessageHeader(Delivered(r)).tag = want.tag
<1>1. Delivered(r) \in Seq(Nat)
  BY DeliveredLemma DEF SentInv
<1>2. 7 <= Len(Delivered(r))
  BY <1>1, HeaderCases
<1> QED  BY <1>2, HeaderDelivered

-----------------------------------------------------------------------------
(* The parser                                                              *)

(* validateHeader passes what has the size the header gives, and no other. *)
LEMMA ValidSize ==
  ASSUME NEW h, h.messageSize \in Nat, NEW n \in Nat, NEW max \in Nat,
         validateHeader(h, n, max) = "none"
  PROVE  h.messageSize = 7 + n /\ h.messageSize <= max
BY HeaderSizeLemma DEF validateHeader, payloadSize

LEMMA RejectedLemma ==
  /\ \A e : Rejected(e).err = e
  /\ Rejected("UnsupportedProtocolVersion").err # "none"
BY DEF Rejected

(* Who accepts has compared the sizes.                                     *)
LEMMA AcceptedSize ==
  ASSUME NEW h, NEW payload, h.messageSize \in Nat, Len(payload) \in Nat,
         NEW r, r.max \in Nat
  PROVE  /\ parseBody(r, h, payload).err = "none" =>
              h.messageSize = 7 + Len(payload) /\ h.messageSize <= headerSize + r.max
         /\ parseVersionRequest(h, payload, r.max).err = "none" =>
              h.messageSize = 7 + Len(payload) /\ h.messageSize <= r.max
<1>1. ASSUME parseBody(r, h, payload).err = "none"
      PROVE  h.messageSize = 7 + Len(payload) /\ h.messageSize <= headerSize + r.max
  <2>1. validateHeader(h, Len(payload), maxMessageSize(r)) = "none"
    BY <1>1, RejectedLemma, Zenon DEF parseBody
  <2>2. maxMessageSize(r) \in Nat /\ maxMessageSize(r) <= headerSize + r.max
    <3>1. \A a \in Nat, n \in Nat \ {0} : a % n \in Nat /\ a % n <= a
      OBVIOUS
    <3>2. U32Range \in Nat \ {0} /\ headerSize + r.max \in Nat
      BY RangeLemma, HeaderSizeLemma
    <3> QED  BY <3>1, <3>2, Zenon DEF maxMessageSize
  <2>3. h.messageSize = 7 + Len(payload) /\ h.messageSize <= maxMessageSize(r)
    BY <2>1, <2>2, ValidSize
  <2>4. headerSize + r.max \in Nat
    BY HeaderSizeLemma
  <2> QED  BY <2>2, <2>3, <2>4
<1>2. ASSUME parseVersionRequest(h, payload, r.max).err = "none"
      PROVE  h.messageSize = 7 + Len(payload) /\ h.messageSize <= r.max
  <2>1. validateHeader(h, Len(payload), r.max) = "none"
    BY <1>2, RejectedLemma, Zenon DEF parseVersionRequest
  <2> QED  BY <2>1, ValidSize
<1> QED  BY <1>1, <1>2

(* Whoever takes the delivered bytes for a message takes all of them.      *)
LEMMA WholeDelivery ==
  ASSUME SentInv, Settled, SameTag,
         NEW r, r.slip \in Int, out.pos + r.slip \in start..out.lim,
         parseMessageHeader(Delivered(r)).err = "none",
         parseMessageHeader(Delivered(r)).messageSize =
           7 + Len(SubSeq(Delivered(r), headerSize + 1, Len(Delivered(r))))
  PROVE  r.slip = 0
<1>1. /\ 7 <= Len(Delivered(r))
      /\ parseMessageHeader(Delivered(r)).messageSize = out.pos - start
  BY HeaderReceived
<1>2. Delivered(r) \in Seq(Nat) /\ Len(Delivered(r)) = (out.pos + r.slip) - start
  BY DeliveredLemma DEF SentInv
<1>3. 7 + Len(SubSeq(Delivered(r), headerSize + 1, Len(Delivered(r)))) = Len(Delivered(r))
  BY <1>1, <1>2, BodySize, HeaderSizeLemma
<1>4. out.pos - start = (out.pos + r.slip) - start
  BY <1>1, <1>2, <1>3, Zenon
<1>5. start \in Nat /\ out.pos \in Nat
  BY HeadersBody DEF SentInv
<1> QED  BY <1>4, <1>5

LEMMA AcceptedStep ==
  ASSUME SentInv, SameTag => AcceptedIsWhole, [XNext]_allVars
  PROVE  (SameTag => AcceptedIsWhole)'
<1>1. CASE Next /\ parsed' = NotParsed
  BY <1>1 DEF AcceptedIsWhole, Done
<1>2. CASE UNCHANGED allVars
  BY <1>2 DEF allVars, AcceptedIsWhole, SameTag, Done, Ok
<1>3. ASSUME NEW r, r.slip \in Int, CanDeliver(r), SameTag', Ok',
             parsed'.parser.slip = r.slip,
             parsed'.header = parseMessageHeader(Delivered(r)),
             parsed'.header.err = "none",
             parsed'.header.messageSize \in Nat =>
               /\ parsed'.header.messageSize =
                    7 + Len(SubSeq(Delivered(r), headerSize + 1, Len(Delivered(r))))
               /\ parsed'.header.messageSize <= parsed'.largest
      PROVE  AcceptedIsWhole'
  <2>1. Settled /\ out.pos + r.slip \in start..out.lim /\ UNCHANGED vars
    BY <1>3 DEF CanDeliver
  <2>2. SameTag /\ out' = out /\ start' = start /\ want' = want
    BY <1>3, <2>1 DEF SameTag, vars
  <2>3. /\ parsed'.header.messageSize = out.pos - start
        /\ parsed'.header.type = want.msg.code
        /\ parsed'.header.tag = want.tag
    BY <1>3, <2>1, <2>2, HeaderReceived
  <2>4. parsed'.header.messageSize \in Nat
    BY <1>3, <2>1, DeliveredLemma, HeaderCases DEF SentInv
  <2>5. r.slip = 0
    BY <1>3, <2>1, <2>2, <2>4, WholeDelivery
  <2> QED  BY <1>3, <2>2, <2>3, <2>4, <2>5 DEF AcceptedIsWhole
<1>4. ASSUME NEW r \in Receivers, Receive(r), SameTag', Ok'
      PROVE  AcceptedIsWhole'
  <2> DEFINE d == Delivered(r)
             k == parseMessageHeader(d)
             p == SubSeq(d, headerSize + 1, Len(d))
  <2>1. r.slip \in Int /\ r.max \in Nat /\ CanDeliver(r)
    BY <1>4, ReceiversAssumption DEF Receive
  <2>2. /\ parsed'.parser = r /\ parsed'.header = k /\ parsed'.largest = headerSize + r.max
        /\ parsed'.result = IF ~Supported(r.ver) THEN Rejected("UnsupportedProtocolVersion")
                            ELSE IF k.err # "none" THEN Rejected(k.err)
                            ELSE parseBody(r, k, p)
    BY <1>4 DEF Receive
  <2> HIDE DEF k, p
  <2>3. k.err = "none" /\ parseBody(r, k, p).err = "none"
    <3>1. parsed'.result.err = "none"
      BY <1>4 DEF Ok
    <3> QED  BY <2>2, <3>1, RejectedLemma, Zenon
  <2>4. Len(p) \in Nat
    <3>1. d \in Seq(Nat) /\ 7 <= Len(d)
      BY <2>1, <2>3, DeliveredLemma, HeaderCases DEF SentInv, CanDeliver, k
    <3> QED  BY <3>1, BodySize, HeaderSizeLemma DEF p
  <2>5. k.messageSize \in Nat =>
          k.messageSize = 7 + Len(p) /\ k.messageSize <= parsed'.largest
    BY <2>1, <2>2, <2>3, <2>4, AcceptedSize
  <2> QED  BY <1>3, <1>4, <2>1, <2>2, <2>3, <2>5 DEF k, p
<1>5. ASSUME NEW r \in Listeners, ReceiveVersion(r), SameTag', Ok'
      PROVE  AcceptedIsWhole'
  <2> DEFINE d == Delivered(r)
             k == parseMessageHeader(d)
             p == SubSeq(d, headerSize + 1, Len(d))
  <2>1. r.slip \in Int /\ r.max \in Nat /\ CanDeliver(r)
    BY <1>5, ReceiversAssumption DEF ReceiveVersion
  <2>2. /\ parsed'.parser.slip = r.slip /\ parsed'.header = k /\ parsed'.largest = r.max
        /\ parsed'.result = IF k.err # "none" THEN Rejected(k.err)
                            ELSE parseVersionRequest(k, p, r.max)
    BY <1>5 DEF ReceiveVersion
  <2> HIDE DEF k, p
  <2>3. k.err = "none" /\ parseVersionRequest(k, p, r.max).err = "none"
    <3>1. parsed'.result.err = "none"
      BY <1>5 DEF Ok
    <3> QED  BY <2>2, <3>1, RejectedLemma, Zenon
  <2>4. Len(p) \in Nat
    <3>1. d \in Seq(Nat) /\ 7 <= Len(d)
      BY <2>1, <2>3, DeliveredLemma, HeaderCases DEF SentInv, CanDeliver, k
    <3> QED  BY <3>1, BodySize, HeaderSizeLemma DEF p
  <2>5. k.messageSize \in Nat =>
          k.messageSize = 7 + Len(p) /\ k.messageSize <= parsed'.largest
    BY <2>1, <2>2, <2>3, <2>4, AcceptedSize
  <2> QED  BY <1>3, <1>5, <2>1, <2>2, <2>3, <2>5 DEF k, p
<1> QED  BY <1>1, <1>2, <1>4, <1>5 DEF XNext, AcceptedIsWhole

(* Whatever a parser accepts, of any version and for any limit, under any  *)
(* delivery, is one message as the writer left it, under its size, type    *)
(* and tag, and within its limit: a short or an overlong delivery never   *)
(* passes, and neither do the bytes of an earlier header, as long as the   *)
(* message has the tag of its writer.                                      *)
THEOREM ExchangeAcceptedIsWhole == XSpec => [](SameTag => AcceptedIsWhole)
<1> DEFINE I == SentInv /\ (SameTag => AcceptedIsWhole)
<1>1. XInit => I
  BY InitSent DEF XInit, AcceptedIsWhole, Done
<1>2. I /\ [XNext]_allVars => I'
  BY SentStep, AcceptedStep
<1>3. I => (SameTag => AcceptedIsWhole)
  OBVIOUS
<1> HIDE DEF I
<1> QED  BY <1>1, <1>2, <1>3, PTL DEF XSpec

-----------------------------------------------------------------------------
(* What the caller gave, and what of it is on the wire                     *)

PathGiven == want.segs \in Seq(Strings) /\ want.path = FlattenSeq(PathWire(want.segs))

FieldsGiven ==
  /\ pc # "new" => want.fixed \o FlattenSeq(rest) = FlattenSeq(want.msg.chunks)
  /\ Settled => rest = <<>>

AskedInv == PathGiven /\ FieldsGiven

LEMMA NoPath == <<>> \in Seq(Strings) /\ FlattenSeq(PathWire(<<>>)) = <<>>
<1>1. PathWire(<<>>) = <<>>
  BY DEF PathWire
<1> QED  BY <1>1, FlattenNothing

(* One more segment                                                        *)
LEMMA PathLonger ==
  ASSUME NEW s \in Seq(Strings), NEW v \in Strings
  PROVE  /\ Append(s, v) \in Seq(Strings)
         /\ FlattenSeq(PathWire(Append(s, v))) = (FlattenSeq(PathWire(s)) \o U16Bytes(Len(v))) \o v
<1> DEFINE n == Len(s)
           t == Append(s, v)
           a == PathWire(s)
           b == PathWire(t)
           e == Sized(v)
           c == a \o <<e>>
<1>1. /\ n \in Nat /\ DOMAIN s = 1..n /\ t \in Seq(Strings) /\ DOMAIN t = 1..(n + 1)
      /\ \A i \in 1..n : t[i] = s[i] /\ s[i] \in Strings
      /\ t[n + 1] = v
  OBVIOUS
<1>2. /\ DOMAIN a = 1..n /\ \A i \in 1..n : a[i] = Sized(s[i])
      /\ DOMAIN b = 1..(n + 1) /\ \A i \in 1..(n + 1) : b[i] = Sized(t[i])
  BY <1>1, Zenon DEF PathWire
<1>3. a = [i \in 1..n |-> a[i]] /\ b = [i \in 1..(n + 1) |-> b[i]]
  BY <1>1, Zenon DEF PathWire
<1> HIDE DEF t, a, b, n
<1>4. e \in Seq(Nat) /\ v \in Seq(Nat) /\ Len(v) \in Nat
  <2>1. e \in Seq(Nat) /\ v \in Seq(Nat)
    BY StringWire
  <2> QED  BY <2>1
<1>5. \A i \in 1..n : a[i] \in Seq(Nat)
  BY <1>1, <1>2, StringWire
<1> HIDE DEF e
<1>6. a \in Seq(Seq(Nat)) /\ Len(a) = n
  <2>1. a \in [1..n -> Seq(Nat)]
    BY <1>3, <1>5
  <2> QED  BY <1>1, <2>1
<1>7. <<e>> \in Seq(Seq(Nat)) /\ Len(<<e>>) = 1 /\ <<e>>[1] = e
  BY <1>4
<1> DEFINE u == <<e>>
<1>8. u \in Seq(Seq(Nat)) /\ Len(u) = 1 /\ u[1] = e /\ c = a \o u
  BY <1>7
<1> HIDE DEF u, c
<1>9. /\ c \in Seq(Seq(Nat)) /\ Len(c) = Len(a) + Len(u)
      /\ \A i \in 1..Len(a) : c[i] = a[i]
      /\ \A i \in 1..Len(u) : c[Len(a) + i] = u[i]
  <2>1. /\ a \o u \in Seq(Seq(Nat)) /\ Len(a \o u) = Len(a) + Len(u)
        /\ \A i \in 1..Len(a) : (a \o u)[i] = a[i]
        /\ \A i \in 1..Len(u) : (a \o u)[Len(a) + i] = u[i]
    <3>1. a \in Seq(Seq(Nat)) /\ u \in Seq(Seq(Nat))
      BY <1>6, <1>8
    <3> QED  BY <3>1, ConcatCells
  <2> QED  BY <1>8, <2>1, Zenon
<1>10. /\ Len(c) = n + 1 /\ c[n + 1] = e /\ \A i \in 1..n : c[i] = a[i]
  BY <1>1, <1>6, <1>8, <1>9
<1>11. \A i \in 1..(n + 1) : c[i] = b[i]
  <2>1. \A i \in 1..(n + 1) : i \in 1..n \/ i = n + 1
    BY <1>1
  <2>2. b[n + 1] = e /\ \A i \in 1..n : b[i] = a[i]
    BY <1>1, <1>2 DEF e
  <2> QED  BY <1>10, <2>1, <2>2
<1>12. c = [i \in 1..Len(c) |-> c[i]]
  BY <1>9
<1>13. c = b
  BY <1>3, <1>10, <1>11, <1>12
<1>14. FlattenSeq(a \o u) = FlattenSeq(a) \o FlattenSeq(u)
  BY <1>6, <1>8, FlattenConcat
<1>15. FlattenSeq(u) = e
  BY <1>4, FlattenOne DEF u
<1>16. FlattenSeq(b) = FlattenSeq(a) \o e
  BY <1>8, <1>13, <1>14, <1>15
<1> DEFINE f == FlattenSeq(a)
           h == U16Bytes(Len(v))
<1>17. f \in Seq(Nat) /\ h \in Seq(Nat) /\ e = h \o v
  <2>1. f \in Seq(Nat)
    BY <1>6, FlattenType
  <2>2. h \in Seq(Nat)
    BY <1>4, U16BytesLemma
  <2>3. e = h \o v
    BY DEF e, Sized, EncodeInt
  <2> QED  BY <2>1, <2>2, <2>3
<1> HIDE DEF f, h
<1>18. (f \o h) \o v = f \o (h \o v)
  BY <1>4, <1>17, ConcatAssoc
<1>19. FlattenSeq(b) = (f \o h) \o v
  BY <1>16, <1>17, <1>18 DEF f
<1> QED  BY <1>1, <1>19 DEF a, b, t, f, h

LEMMA InitAsked == Init => AskedInv
<1> SUFFICES ASSUME Init PROVE AskedInv
  OBVIOUS
<1>1. PICK t \in Tags : pc = "new" /\ want = Nothing(t)
  BY DEF Init
<1>2. want.segs = <<>> /\ want.path = <<>>
  BY <1>1 DEF Nothing
<1> QED  BY <1>1, <1>2, NoPath DEF AskedInv, PathGiven, FieldsGiven, Settled

(* A call that leaves the fields and the path alone                        *)
LEMMA KeepsAsked ==
  ASSUME AskedInv, pc # "new", pc' # "new", rest' = rest,
         Settled \/ rest = <<>>,
         want'.segs = want.segs, want'.path = want.path,
         want'.fixed = want.fixed, want'.msg = want.msg
  PROVE  AskedInv'
BY DEF AskedInv, PathGiven, FieldsGiven

LEMMA StartAsked ==
  ASSUME NEW t, pc' = "new", want' = Nothing(t)
  PROVE  AskedInv'
<1>1. want'.segs = <<>> /\ want'.path = <<>>
  BY DEF Nothing
<1> QED  BY <1>1, NoPath DEF AskedInv, PathGiven, FieldsGiven, Settled

LEMMA EmptyFront ==
  ASSUME NEW a \in Seq(Nat)
  PROVE  <<>> \o a = a /\ a \o <<>> = a
OBVIOUS

LEMMA messageTypeAsked ==
  ASSUME WriterInv, WantOK, AskedInv, NEW m \in Messages, NEW t, messageType(m, t)
  PROVE  AskedInv'
<1>1. /\ pc = "new" /\ pc' = "fields" /\ rest' = m.chunks
      /\ want' = [want EXCEPT !.msg = m, !.tag = t]
  BY DEF messageType
<1>2. want \in Wants /\ want.fixed = <<>>
  BY <1>1 DEF WantOK
<1>3. /\ want'.msg = m /\ want'.segs = want.segs /\ want'.path = want.path
      /\ want'.fixed = <<>>
  BY <1>1, <1>2 DEF Wants
<1>4. FlattenSeq(m.chunks) \in Seq(Nat)
  BY MessagesAssumption, FlattenType
<1>5. <<>> \o FlattenSeq(m.chunks) = FlattenSeq(m.chunks)
  BY <1>4, EmptyFront
<1> QED  BY <1>1, <1>3, <1>5 DEF AskedInv, PathGiven, FieldsGiven, Settled

LEMMA WriteFieldAsked ==
  ASSUME WriterInv, WantOK, AskedInv, WriteField
  PROVE  AskedInv'
<1> DEFINE h == Head(rest)
           t == Tail(rest)
           f == want.fixed
<1>1. /\ pc = "fields" /\ pc' = "fields" /\ rest # <<>> /\ rest' = t
      /\ want' = [want EXCEPT !.fixed = @ \o h]
  BY DEF WriteField
<1>2. want \in Wants /\ f \in Seq(Nat) /\ rest \in Seq(Seq(Nat))
  BY DEF WantOK, Wants, WriterInv, TypeOK
<1>3. /\ want'.msg = want.msg /\ want'.segs = want.segs /\ want'.path = want.path
      /\ want'.fixed = f \o h
  BY <1>1, <1>2 DEF Wants
<1>4. h \in Seq(Nat) /\ t \in Seq(Seq(Nat))
  BY <1>1, <1>2
<1>5. FlattenSeq(rest) = h \o FlattenSeq(t)
  BY <1>1, <1>2, FlattenHead
<1>6. f \o FlattenSeq(rest) = FlattenSeq(want.msg.chunks)
  BY <1>1 DEF AskedInv, FieldsGiven
<1> DEFINE r == FlattenSeq(t)
<1>7. r \in Seq(Nat)
  BY <1>4, FlattenType
<1> HIDE DEF h, t, f, r
<1>8. (f \o h) \o r = f \o (h \o r)
  BY <1>2, <1>4, <1>7, ConcatAssoc
<1>9. (f \o h) \o r = FlattenSeq(want.msg.chunks)
  BY <1>5, <1>6, <1>8 DEF r
<1> QED  BY <1>1, <1>3, <1>9 DEF AskedInv, PathGiven, FieldsGiven, Settled, r

LEMMA segmentAsked ==
  ASSUME WriterInv, WantOK, AskedInv, NEW v \in Pieces, segment(v)
  PROVE  AskedInv'
<1>1. /\ pc = "partial" /\ pc' = "partial" /\ rest' = rest
      /\ want' = [want EXCEPT !.segs = Append(@, v), !.path = @ \o U16Bytes(Len(v)) \o v]
  BY DEF segment, Call
<1>2. want \in Wants
  BY DEF WantOK
<1>3. /\ want'.msg = want.msg /\ want'.fixed = want.fixed
      /\ want'.segs = Append(want.segs, v)
      /\ want'.path = want.path \o U16Bytes(Len(v)) \o v
  BY <1>1, <1>2 DEF Wants
<1>4. v \in Strings
  BY InputsAssumption DEF Strings
<1>5. PathGiven'
  <2> DEFINE s == want.segs
  <2>1. s \in Seq(Strings) /\ want.path = FlattenSeq(PathWire(s))
    BY DEF AskedInv, PathGiven
  <2>2. /\ Append(s, v) \in Seq(Strings)
        /\ FlattenSeq(PathWire(Append(s, v))) = (FlattenSeq(PathWire(s)) \o U16Bytes(Len(v))) \o v
    BY <1>4, <2>1, PathLonger
  <2> QED  BY <1>3, <2>1, <2>2 DEF PathGiven
<1> QED  BY <1>1, <1>3, <1>5 DEF AskedInv, FieldsGiven, Settled

LEMMA AskedStep ==
  ASSUME WriterInv, WantOK, AskedInv, [Next]_vars
  PROVE  AskedInv'
<1>0. want \in Wants
  BY DEF WantOK
<1>1. ASSUME NEW t \in Tags, NewWriter(t)  PROVE AskedInv'
  BY <1>1, StartAsked DEF NewWriter
<1>2. CASE ReuseWriter
  BY <1>2, StartAsked DEF ReuseWriter
<1>3. ASSUME NEW m \in Messages, StartMessage(m)  PROVE AskedInv'
  BY <1>3, messageTypeAsked DEF StartMessage
<1>4. ASSUME NEW m \in Messages, NEW t \in ExplicitTags, messageType(m, t)
      PROVE  AskedInv'
  BY <1>4, messageTypeAsked
<1>5. CASE WriteField
  BY <1>5, WriteFieldAsked
<1>6. CASE FinishMessage \/ BeginPath \/ BeginPathData \/ BeginString \/ BeginData
  <2>1. pc = "fields" /\ rest = <<>> /\ rest' = rest /\ want' = want /\ pc' \in {"partial", "complete"}
    BY <1>6 DEF FinishMessage, BeginPath, BeginPathData, BeginString, BeginData, BeginPartial, FieldsWritten
  <2> QED  BY <2>1, KeepsAsked
<1>7. ASSUME NEW v \in Pieces, segment(v)  PROVE AskedInv'
  BY <1>7, segmentAsked
<1>8. ASSUME NEW v \in Pieces, pathData(v) \/ string(v) \/ data(v) \/ FillView(v)  PROVE AskedInv'
  <2>1. pc = "partial" /\ pc' \in {"partial", "complete"} /\ rest' = rest
    BY <1>8 DEF pathData, string, data, FillView, Call, SetDataSize
  <2>2. \/ \E b : want' = [want EXCEPT !.blob = b]
        \/ \E b, w : want' = [want EXCEPT !.blob = b, !.view = w]
        \/ \E w : want' = [want EXCEPT !.view = w]
    BY <1>8 DEF pathData, string, data, FillView
  <2>3. want'.segs = want.segs /\ want'.path = want.path /\ want'.fixed = want.fixed /\ want'.msg = want.msg
    BY <1>0, <2>2 DEF Wants
  <2> QED  BY <2>1, <2>3, KeepsAsked DEF Settled
<1>9. ASSUME NEW n \in 0..out.lim, update(n)  PROVE AskedInv'
  <2>1. pc = "partial" /\ pc' = "partial" /\ rest' = rest
    BY <1>9 DEF update, Call, SetDataSize
  <2>2. want' = want \/ \E b, w : want' = [want EXCEPT !.blob = b, !.view = w]
    BY <1>9 DEF update
  <2>3. want'.segs = want.segs /\ want'.path = want.path /\ want'.fixed = want.fixed /\ want'.msg = want.msg
    BY <1>0, <2>2 DEF Wants
  <2> QED  BY <2>1, <2>3, KeepsAsked DEF Settled
<1>10. CASE UNCHANGED vars
  BY <1>10 DEF vars, AskedInv, PathGiven, FieldsGiven, Settled
<1> QED
  BY <1>1, <1>2, <1>3, <1>4, <1>5, <1>6, <1>7, <1>8, <1>9, <1>10 DEF Next

-----------------------------------------------------------------------------
(* The message that the caller meant is on the wire.                       *)

(* No field of one is a field of the other.                                *)
Apart(a, b) == \A i \in DOMAIN a, j \in DOMAIN b : a[i].key # b[j].key

LEMMA MessageGiven ==
  ASSUME NEW m \in Messages, NEW a, a = Written(m.ver, m.dir, m.name, m.part)
  PROVE  /\ m.ver \in Versions /\ m.dir \in Directions
         /\ IsStruct(a, m.val) /\ m.chunks = EncodeAll(a, m.val)
         /\ a \o Added(m.part) = DecLeaves[m.ver][m.dir][m.name]
         /\ Apart(a, Added(m.part))
         /\ m.code \in DOMAIN ParserTable[m.ver][m.dir]
         /\ ParserTable[m.ver][m.dir][m.code] = m.name
         /\ m.ver = "9P2000" /\ m.dir = "Request" /\ m.name = "Version" => m.code = MessageType9P.TVersion
<1>1. /\ m.ver \in Versions /\ m.dir \in Directions
      /\ m.name \in DOMAIN EncOrder[m.ver][m.dir]
      /\ m.code = MessageCode[m.ver][m.dir][m.name]
      /\ m.part # "whole" => /\ m.name \in DOMAIN Partial[m.ver][m.dir]
                             /\ m.part = Partial[m.ver][m.dir][m.name].part
      /\ HasValues(a, m.val)
      /\ m.val = [k \in {a[i].key : i \in DOMAIN a} |-> m.val[k]]
      /\ m.chunks = EncodeAll(a, m.val)
  <2>1. IsMessage(m, a)
    BY StructsAssumption
  <2> QED  BY <2>1, Zenon DEF IsMessage
<1>2. IsStruct(a, m.val)
  <2>1. DOMAIN a = 1..Len(a)
    BY <1>1, HasValuesLemma
  <2>2. Keys(a, Len(a)) = {a[i].key : i \in DOMAIN a}
    BY <2>1, Zenon DEF Keys
  <2> QED  BY <1>1, <2>2, Zenon DEF IsStruct
<1>3. /\ m.code \in DOMAIN ParserTable[m.ver][m.dir]
      /\ ParserTable[m.ver][m.dir][m.code] = m.name
      /\ Written(m.ver, m.dir, m.name, "whole") = DecLeaves[m.ver][m.dir][m.name]
  <2>1. WholeAgrees(m.ver, m.dir, m.name)
    BY <1>1, TablesAgree, Zenon
  <2> QED  BY <1>1, <2>1, Zenon DEF WholeAgrees
<1>4. /\ a \o Added(m.part) = DecLeaves[m.ver][m.dir][m.name]
      /\ Apart(a, Added(m.part))
  <2>1. CASE m.part = "whole"
    <3>1. Added(m.part) = << >>
      BY <2>1 DEF Added
    <3>2. a \in Seq([key : DOMAIN m.val, kind : Kinds])
      BY <1>1 DEF HasValues
    <3>3. a \o << >> = a
      BY <3>2
    <3>4. a = DecLeaves[m.ver][m.dir][m.name]
      BY <1>3, <2>1, Zenon
    <3>5. DOMAIN << >> = {}
      OBVIOUS
    <3>6. Apart(a, << >>)
      BY <3>5, Zenon DEF Apart
    <3> QED  BY <3>1, <3>3, <3>4, <3>6, Zenon
  <2>2. CASE m.part # "whole"
    <3>1. PartialAgrees(m.ver, m.dir, m.name, m.part)
      BY <1>1, <2>2, TablesAgree, Zenon
    <3> QED  BY <3>1, Zenon DEF PartialAgrees, Apart
  <2> QED  BY <2>1, <2>2
<1>5. m.ver = "9P2000" /\ m.dir = "Request" /\ m.name = "Version" => m.code = MessageType9P.TVersion
  BY <1>1, TablesAgree, Zenon
<1> QED  BY <1>1, <1>2, <1>3, <1>4, <1>5, Zenon

(* Numbers of bytes that are in the buffer                                 *)
LEMMA SmallPayload ==
  ASSUME WriterInv, WantOK, HeaderInv, FrameInv, Settled, ~lost
  PROVE  /\ Payload(want) \in Seq(Nat) /\ Holds(out, body, Payload(want))
         /\ out.pos = body + Len(Payload(want))
         /\ Len(Payload(want)) \in Nat /\ Len(Payload(want)) < U32Range
<1>1. want \in Wants /\ want.msg \in Messages
  BY DEF WantOK, Settled
<1>2. Payload(want) \in Seq(Nat)
  BY <1>1, PayloadType
<1>3. Holds(out, body, Payload(want)) /\ out.pos = body + Len(Payload(want))
  BY DEF FrameInv, InPlace, PayloadInPlace
<1> DEFINE n == Len(Payload(want))
<1>4. n \in Nat /\ body + n <= out.lim
  BY <1>2, <1>3 DEF Holds
<1>5. body \in Nat /\ out.lim \in Nat /\ out.lim < U32Range /\ U32Range \in Nat
  BY HeadersBody, RangeLemma DEF HeaderInv
<1> HIDE DEF n
<1>6. n < U32Range
  BY <1>4, <1>5
<1> QED  BY <1>2, <1>3, <1>4, <1>6 DEF n

LEMMA LongerThanTail ==
  ASSUME NEW a \in Seq(Nat), NEW b \in Seq(Nat), NEW n \in Nat, Len(a \o b) < n
  PROVE  Len(b) < n
<1>1. Len(a \o b) = Len(a) + Len(b) /\ Len(a) \in Nat /\ Len(b) \in Nat
  OBVIOUS
<1> QED  BY <1>1

LEMMA Names ==
  /\ <<"path">> # <<"data">>
  /\ "path" \in Kinds /\ "data" \in Kinds /\ "str" \in Kinds
<1>1. <<"path">>[1] = "path" /\ <<"data">>[1] = "data" /\ "path" # "data"
  OBVIOUS
<1>2. "path" \in Kinds /\ "data" \in Kinds /\ "str" \in Kinds
  BY DEF Kinds
<1> QED  BY <1>1, <1>2

LEMMA LeafCell ==
  ASSUME NEW key, NEW kind
  PROVE  DOMAIN Leaf(key, kind) = {1} /\ Leaf(key, kind)[1].key = key
BY DEF Leaf

LEMMA OneAdded ==
  ASSUME NEW a, NEW val, NEW key, NEW kind, NEW v, NEW f, NEW c, NEW b,
         IsWritten(a, val, f), kind \in Kinds, IsValue(kind, v), Fresh(a, key),
         f \in Seq(Nat), c \in Seq(Nat), b \in Seq(Nat), Wire(kind, v) = c \o b
  PROVE  IsWritten(a \o Leaf(key, kind), With(val, key, v), (f \o c) \o b)
<1>1. IsWritten(a \o Leaf(key, kind), With(val, key, v), f \o Wire(kind, v))
  BY Extended
<1>2. (f \o c) \o b = f \o (c \o b)
  BY ConcatAssoc
<1> QED  BY <1>1, <1>2, Zenon

(* Two of them, a path and data                                            *)
LEMMA KeysApart ==
  ASSUME NEW L, NEW a \in Seq(L), NEW key, NEW kind, Leaf(key, kind) \in Seq(L), NEW k, k # key,
         \A i \in DOMAIN a : a[i].key # k
  PROVE  \A i \in DOMAIN (a \o Leaf(key, kind)) : (a \o Leaf(key, kind))[i].key # k
<1> DEFINE l == Leaf(key, kind)
           b == a \o l
           n == Len(a)
<1>1. l \in Seq(L) /\ Len(l) = 1 /\ l[1].key = key
  BY DEF Leaf
<1> HIDE DEF l
<1>2. /\ b \in Seq(L) /\ Len(b) = Len(a) + Len(l)
      /\ \A i \in 1..Len(a) : b[i] = a[i]
      /\ \A i \in 1..Len(l) : b[Len(a) + i] = l[i]
  BY <1>1, ConcatCells
<1> HIDE DEF b
<1>3. n \in Nat /\ DOMAIN a = 1..n /\ DOMAIN b = 1..(n + 1) /\ b[n + 1] = l[1]
  BY <1>1, <1>2
<1>4. \A i \in 1..(n + 1) : i \in 1..n \/ i = n + 1
  BY <1>3
<1> HIDE DEF n
<1>5. \A i \in 1..(n + 1) : b[i].key # k
  BY <1>1, <1>2, <1>3, <1>4 DEF n
<1> QED  BY <1>3, <1>5 DEF b, l

(* The message of the caller: the fields it was given with, and its type   *)
LEMMA FieldsOnWire ==
  ASSUME WriterInv, WantOK, AskedInv, Settled,
         NEW m, m = want.msg, NEW a, a = Written(m.ver, m.dir, m.name, m.part)
  PROVE  /\ m \in Messages /\ want \in Wants
         /\ IsWritten(a, m.val, want.fixed) /\ want.fixed \in Seq(Nat)
<1>1. want \in Wants /\ m \in Messages /\ pc # "new"
  BY DEF WantOK, Settled
<1>2. want.fixed \in Seq(Nat)
  BY <1>1 DEF Wants
<1>3. want.fixed \o FlattenSeq(rest) = FlattenSeq(m.chunks) /\ rest = <<>>
  BY <1>1 DEF AskedInv, FieldsGiven
<1>4. want.fixed \o <<>> = want.fixed
  BY <1>2, EmptyFront
<1>5. FlattenSeq(rest) = <<>>
  BY <1>3, FlattenNothing, Zenon
<1>6. want.fixed = FlattenSeq(m.chunks)
  BY <1>3, <1>4, <1>5, Zenon
<1>7. IsStruct(a, m.val) /\ m.chunks = EncodeAll(a, m.val)
  BY <1>1, MessageGiven
<1> QED  BY <1>1, <1>2, <1>6, <1>7, Zenon DEF IsWritten

LEMMA AddedParts ==
  /\ Added("whole") = << >>
  /\ Added("path") = Leaf(<<"path">>, "path")
  /\ Added("pathdata") = Leaf(<<"path">>, "path") \o Leaf(<<"data">>, "data")
  /\ Added("data") = Leaf(<<"data">>, "data")
  /\ Added("string") = Leaf(<<"ename">>, "str")
BY DEF Added

LEMMA FreshBefore ==
  ASSUME NEW a, NEW key, NEW kind,
         Apart(a, Leaf(key, kind))
  PROVE  Fresh(a, key)
BY LeafCell DEF Fresh, Apart

(* Two fields that calls add: a path, then data                            *)
LEMMA FreshBeforeTwo ==
  ASSUME NEW a, NEW x, NEW c, NEW y, NEW d,
         Apart(a, Leaf(x, c) \o Leaf(y, d))
  PROVE  Fresh(a, x) /\ Fresh(a, y)
<1> DEFINE p == Leaf(x, c)
           q == Leaf(y, d)
           l == p \o q
           L == [key : {x, y}, kind : {c, d}]
<1>1. l = p \o q
  OBVIOUS
<1>2. DOMAIN l = {1, 2} /\ l[1].key = x /\ l[2].key = y
  <2>1. /\ p \in Seq(L) /\ Len(p) = 1 /\ p[1].key = x
        /\ q \in Seq(L) /\ Len(q) = 1 /\ q[1].key = y
    BY DEF Leaf
  <2> HIDE DEF p, q, L
  <2>2. /\ l \in Seq(L) /\ Len(l) = Len(p) + Len(q)
        /\ \A i \in 1..Len(p) : l[i] = p[i]
        /\ \A i \in 1..Len(q) : l[Len(p) + i] = q[i]
    BY <1>1, <2>1, ConcatCells
  <2> HIDE DEF l
  <2>3. Len(l) = 2 /\ l[1] = p[1] /\ l[2] = q[1]
    BY <2>1, <2>2
  <2>4. DOMAIN l = 1..Len(l)
    BY <2>2
  <2> QED  BY <2>1, <2>3, <2>4
<1>3. \A i \in DOMAIN a, j \in DOMAIN l : a[i].key # l[j].key
  BY Zenon DEF Apart
<1> HIDE DEF l
<1> QED  BY <1>2, <1>3 DEF Fresh

LEMMA TwoAdded ==
  ASSUME NEW a, NEW val, NEW f, NEW x, NEW c, NEW y, NEW d,
         IsWritten(a, val, f), c \in Kinds, d \in Kinds, x # y, Fresh(a, x), Fresh(a, y)
  PROVE  /\ Fresh(a \o Leaf(x, c), y)
         /\ (a \o Leaf(x, c)) \o Leaf(y, d) = a \o (Leaf(x, c) \o Leaf(y, d))
<1> DEFINE L == [key : DOMAIN val \cup {x, y}, kind : Kinds]
           p == Leaf(x, c)
           q == Leaf(y, d)
<1>1. a \in Seq([key : DOMAIN val, kind : Kinds])
  BY DEF IsWritten, IsStruct, HasValues
<1>2. [key : DOMAIN val, kind : Kinds] \subseteq L
  OBVIOUS
<1>3. p \in Seq(L) /\ q \in Seq(L)
  BY DEF Leaf
<1> HIDE DEF L
<1>4. a \in Seq(L)
  BY <1>1, <1>2, LargerSet
<1>5. \A i \in DOMAIN a : a[i].key # y
  BY DEF Fresh
<1>6. \A i \in DOMAIN (a \o p) : (a \o p)[i].key # y
  BY <1>3, <1>4, <1>5, KeysApart
<1> HIDE DEF p, q
<1>7. (a \o p) \o q = a \o (p \o q)
  BY <1>3, <1>4, ConcatAssoc
<1> QED  BY <1>6, <1>7 DEF Fresh, p, q

(* The fields the parser of this message reads                             *)
Expected(m) == DecLeaves[m.ver][m.dir][m.name]

LEMMA FieldsExpected ==
  ASSUME WriterInv, WantOK, AskedInv, Settled
  PROVE  \E a : /\ IsWritten(a, want.msg.val, want.fixed) /\ want.fixed \in Seq(Nat)
               /\ a \o Added(want.msg.part) = Expected(want.msg)
               /\ Apart(a, Added(want.msg.part))
<1> DEFINE m == want.msg
           a == Written(m.ver, m.dir, m.name, m.part)
<1>1. m \in Messages /\ IsWritten(a, m.val, want.fixed) /\ want.fixed \in Seq(Nat)
  BY FieldsOnWire
<1>2. a \o Added(m.part) = DecLeaves[m.ver][m.dir][m.name]
  BY <1>1, MessageGiven
<1>3. Apart(a, Added(m.part))
  BY <1>1, MessageGiven
<1>4. a \o Added(m.part) = Expected(m) /\ Apart(a, Added(m.part))
  BY <1>2, <1>3, Zenon DEF Expected
<1> HIDE DEF a
<1> QED  BY <1>1, <1>4, Zenon

LEMMA PayloadCases ==
  /\ want.msg.part = "whole" => Payload(want) = want.fixed /\ Given = want.msg.val
  /\ want.msg.part = "path" =>
       /\ Payload(want) = (want.fixed \o U16Bytes(Len(want.segs))) \o want.path
       /\ Given = With(want.msg.val, <<"path">>, want.segs)
  /\ want.msg.part = "string" =>
       /\ Payload(want) = (want.fixed \o U16Bytes(Len(want.blob))) \o want.blob
       /\ Given = With(want.msg.val, <<"ename">>, want.blob)
  /\ want.msg.part = "data" =>
       /\ Payload(want) = (want.fixed \o U32Bytes(Len(want.blob))) \o want.blob
       /\ Given = With(want.msg.val, <<"data">>, want.blob)
  /\ want.msg.part = "pathdata" /\ pc = "complete" =>
       /\ Payload(want) = ((want.fixed \o U16Bytes(Len(want.segs))) \o want.path)
                            \o (U32Bytes(Len(want.blob)) \o want.blob)
       /\ Given = With(With(want.msg.val, <<"path">>, want.segs), <<"data">>, want.blob)
<1>1. want.msg.part = "whole" => Payload(want) = want.fixed /\ Given = want.msg.val
  BY Zenon DEF Payload, Given
<1>2. want.msg.part = "path" =>
       /\ Payload(want) = (want.fixed \o U16Bytes(Len(want.segs))) \o want.path
       /\ Given = With(want.msg.val, <<"path">>, want.segs)
  BY Zenon DEF Payload, Given
<1>3. want.msg.part = "string" =>
       /\ Payload(want) = (want.fixed \o U16Bytes(Len(want.blob))) \o want.blob
       /\ Given = With(want.msg.val, <<"ename">>, want.blob)
  BY Zenon DEF Payload, Given
<1>4. want.msg.part = "data" =>
       /\ Payload(want) = (want.fixed \o U32Bytes(Len(want.blob))) \o want.blob
       /\ Given = With(want.msg.val, <<"data">>, want.blob)
  BY Zenon DEF Payload, Given
<1>5. want.msg.part = "pathdata" /\ pc = "complete" =>
       /\ Payload(want) = ((want.fixed \o U16Bytes(Len(want.segs))) \o want.path)
                            \o (U32Bytes(Len(want.blob)) \o want.blob)
       /\ Given = With(With(want.msg.val, <<"path">>, want.segs), <<"data">>, want.blob)
  BY Zenon DEF Payload, Given
<1> QED  BY <1>1, <1>2, <1>3, <1>4, <1>5, Zenon

(* The parts that calls give, as values and as bytes                       *)
LEMMA PathAsked ==
  ASSUME want \in Wants, AskedInv, Countable
  PROVE  /\ IsValue("path", want.segs) /\ want.path \in Seq(Nat)
         /\ U16Bytes(Len(want.segs)) \in Seq(Nat)
         /\ Wire("path", want.segs) = U16Bytes(Len(want.segs)) \o want.path
<1>1. /\ want.segs \in Seq(Strings) /\ want.path = FlattenSeq(PathWire(want.segs))
      /\ Len(want.segs) < U16Range /\ Len(want.segs) \in Nat /\ want.path \in Seq(Nat)
  BY DEF AskedInv, PathGiven, Countable, Wants
<1>2. IsValue("path", want.segs)
  BY <1>1 DEF IsValue
<1>3. U16Bytes(Len(want.segs)) \in Seq(Nat)
  BY <1>1, U16BytesLemma
<1> QED  BY <1>1, <1>2, <1>3, PathWireLemma

LEMMA StringAsked ==
  ASSUME want \in Wants, Countable, want.msg.part = "string"
  PROVE  /\ IsValue("str", want.blob) /\ want.blob \in Seq(Nat)
         /\ U16Bytes(Len(want.blob)) \in Seq(Nat)
         /\ Wire("str", want.blob) = U16Bytes(Len(want.blob)) \o want.blob
<1>1. want.blob \in Seq(Nat) /\ Len(want.blob) < U16Range /\ Len(want.blob) \in Nat
  BY DEF Countable, Wants
<1>2. IsValue("str", want.blob)
  BY <1>1 DEF IsValue, Strings
<1>3. U16Bytes(Len(want.blob)) \in Seq(Nat)
  BY <1>1, U16BytesLemma
<1> QED  BY <1>1, <1>2, <1>3, StrWire

LEMMA DataAsked ==
  ASSUME want \in Wants, Len(want.blob) < U32Range
  PROVE  /\ IsValue("data", want.blob) /\ want.blob \in Seq(Nat)
         /\ U32Bytes(Len(want.blob)) \in Seq(Nat)
         /\ Wire("data", want.blob) = U32Bytes(Len(want.blob)) \o want.blob
<1>1. want.blob \in Seq(Nat) /\ Len(want.blob) \in Nat
  BY DEF Wants
<1>2. IsValue("data", want.blob)
  BY <1>1 DEF IsValue
<1>3. U32Bytes(Len(want.blob)) \in Seq(Nat)
  BY <1>1, U32BytesLemma
<1> QED  BY <1>1, <1>2, <1>3, DataWire

(* A message with one part that calls give                                 *)
LEMMA OnePartGiven ==
  ASSUME WriterInv, WantOK, AskedInv, Settled, NEW key, NEW kind, NEW v, NEW c, NEW b,
         Added(want.msg.part) = Leaf(key, kind), kind \in Kinds, IsValue(kind, v),
         c \in Seq(Nat), b \in Seq(Nat), Wire(kind, v) = c \o b
  PROVE  IsWritten(Expected(want.msg), With(want.msg.val, key, v), (want.fixed \o c) \o b)
<1> DEFINE m   == want.msg
           val == m.val
           f   == want.fixed
<1>1. PICK a : /\ IsWritten(a, val, f) /\ f \in Seq(Nat)
               /\ a \o Leaf(key, kind) = Expected(m) /\ Apart(a, Leaf(key, kind))
  BY FieldsExpected, Zenon
<1>2. Fresh(a, key)
  BY <1>1, FreshBefore
<1> HIDE DEF val, f
<1>3. IsWritten(a \o Leaf(key, kind), With(val, key, v), (f \o c) \o b)
  BY <1>1, <1>2, OneAdded
<1> QED  BY <1>1, <1>3, Zenon DEF val, f

LEMMA WholeGiven ==
  ASSUME WriterInv, WantOK, AskedInv, Settled, want.msg.part = "whole"
  PROVE  IsWritten(Expected(want.msg), Given, Payload(want))
<1>1. PICK a : /\ IsWritten(a, want.msg.val, want.fixed)
               /\ a \o << >> = Expected(want.msg)
  BY FieldsExpected, AddedParts, Zenon
<1>2. a \o << >> = a
  <2>1. a \in Seq([key : DOMAIN want.msg.val, kind : Kinds])
    BY <1>1 DEF IsWritten, IsStruct, HasValues
  <2> QED  BY <2>1
<1> QED  BY <1>1, <1>2, PayloadCases, Zenon

LEMMA PathsGiven ==
  ASSUME WriterInv, WantOK, AskedInv, Settled, Countable, want.msg.part = "path"
  PROVE  IsWritten(Expected(want.msg), Given, Payload(want))
<1> DEFINE key  == <<"path">>
           kind == "path"
           v == want.segs
           c == U16Bytes(Len(v))
           b == want.path
<1>1. Added(want.msg.part) = Leaf(key, kind) /\ kind \in Kinds
  BY AddedParts, Names, Zenon
<1>2. want \in Wants
  BY DEF WantOK
<1>3. IsValue(kind, v) /\ b \in Seq(Nat) /\ c \in Seq(Nat) /\ Wire(kind, v) = c \o b
  BY <1>2, PathAsked
<1>4. Payload(want) = (want.fixed \o c) \o b /\ Given = With(want.msg.val, key, v)
  BY PayloadCases, Zenon
<1> HIDE DEF key, kind, v, c, b
<1>5. IsWritten(Expected(want.msg), With(want.msg.val, key, v), (want.fixed \o c) \o b)
  BY <1>1, <1>3, OnePartGiven
<1> QED  BY <1>4, <1>5, Zenon

LEMMA StringsGiven ==
  ASSUME WriterInv, WantOK, AskedInv, Settled, Countable, want.msg.part = "string"
  PROVE  IsWritten(Expected(want.msg), Given, Payload(want))
<1> DEFINE key  == <<"ename">>
           kind == "str"
           v == want.blob
           c == U16Bytes(Len(v))
<1>1. Added(want.msg.part) = Leaf(key, kind) /\ kind \in Kinds
  BY AddedParts, Names, Zenon
<1>2. want \in Wants
  BY DEF WantOK
<1>3. IsValue(kind, v) /\ v \in Seq(Nat) /\ c \in Seq(Nat) /\ Wire(kind, v) = c \o v
  BY <1>2, StringAsked
<1>4. Payload(want) = (want.fixed \o c) \o v /\ Given = With(want.msg.val, key, v)
  BY PayloadCases, Zenon
<1> HIDE DEF key, kind, v, c
<1>5. IsWritten(Expected(want.msg), With(want.msg.val, key, v), (want.fixed \o c) \o v)
  BY <1>1, <1>3, OnePartGiven
<1> QED  BY <1>4, <1>5, Zenon

LEMMA DataGiven ==
  ASSUME WriterInv, WantOK, AskedInv, Settled, Len(want.blob) < U32Range, want.msg.part = "data"
  PROVE  IsWritten(Expected(want.msg), Given, Payload(want))
<1> DEFINE key  == <<"data">>
           kind == "data"
           v == want.blob
           c == U32Bytes(Len(v))
<1>1. Added(want.msg.part) = Leaf(key, kind) /\ kind \in Kinds
  BY AddedParts, Names, Zenon
<1>2. want \in Wants
  BY DEF WantOK
<1>3. IsValue(kind, v) /\ v \in Seq(Nat) /\ c \in Seq(Nat) /\ Wire(kind, v) = c \o v
  BY <1>2, DataAsked
<1>4. Payload(want) = (want.fixed \o c) \o v /\ Given = With(want.msg.val, key, v)
  BY PayloadCases, Zenon
<1> HIDE DEF key, kind, v, c
<1>5. IsWritten(Expected(want.msg), With(want.msg.val, key, v), (want.fixed \o c) \o v)
  BY <1>1, <1>3, OnePartGiven
<1> QED  BY <1>4, <1>5, Zenon

LEMMA PathDataGiven ==
  ASSUME WriterInv, WantOK, AskedInv, Settled, Countable, Len(want.blob) < U32Range,
         want.msg.part = "pathdata", pc = "complete"
  PROVE  IsWritten(Expected(want.msg), Given, Payload(want))
<1> DEFINE x == <<"path">>
           d == "path"
           v == want.segs
           c == U16Bytes(Len(v))
           b == want.path
           y == <<"data">>
           e == "data"
           w == want.blob
           u == U32Bytes(Len(w))
           f == want.fixed
           val == want.msg.val
           g == (f \o c) \o b
           p == Leaf(x, d)
           q == Leaf(y, e)
<1>1. Added(want.msg.part) = p \o q /\ d \in Kinds /\ e \in Kinds /\ x # y
  BY AddedParts, Names, Zenon
<1>2. want \in Wants
  BY DEF WantOK
<1>3. IsValue(d, v) /\ b \in Seq(Nat) /\ c \in Seq(Nat) /\ Wire(d, v) = c \o b
  BY <1>2, PathAsked
<1>4. IsValue(e, w) /\ w \in Seq(Nat) /\ u \in Seq(Nat) /\ Wire(e, w) = u \o w
  BY <1>2, DataAsked
<1>5. Payload(want) = g \o (u \o w) /\ Given = With(With(val, x, v), y, w)
  BY PayloadCases, Zenon
<1> HIDE DEF x, d, v, c, b, y, e, w, u, f, val
<1>6. PICK a : /\ IsWritten(a, val, f) /\ f \in Seq(Nat)
               /\ a \o (p \o q) = Expected(want.msg) /\ Apart(a, p \o q)
  BY <1>1, FieldsExpected, Zenon DEF f, val
<1>7. Fresh(a, x) /\ Fresh(a, y)
  <2>1. Apart(a, p \o q)
    BY <1>6
  <2> QED  BY <2>1, FreshBeforeTwo
<1>8. Fresh(a \o p, y) /\ (a \o p) \o q = a \o (p \o q)
  <2>1. IsWritten(a, val, f) /\ d \in Kinds /\ e \in Kinds /\ x # y /\ Fresh(a, x) /\ Fresh(a, y)
    BY <1>1, <1>6, <1>7
  <2>2. Fresh(a \o p, y)
    BY <2>1, TwoAdded
  <2>3. (a \o p) \o q = a \o (p \o q)
    BY <2>1, TwoAdded
  <2> QED  BY <2>2, <2>3
<1>9. IsWritten(a \o p, With(val, x, v), g)
  BY <1>1, <1>3, <1>6, <1>7, OneAdded
<1>10. g \in Seq(Nat)
  BY <1>3, <1>6
<1> DEFINE a1 == a \o p
           v1 == With(val, x, v)
<1>11. IsWritten(a1, v1, g) /\ Fresh(a1, y)
  BY <1>8, <1>9
<1> HIDE DEF g, a1, v1
<1>12. IsWritten(a1 \o q, With(v1, y, w), (g \o u) \o w)
  BY <1>1, <1>4, <1>10, <1>11, OneAdded
<1>13. (g \o u) \o w = g \o (u \o w)
  BY <1>4, <1>10, ConcatAssoc
<1> QED  BY <1>5, <1>6, <1>8, <1>12, <1>13, Zenon DEF a1, v1

(* What the caller meant is what the parser will look for: its struct, its *)
(* fields in their order, and the counts that were patched.                *)
LEMMA GivenOnWire ==
  ASSUME WriterInv, WantOK, HeaderInv, FrameInv, AskedInv, Settled, Complete, Countable
  PROVE  IsWritten(Expected(want.msg), Given, Payload(want))
<1>1. want \in Wants /\ want.msg \in Messages /\ ~lost
  BY DEF WantOK, Settled, Complete
<1>2. want.msg.part \in {"whole", "path", "pathdata", "data", "string"}
  BY <1>1, MessagesAssumption DEF Parts
<1>3. Len(Payload(want)) < U32Range /\ U32Range \in Nat
  BY <1>1, SmallPayload, RangeLemma
<1>4. /\ want.blob \in Seq(Nat) /\ want.path \in Seq(Nat) /\ want.fixed \in Seq(Nat)
      /\ U16Bytes(Len(want.segs)) \in Seq(Nat) /\ U32Bytes(Len(want.blob)) \in Seq(Nat)
  <2>1. /\ want.blob \in Seq(Nat) /\ want.path \in Seq(Nat) /\ want.fixed \in Seq(Nat)
        /\ Len(want.segs) \in Nat /\ Len(want.blob) \in Nat
    BY <1>1 DEF Wants
  <2> QED  BY <2>1, U16BytesLemma, U32BytesLemma
<1>5. CASE want.msg.part = "whole"
  BY <1>5, WholeGiven
<1>6. CASE want.msg.part = "path"
  BY <1>6, PathsGiven
<1>7. CASE want.msg.part = "string"
  BY <1>7, StringsGiven
<1>8. CASE want.msg.part = "data"
  <2> DEFINE u == U32Bytes(Len(want.blob))
             g == want.fixed \o u
  <2>1. Payload(want) = g \o want.blob
    BY <1>8, PayloadCases, Zenon
  <2>2. g \in Seq(Nat)
    BY <1>4
  <2> HIDE DEF g
  <2>3. Len(want.blob) < U32Range
    BY <1>3, <1>4, <2>1, <2>2, LongerThanTail
  <2> QED  BY <1>8, <2>3, DataGiven
<1>9. CASE want.msg.part = "pathdata"
  <2> DEFINE u == U32Bytes(Len(want.blob))
             c == U16Bytes(Len(want.segs))
             g == (want.fixed \o c) \o want.path
             h == u \o want.blob
  <2>1. pc = "complete"
    BY <1>9 DEF Complete
  <2>2. Payload(want) = g \o h
    BY <1>9, <2>1, PayloadCases, Zenon
  <2>3. g \in Seq(Nat) /\ h \in Seq(Nat) /\ u \in Seq(Nat)
    BY <1>4
  <2> HIDE DEF g
  <2>4. Len(h) < U32Range
    <3> HIDE DEF h
    <3> QED  BY <1>3, <2>2, <2>3, LongerThanTail
  <2>5. Len(want.blob) < U32Range
    <3> HIDE DEF u
    <3> QED  BY <1>3, <1>4, <2>3, <2>4, LongerThanTail
  <2> QED  BY <1>9, <2>1, <2>5, PathDataGiven
<1> QED  BY <1>2, <1>5, <1>6, <1>7, <1>8, <1>9

-----------------------------------------------------------------------------
(* A complete message, received by a parser of its version                 *)

LEMMA BodyDelivered ==
  ASSUME SentInv, FrameInv, Settled, ~lost, NEW r, r.slip = 0
  PROVE  LET d == Delivered(r)
             p == SubSeq(d, 7 + 1, Len(d))
         IN  /\ out.pos + r.slip \in start..out.lim /\ 7 <= Len(d)
             /\ p \in Seq(Nat) /\ Len(p) \in Nat /\ 7 + Len(p) = out.pos - start
             /\ Has(p, 0, Payload(want))
<1> DEFINE d == Delivered(r)
           p == SubSeq(d, 7 + 1, Len(d))
           s == Payload(want)
<1>1. WriterInv /\ WantOK /\ HeaderInv
  BY DEF SentInv
<1>2. /\ start \in Nat /\ body = start + 7 /\ body \in Nat /\ out.pos \in Nat
      /\ out.lim \in Nat /\ out.pos <= out.lim
  BY <1>1, HeadersBody
<1>3. s \in Seq(Nat) /\ Holds(out, body, s) /\ out.pos = body + Len(s) /\ Len(s) \in Nat
  BY <1>1, SmallPayload
<1> HIDE DEF s
<1>4. out.pos + r.slip \in start..out.lim /\ r.slip \in Int /\ out.pos + r.slip = out.pos
  BY <1>2, <1>3
<1>5. /\ d \in Seq(Nat) /\ Len(d) = out.pos - start
      /\ \A i \in 1..Len(d) : d[i] = out.mem[start + i - 1]
  <2>1. Len(d) = (out.pos + r.slip) - start
    BY <1>1, <1>4, DeliveredLemma
  <2>2. d \in Seq(Nat)
    BY <1>1, <1>4, DeliveredLemma
  <2>3. \A i \in 1..Len(d) : d[i] = out.mem[start + i - 1]
    BY <1>1, <1>4, DeliveredLemma
  <2> HIDE DEF d
  <2> QED  BY <1>4, <2>1, <2>2, <2>3
<1> HIDE DEF d
<1>6. Len(d) = 7 + Len(s) /\ 7 <= Len(d)
  BY <1>2, <1>3, <1>5
<1>7. /\ p \in Seq(Nat) /\ Len(p) \in Nat /\ 7 + Len(p) = Len(d)
      /\ \A i \in 1..Len(p) : p[i] = d[7 + i]
  BY <1>5, <1>6, BodyCells, Zenon
<1> HIDE DEF p
<1>8. Len(p) = Len(s)
  BY <1>3, <1>6, <1>7
<1>9. ASSUME NEW i \in 1..Len(s)  PROVE p[0 + i] = s[i]
  <2> DEFINE n == Len(s)
  <2>1. n \in Nat /\ i \in 1..n
    BY <1>3
  <2> HIDE DEF n
  <2>2. i \in Nat /\ 0 + i = i /\ 7 + i \in 1..(7 + n) /\ start + (7 + i) - 1 = body + i - 1
    BY <1>2, <2>1
  <2>3. d[7 + i] = out.mem[start + (7 + i) - 1]
    BY <1>5, <1>6, <2>2 DEF n
  <2>4. out.mem[body + i - 1] = s[i]
    BY <1>3 DEF Holds
  <2>5. p[i] = d[7 + i]
    BY <1>7, <1>8
  <2> QED  BY <2>2, <2>3, <2>4, <2>5, Zenon
<1>10. 0 + Len(s) <= Len(p)
  BY <1>3, <1>8
<1>11. Has(p, 0, s)
  BY <1>9, <1>10 DEF Has
<1> QED  BY <1>4, <1>5, <1>6, <1>7, <1>11, Zenon DEF d, p, s

(* Both parsers accept it.                                                 *)
LEMMA MessageAccepted ==
  ASSUME SentInv, FrameInv, AskedInv, Settled, SameTag, Complete, Countable, NEW r, r.slip = 0
  PROVE  LET d == Delivered(r)
             k == parseMessageHeader(d)
             p == SubSeq(d, headerSize + 1, Len(d))
         IN  /\ k.err = "none"
             /\ \A max \in Nat : out.pos - start <= max => validateHeader(k, Len(p), max) = "none"
             /\ k.type = want.msg.code
             /\ DecodeAs(want.msg.ver, want.msg.dir, want.msg.name, p) = Accepted(want.msg.name, Given)
<1> DEFINE d == Delivered(r)
           k == parseMessageHeader(d)
           p == SubSeq(d, 7 + 1, Len(d))
           m == want.msg
<1>1. WriterInv /\ WantOK /\ HeaderInv /\ ~lost
  BY DEF SentInv, Complete
<1>2. /\ out.pos + r.slip \in start..out.lim /\ 7 <= Len(d) /\ r.slip \in Int
      /\ p \in Seq(Nat) /\ Len(p) \in Nat /\ 7 + Len(p) = out.pos - start
      /\ Has(p, 0, Payload(want))
  BY <1>1, BodyDelivered
<1>3. k.err = "none" /\ k.messageSize = out.pos - start /\ k.type = m.code
  BY <1>2, HeaderDelivered
<1> HIDE DEF k, p
<1>4. ASSUME NEW max \in Nat, out.pos - start <= max  PROVE validateHeader(k, Len(p), max) = "none"
  <2>1. k.messageSize = 7 + Len(p) /\ k.messageSize <= max
    BY <1>2, <1>3, <1>4
  <2> QED  BY <1>2, <2>1, RightSize
<1>5. IsWritten(Expected(m), Given, Payload(want))
  BY <1>1, GivenOnWire
<1>6. DecodeAs(m.ver, m.dir, m.name, p) = Accepted(m.name, Given)
  <2>1. IsWritten(DecLeaves[m.ver][m.dir][m.name], Given, Payload(want))
    BY <1>5, Zenon DEF Expected
  <2> QED  BY <1>2, <2>1, StructAccepted
<1> QED  BY <1>3, <1>4, <1>6, HeaderSizeLemma, Zenon DEF k, p

LEMMA WantedMessage ==
  ASSUME WantOK, Settled
  PROVE  /\ want.msg.ver \in Versions
         /\ want.msg.code \in DOMAIN ParserTable[want.msg.ver][want.msg.dir]
         /\ ParserTable[want.msg.ver][want.msg.dir][want.msg.code] = want.msg.name
         /\ want.msg.ver = "9P2000" /\ want.msg.dir = "Request" /\ want.msg.name = "Version" =>
              want.msg.code = MessageType9P.TVersion
<1> DEFINE m == want.msg
           a == Written(m.ver, m.dir, m.name, m.part)
<1>1. m \in Messages
  BY DEF WantOK, Settled
<1> QED  BY <1>1, MessageGiven

(* What comes of a message that a receiver of its version is given         *)
LEMMA BodyAccepted ==
  ASSUME SentInv, FrameInv, AskedInv, Settled, SameTag, Complete, Countable,
         NEW r, r.slip = 0, r.max \in Nat, r.ver = want.msg.ver, r.dir = want.msg.dir,
         out.pos - start <= headerSize + r.max, headerSize + r.max < U32Range
  PROVE  LET d == Delivered(r)
             k == parseMessageHeader(d)
             p == SubSeq(d, headerSize + 1, Len(d))
         IN  k.err = "none" /\ parseBody(r, k, p) = Accepted(want.msg.name, Given)
<1> DEFINE d == Delivered(r)
           k == parseMessageHeader(d)
           p == SubSeq(d, headerSize + 1, Len(d))
           m == want.msg
<1>1. /\ k.err = "none"
      /\ \A max \in Nat : out.pos - start <= max => validateHeader(k, Len(p), max) = "none"
      /\ k.type = m.code
      /\ DecodeAs(m.ver, m.dir, m.name, p) = Accepted(m.name, Given)
  BY MessageAccepted, Zenon
<1>2. /\ m.code \in DOMAIN ParserTable[m.ver][m.dir]
      /\ ParserTable[m.ver][m.dir][m.code] = m.name
  BY WantedMessage DEF SentInv
<1> HIDE DEF k, p
<1>3. headerSize + r.max \in Nat /\ maxMessageSize(r) = headerSize + r.max
  <2>1. headerSize + r.max \in Nat /\ U32Range \in Nat
    BY HeaderSizeLemma, RangeLemma
  <2>2. \A a, n \in Nat : a < n => a % n = a
    OBVIOUS
  <2> QED  BY <2>1, <2>2, Zenon DEF maxMessageSize
<1>4. validateHeader(k, Len(p), maxMessageSize(r)) = "none"
  BY <1>1, <1>3, Zenon
<1>5. parseBody(r, k, p) = DecodeAs(r.ver, r.dir, ParserTable[r.ver][r.dir][k.type], p)
  BY <1>1, <1>2, <1>4, Zenon DEF parseBody
<1> QED  BY <1>1, <1>2, <1>5, Zenon DEF k, p

LEMMA VersionAccepted ==
  ASSUME SentInv, FrameInv, AskedInv, Settled, SameTag, Complete, Countable,
         NEW r, r.slip = 0, r.max \in Nat, want.msg.ver = "9P2000", want.msg.dir = "Request",
         want.msg.name = "Version", out.pos - start <= r.max
  PROVE  LET d == Delivered(r)
             k == parseMessageHeader(d)
             p == SubSeq(d, headerSize + 1, Len(d))
         IN  k.err = "none" /\ parseVersionRequest(k, p, r.max) = Accepted(want.msg.name, Given)
<1> DEFINE d == Delivered(r)
           k == parseMessageHeader(d)
           p == SubSeq(d, headerSize + 1, Len(d))
           m == want.msg
<1>1. /\ k.err = "none"
      /\ \A max \in Nat : out.pos - start <= max => validateHeader(k, Len(p), max) = "none"
      /\ k.type = m.code
      /\ DecodeAs(m.ver, m.dir, m.name, p) = Accepted(m.name, Given)
  BY MessageAccepted, Zenon
<1>2. m.code = MessageType9P.TVersion
  BY WantedMessage DEF SentInv
<1> HIDE DEF k, p
<1>3. validateHeader(k, Len(p), r.max) = "none"
  BY <1>1, Zenon
<1>4. parseVersionRequest(k, p, r.max) = DecodeAs("9P2000", "Request", "Version", p)
  BY <1>1, <1>2, <1>3, Zenon DEF parseVersionRequest
<1> QED  BY <1>1, <1>4, Zenon DEF k, p

LEMMA RoundTripStep ==
  ASSUME SentInv, FrameInv, AskedInv, SameTag => RoundTrip, [XNext]_allVars
  PROVE  (SameTag => RoundTrip)'
<1>1. CASE Next /\ parsed' = NotParsed
  BY <1>1 DEF RoundTrip, Done
<1>2. CASE UNCHANGED allVars
  BY <1>2 DEF allVars, RoundTrip, SameTag, Done, Ok, Complete, Countable, Matching, Given
<1>3. ASSUME UNCHANGED vars
      PROVE  /\ SameTag' = SameTag /\ Complete' = Complete /\ Countable' = Countable /\ Given' = Given
             /\ want' = want /\ out' = out /\ start' = start
  BY <1>3 DEF vars, SameTag, Complete, Countable, Given
<1>4. ASSUME NEW r \in Receivers, Receive(r), SameTag'
      PROVE  RoundTrip'
  <2> SUFFICES ASSUME Complete', Countable', Matching'
               PROVE  Ok' /\ parsed'.result.name = want'.msg.name /\ parsed'.result.val = Given'
    BY DEF RoundTrip
  <2> DEFINE d == Delivered(r)
             k == parseMessageHeader(d)
             p == SubSeq(d, headerSize + 1, Len(d))
  <2>1. r.max \in Nat /\ CanDeliver(r)
    BY <1>4, ReceiversAssumption DEF Receive
  <2>2. Settled /\ UNCHANGED vars
    BY <2>1 DEF CanDeliver
  <2>3. /\ parsed'.parser = r /\ parsed'.largest = headerSize + r.max
        /\ parsed'.result = IF ~Supported(r.ver) THEN Rejected("UnsupportedProtocolVersion")
                            ELSE IF k.err # "none" THEN Rejected(k.err)
                            ELSE parseBody(r, k, p)
    BY <1>4 DEF Receive
  <2>4. /\ SameTag /\ Complete /\ Countable /\ Given' = Given /\ want' = want /\ out' = out /\ start' = start
    BY <1>3, <1>4, <2>2
  <2>5. /\ r.slip = 0 /\ r.ver = want.msg.ver /\ r.dir = want.msg.dir
        /\ out.pos - start <= headerSize + r.max /\ headerSize + r.max < U32Range
    BY <2>3, <2>4 DEF Matching
  <2>6. k.err = "none" /\ parseBody(r, k, p) = Accepted(want.msg.name, Given)
    BY <2>1, <2>2, <2>4, <2>5, BodyAccepted, Zenon
  <2>7. Supported(r.ver)
    BY <2>2, <2>5, WantedMessage DEF SentInv, Supported
  <2> HIDE DEF k, p
  <2>8. parsed'.result = Accepted(want.msg.name, Given)
    BY <2>3, <2>6, <2>7, Zenon
  <2>9. parsed'.result.err = "none" /\ parsed'.result.name = want.msg.name /\ parsed'.result.val = Given
    BY <2>8 DEF Accepted
  <2> QED  BY <2>4, <2>9 DEF Ok
<1>5. ASSUME NEW r \in Listeners, ReceiveVersion(r), SameTag'
      PROVE  RoundTrip'
  <2> SUFFICES ASSUME Complete', Countable', Matching'
               PROVE  Ok' /\ parsed'.result.name = want'.msg.name /\ parsed'.result.val = Given'
    BY DEF RoundTrip
  <2> DEFINE d == Delivered(r)
             k == parseMessageHeader(d)
             p == SubSeq(d, headerSize + 1, Len(d))
  <2>1. r.max \in Nat /\ CanDeliver(r)
    BY <1>5, ReceiversAssumption DEF ReceiveVersion
  <2>2. Settled /\ UNCHANGED vars
    BY <2>1 DEF CanDeliver
  <2>3. /\ parsed'.parser.slip = r.slip /\ parsed'.parser.ver = "9P2000" /\ parsed'.parser.dir = "Request"
        /\ parsed'.largest = r.max /\ parsed'.by = "parseVersionRequest"
        /\ parsed'.result = IF k.err # "none" THEN Rejected(k.err)
                            ELSE parseVersionRequest(k, p, r.max)
    BY <1>5 DEF ReceiveVersion
  <2>4. /\ SameTag /\ Complete /\ Countable /\ Given' = Given /\ want' = want /\ out' = out /\ start' = start
    BY <1>3, <1>5, <2>2
  <2>5. /\ r.slip = 0 /\ want.msg.ver = "9P2000" /\ want.msg.dir = "Request"
        /\ want.msg.name = "Version" /\ out.pos - start <= r.max
    BY <2>3, <2>4 DEF Matching
  <2>6. k.err = "none" /\ parseVersionRequest(k, p, r.max) = Accepted(want.msg.name, Given)
    BY <2>1, <2>2, <2>4, <2>5, VersionAccepted, Zenon
  <2> HIDE DEF k, p
  <2>7. parsed'.result = Accepted(want.msg.name, Given)
    BY <2>3, <2>6, Zenon
  <2>9. parsed'.result.err = "none" /\ parsed'.result.name = want.msg.name /\ parsed'.result.val = Given
    BY <2>7 DEF Accepted
  <2> QED  BY <2>4, <2>9 DEF Ok
<1> QED  BY <1>1, <1>2, <1>4, <1>5 DEF XNext

(* A complete message that the counts can count is accepted by every       *)
(* parser of its version that allows messages of its size, as the struct   *)
(* it was written from, with every value it was given: for every message   *)
(* of the four versions, every value of its fields, every sequence of      *)
(* calls and every buffer.                                                 *)
THEOREM ExchangeRoundTrip == XSpec => [](SameTag => RoundTrip)
<1> DEFINE I == SentInv /\ FrameInv /\ AskedInv /\ (SameTag => RoundTrip)
<1>1. XInit => I
  BY InitSent, InitFrame, InitAsked DEF XInit, RoundTrip, Done
<1>2. I /\ [XNext]_allVars => I'
  <2> SUFFICES ASSUME I, [XNext]_allVars PROVE I'
    OBVIOUS
  <2>1. WriterInv /\ WantOK /\ HeaderInv /\ [Next]_vars /\ SentInv'
    BY SenderStep, SentStep DEF SentInv
  <2>2. WantOK'
    BY <2>1 DEF SentInv
  <2>3. FrameInv' /\ AskedInv'
    BY <2>1, <2>2, FrameStep, AskedStep
  <2> QED  BY <2>1, <2>3, RoundTripStep
<1>3. I => (SameTag => RoundTrip)
  OBVIOUS
<1> HIDE DEF I
<1> QED  BY <1>1, <1>2, <1>3, PTL DEF XSpec
=============================================================================
