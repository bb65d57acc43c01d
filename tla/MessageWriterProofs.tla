------------------------ MODULE MessageWriterProofs ------------------------
(***************************************************************************)
(* What holds of MessageWriter for every Base, every set of messages,      *)
(* every buffer and every number of calls.                                 *)
(*                                                                         *)
(* TypeOK alone is not inductive: a partial writer moves the stream back   *)
(* to the position it remembers, so nothing stops the stream from falling  *)
(* behind the message unless that position itself lies within it.          *)
(*                                                                         *)
(* Nor are HeaderAgrees and FrameAsIntended.  updateMessageSize returns    *)
(* early when the size in memory is already right, and then relies on a    *)
(* header that an earlier step put on the wire; a partial writer patches a *)
(* count at a position that was remembered calls ago, and advances over    *)
(* data that the caller stored in the buffer itself.                       *)
(***************************************************************************)
EXTENDS MessageWriter, ByteStreamProofs

PositionsOK ==
  pc = "partial" => start <= partial.segmentsPos /\ partial.segmentsPos <= out.lim

WriterInv == TypeOK /\ PositionsOK

BytesKept == \A i \in 0..(start - 1) : out'.mem[i] = out.mem[i]

(* A call that writes only at p or further on, and settles the header.     *)
SettlesBehind(p) == \E s : Behind(out, s, p) /\ p <= s.pos /\ Settle(s)

-----------------------------------------------------------------------------
(* The last step of every call                                             *)
LEMMA SettleLemma ==
  ASSUME TypeOK, NEW s, Behind(out, s, start), start <= s.pos, Settle(s)
  PROVE  /\ IsByteWriter(out') /\ out'.lim = out.lim /\ out'.pos = s.pos
         /\ start' = start /\ start' \in 0..out'.pos
         /\ header' \in Headers
         /\ BytesKept
<1>1. start \in Nat /\ start <= out.lim /\ out.lim \in Nat /\ header \in Headers
  BY DEF TypeOK, IsByteWriter
<1>2. /\ Behind(out, out', start) /\ out'.pos = s.pos /\ header' \in Headers
      /\ start' = start
  BY <1>1, UpdateBehind DEF Settle
<1>3. s.pos \in Nat
  BY DEF Behind, IsByteWriter
<1>4. BytesKept
  BY <1>1, <1>2 DEF Behind, BytesKept
<1> QED  BY <1>1, <1>2, <1>3, <1>4 DEF Behind

-----------------------------------------------------------------------------
(* Every step keeps the invariant and the bytes of earlier messages        *)

LEMMA InitLemma == Init => WriterInv
<1> SUFFICES ASSUME Init PROVE WriterInv
  OBVIOUS
<1>1. PICK lim \in Limits, from \in Starts, t \in Tags :
        /\ from <= lim
        /\ out = [mem |-> [i \in 0..(lim - 1) |-> Fill], pos |-> from, lim |-> lim]
        /\ start = from
        /\ header = NewHeader(t)
        /\ partial = [segmentsPos |-> 0, size |-> 0]
        /\ pc = "new" /\ rest = <<>> /\ lost = FALSE
  BY DEF Init
<1>2. lim \in Nat /\ from \in Nat /\ t \in Nat /\ Fill \in Nat
  BY InputsAssumption
<1>3. IsByteWriter(out)
  BY <1>1, <1>2 DEF IsByteWriter
<1>4. header \in Headers /\ start \in 0..out.pos
  BY <1>1, <1>2 DEF Headers, NewHeader, headerSize
<1>5. rest \in Seq(Seq(Nat)) /\ partial \in [segmentsPos : Nat, size : Nat]
  BY <1>1
<1>6. pc = "new" /\ lost \in BOOLEAN
  BY <1>1
<1> QED  BY <1>3, <1>4, <1>5, <1>6 DEF WriterInv, TypeOK, PositionsOK

LEMMA NewWriterLemma ==
  ASSUME WriterInv, NEW t \in Tags, NewWriter(t)
  PROVE  WriterInv' /\ BytesKept
<1>1. t \in Nat
  BY InputsAssumption
<1>2. header' \in Headers
  BY <1>1 DEF NewWriter, NewHeader, Headers, headerSize
<1>3. IsByteWriter(out') /\ start' \in 0..out'.pos
  BY DEF NewWriter, WriterInv, TypeOK, IsByteWriter
<1>4. out' = out /\ partial' = partial /\ rest' = rest /\ pc' = "new" /\ lost' = FALSE
  BY DEF NewWriter
<1>5. TypeOK'
  BY <1>2, <1>3, <1>4 DEF WriterInv, TypeOK
<1>6. BytesKept
  BY <1>4 DEF BytesKept
<1> QED  BY <1>4, <1>5, <1>6 DEF WriterInv, PositionsOK

LEMMA ReuseWriterLemma ==
  ASSUME WriterInv, ReuseWriter
  PROVE  WriterInv' /\ BytesKept
<1>1. start = 0 /\ start' = 0 /\ IsByteWriter(out)
  BY DEF ReuseWriter, WriterInv, TypeOK
<1>2. IsByteWriter(out') /\ start' \in 0..out'.pos
  BY <1>1 DEF ReuseWriter, MoveTo, IsByteWriter
<1>3. /\ header' = header /\ partial' = partial /\ rest' = rest
      /\ pc' = "new" /\ lost' = FALSE
  BY DEF ReuseWriter
<1>4. TypeOK'
  BY <1>2, <1>3 DEF WriterInv, TypeOK
<1>5. BytesKept
  BY <1>1 DEF BytesKept
<1> QED  BY <1>3, <1>4, <1>5 DEF WriterInv, PositionsOK

LEMMA messageTypeLemma ==
  ASSUME WriterInv, NEW m \in Messages, NEW t \in Nat, messageType(m, t)
  PROVE  WriterInv' /\ BytesKept
<1> DEFINE h == [messageSize |-> header.messageSize, type |-> m.code, tag |-> t]
<1>1. m.code \in Nat /\ m.chunks \in Seq(Seq(Nat))
  BY MessagesAssumption
<1>2. h \in Headers /\ header' \in Headers
  BY <1>1 DEF messageType, WriterInv, TypeOK, Headers
<1>3. start \in Nat /\ start <= out.pos /\ IsByteWriter(out) /\ out.pos <= out.lim
  BY DEF WriterInv, TypeOK, IsByteWriter
<1>4. Behind(out, out', start) /\ out.pos <= out'.pos
  BY <1>2, <1>3, SameBehind, HeaderBehind DEF messageType
<1>5. BytesKept
  BY <1>3, <1>4 DEF Behind, BytesKept, IsByteWriter
<1>6. IsByteWriter(out') /\ start' \in 0..out'.pos
  BY <1>3, <1>4 DEF Behind, messageType, IsByteWriter
<1> QED
  BY <1>1, <1>2, <1>5, <1>6 DEF messageType, WriterInv, TypeOK, PositionsOK, Fits

LEMMA WriteFieldLemma ==
  ASSUME WriterInv, WriteField
  PROVE  WriterInv' /\ BytesKept
<1>1. rest \in Seq(Seq(Nat)) /\ rest # <<>>
  BY DEF WriteField, WriterInv, TypeOK
<1>2. Head(rest) \in Seq(Nat) /\ Tail(rest) \in Seq(Seq(Nat))
  BY <1>1
<1>3. start \in Nat /\ start <= out.pos /\ IsByteWriter(out) /\ out.pos <= out.lim
  BY DEF WriterInv, TypeOK, IsByteWriter
<1>4. Behind(out, out', start) /\ out.pos <= out'.pos
  BY <1>2, <1>3, SameBehind, WriteBehind DEF WriteField
<1>5. BytesKept
  BY <1>3, <1>4 DEF Behind, BytesKept, IsByteWriter
<1>6. IsByteWriter(out') /\ start' \in 0..out'.pos
  BY <1>3, <1>4 DEF Behind, WriteField, IsByteWriter
<1>7. lost' \in BOOLEAN
  BY DEF WriteField, WriterInv, TypeOK
<1> QED
  BY <1>2, <1>5, <1>6, <1>7 DEF WriteField, WriterInv, TypeOK, PositionsOK

LEMMA FinishMessageLemma ==
  ASSUME WriterInv, FinishMessage
  PROVE  WriterInv' /\ BytesKept
<1>1. TypeOK /\ Settle(out)
  BY DEF FinishMessage, WriterInv
<1>2. Behind(out, out, start) /\ start <= out.pos
  BY <1>1, SameBehind DEF TypeOK
<1>3. /\ IsByteWriter(out') /\ start' \in 0..out'.pos /\ header' \in Headers
      /\ BytesKept
  BY <1>1, <1>2, SettleLemma
<1> QED  BY <1>1, <1>3 DEF FinishMessage, WriterInv, TypeOK, PositionsOK

LEMMA BeginPartialLemma ==
  ASSUME WriterInv, NEW zero \in Seq(Nat), BeginPartial(zero)
  PROVE  WriterInv' /\ BytesKept
<1>1. TypeOK /\ Settle(Write(out, zero))
  BY DEF BeginPartial, WriterInv
<1>2. /\ Behind(out, out, start) /\ start \in Nat /\ start <= out.pos
      /\ out.pos \in Nat /\ out.lim \in Nat /\ out.pos <= out.lim
  BY <1>1, SameBehind DEF TypeOK
<1>3. Behind(out, Write(out, zero), start) /\ start <= Write(out, zero).pos
  BY <1>2, WriteBehind
<1>4. /\ IsByteWriter(out') /\ start' \in 0..out'.pos /\ header' \in Headers
      /\ BytesKept /\ start' = start /\ out'.lim = out.lim
  BY <1>1, <1>3, SettleLemma
<1>5. partial' = [segmentsPos |-> out.pos, size |-> 0]
  BY DEF BeginPartial
<1>6. PositionsOK'
  BY <1>2, <1>4, <1>5 DEF PositionsOK
<1>7. lost' \in BOOLEAN
  BY DEF BeginPartial, WriterInv, TypeOK
<1> QED  BY <1>1, <1>2, <1>4, <1>5, <1>6, <1>7 DEF BeginPartial, WriterInv, TypeOK

(* What every call of a partial writer starts from                         *)
LEMMA CallLemma ==
  ASSUME WriterInv, NEW parts, Call(parts)
  PROVE  /\ TypeOK /\ Behind(out, out, start)
         /\ start \in Nat /\ start <= out.pos
         /\ out.pos \in Nat /\ out.lim \in Nat /\ out.pos <= out.lim
         /\ partial.segmentsPos \in Nat /\ partial.size \in Nat
         /\ start <= partial.segmentsPos /\ partial.segmentsPos <= out.lim
         /\ pc = "partial" /\ rest' = rest
<1>1. TypeOK /\ PositionsOK /\ pc = "partial" /\ rest' = rest
  BY DEF WriterInv, Call
<1>2. start \in Nat /\ start <= out.pos /\ IsByteWriter(out)
  BY <1>1 DEF TypeOK, IsByteWriter
<1>3. Behind(out, out, start) /\ out.pos \in Nat /\ out.lim \in Nat /\ out.pos <= out.lim
  BY <1>2, SameBehind
<1> QED  BY <1>1, <1>2, <1>3 DEF TypeOK, PositionsOK

(* A call that writes behind the start of the message, settles the header  *)
(* and keeps the remembered position preserves the invariant.              *)
LEMMA CallSettles ==
  ASSUME WriterInv, NEW parts, Call(parts),
         NEW s, Behind(out, s, start), start <= s.pos, Settle(s),
         partial' \in [segmentsPos : Nat, size : Nat],
         partial'.segmentsPos = partial.segmentsPos,
         pc' \in {"partial", "complete"}, lost' \in BOOLEAN
  PROVE  WriterInv' /\ BytesKept
<1>1. /\ TypeOK /\ rest' = rest
      /\ start <= partial.segmentsPos /\ partial.segmentsPos <= out.lim
  BY CallLemma
<1>2. /\ IsByteWriter(out') /\ start' \in 0..out'.pos /\ header' \in Headers
      /\ BytesKept /\ start' = start /\ out'.lim = out.lim
  BY <1>1, SettleLemma
<1>3. TypeOK'
  BY <1>1, <1>2 DEF TypeOK
<1>4. PositionsOK'
  BY <1>1, <1>2 DEF PositionsOK
<1> QED  BY <1>2, <1>3, <1>4 DEF WriterInv

(* Each call, from the bytes it leaves alone: anything in front of the     *)
(* count of this message and of the stream.                                *)
LEMMA segmentBehind ==
  ASSUME WriterInv, NEW v \in Pieces, segment(v),
         NEW p \in Nat, p <= out.pos, p <= partial.segmentsPos
  PROVE  SettlesBehind(p)
<1> DEFINE n       == (partial.size + 1) % U16Range
           counted == Patch(out, partial.segmentsPos, U16Bytes(n))
           sized   == Write(counted, U16Bytes(Len(v)))
<1>1. v \in Seq(Nat) /\ Len(v) \in Nat
  BY InputsAssumption
<1>2. /\ IsByteWriter(out) /\ Behind(out, out, p)
      /\ partial.segmentsPos \in Nat /\ partial.size \in Nat
      /\ partial.segmentsPos <= out.lim
  BY CallLemma, SameBehind DEF segment, TypeOK
<1>3. n \in Nat
  BY <1>2, RangeLemma
<1>4. U16Bytes(n) \in Seq(Nat) /\ U16Bytes(Len(v)) \in Seq(Nat)
  BY <1>1, <1>3, U16BytesLemma
<1>5. Behind(out, counted, p) /\ counted.pos = out.pos
  BY <1>2, <1>4, PatchBehind
<1>6. Behind(out, sized, p) /\ p <= sized.pos
  BY <1>4, <1>5, WriteBehind
<1>7. Behind(out, Write(sized, v), p) /\ p <= Write(sized, v).pos
  BY <1>1, <1>6, WriteBehind
<1>8. Settle(Write(sized, v))
  BY DEF segment
<1> HIDE DEF n, counted, sized
<1> QED  BY <1>7, <1>8 DEF SettlesBehind

LEMMA pathDataBehind ==
  ASSUME WriterInv, NEW v \in Pieces, pathData(v), NEW p \in Nat, p <= out.pos
  PROVE  SettlesBehind(p)
<1> DEFINE sized == Write(out, U32Bytes(Len(v)))
<1>1. v \in Seq(Nat) /\ Len(v) \in Nat
  BY InputsAssumption
<1>2. Behind(out, out, p)
  BY SameBehind DEF WriterInv, TypeOK
<1>3. U32Bytes(Len(v)) \in Seq(Nat)
  BY <1>1, U32BytesLemma
<1>4. Behind(out, sized, p) /\ p <= sized.pos
  BY <1>2, <1>3, WriteBehind
<1>5. Behind(out, Write(sized, v), p) /\ p <= Write(sized, v).pos
  BY <1>1, <1>4, WriteBehind
<1>6. Settle(Write(sized, v))
  BY DEF pathData
<1> HIDE DEF sized
<1> QED  BY <1>5, <1>6 DEF SettlesBehind

LEMMA stringBehind ==
  ASSUME WriterInv, NEW v \in Pieces, string(v),
         NEW p \in Nat, p <= out.pos, p <= partial.segmentsPos
  PROVE  SettlesBehind(p)
<1> DEFINE n     == (partial.size + Len(v)) % U16Range
           wrote == Write(out, v)
           done  == Patch(wrote, partial.segmentsPos, U16Bytes(n))
<1>1. v \in Seq(Nat) /\ Len(v) \in Nat
  BY InputsAssumption
<1>2. /\ Behind(out, out, p)
      /\ partial.segmentsPos \in Nat /\ partial.size \in Nat
      /\ partial.segmentsPos <= out.lim
  BY CallLemma, SameBehind DEF string, TypeOK
<1>3. n \in Nat
  BY <1>1, <1>2, RangeLemma
<1>4. U16Bytes(n) \in Seq(Nat)
  BY <1>3, U16BytesLemma
<1>5. Behind(out, wrote, p) /\ p <= wrote.pos
  BY <1>1, <1>2, WriteBehind
<1>6. Behind(out, done, p) /\ done.pos = wrote.pos
  BY <1>2, <1>4, <1>5, PatchBehind
<1>7. Settle(done)
  BY DEF string
<1> HIDE DEF n, wrote, done
<1> QED  BY <1>5, <1>6, <1>7 DEF SettlesBehind

(* The part data and update share.  Here the stream does move back: to the *)
(* count, and forward again over as much of the data as there is.          *)
LEMMA SetDataSizeBehind ==
  ASSUME WriterInv, NEW parts, Call(parts), NEW p \in Nat, p <= partial.segmentsPos,
         NEW s, Behind(out, s, p), NEW n \in Nat, SetDataSize(s, n)
  PROVE  SettlesBehind(p)
<1> DEFINE back    == MoveTo(s, partial.segmentsPos)
           counted == Write(back, U32Bytes(n))
           done    == Advance(counted, n)
<1>1. partial.segmentsPos \in Nat /\ partial.segmentsPos <= out.lim
  BY CallLemma
<1>2. U32Bytes(n) \in Seq(Nat)
  BY U32BytesLemma
<1>3. Behind(out, back, p) /\ back.pos = partial.segmentsPos
  BY <1>1, MoveBehind
<1>4. Behind(out, counted, p) /\ p <= counted.pos
  BY <1>1, <1>2, <1>3, WriteBehind
<1>5. counted.pos \in Nat /\ counted.pos + n \in Nat /\ counted.pos <= counted.pos + n
  BY <1>4 DEF Behind, IsByteWriter
<1>6. Behind(out, done, p) /\ counted.pos <= done.pos
  BY <1>4, <1>5, MoveBehind DEF Advance
<1>7. p <= done.pos
  BY <1>4, <1>5, <1>6 DEF Behind, IsByteWriter
<1>8. Settle(done)
  BY DEF SetDataSize
<1> HIDE DEF back, counted, done
<1> QED  BY <1>6, <1>7, <1>8 DEF SettlesBehind

LEMMA dataBehind ==
  ASSUME WriterInv, NEW v \in Pieces, data(v),
         NEW p \in Nat, p <= out.pos, p <= partial.segmentsPos
  PROVE  SettlesBehind(p) /\ (partial.size + Len(v)) % U32Range \in Nat
<1>1. v \in Seq(Nat) /\ Len(v) \in Nat
  BY InputsAssumption
<1>2. Call({"data"})
  BY DEF data
<1>3. Behind(out, out, p) /\ partial.size \in Nat
  BY <1>2, CallLemma, SameBehind DEF TypeOK
<1>4. Behind(out, Write(out, v), p)
  BY <1>1, <1>3, WriteBehind
<1>5. (partial.size + Len(v)) % U32Range \in Nat
  BY <1>1, <1>3, RangeLemma
<1>6. SetDataSize(Write(out, v), (partial.size + Len(v)) % U32Range)
  BY DEF data
<1> QED  BY <1>2, <1>4, <1>5, <1>6, SetDataSizeBehind

LEMMA updateBehind ==
  ASSUME WriterInv, NEW n \in Nat, update(n), NEW p \in Nat, p <= partial.segmentsPos
  PROVE  SettlesBehind(p)
<1>1. Call({"data"}) /\ SetDataSize(out, n)
  BY DEF update
<1>2. Behind(out, out, p)
  BY SameBehind DEF WriterInv, TypeOK
<1> QED  BY <1>1, <1>2, SetDataSizeBehind

(* The calls that settle the header                                        *)
PartialCall ==
  \/ \E v \in Pieces : segment(v) \/ pathData(v) \/ string(v) \/ data(v)
  \/ \E n \in 0..out.lim : update(n)

LEMMA PartialCallBehind ==
  ASSUME WriterInv, PartialCall,
         NEW p \in Nat, p <= out.pos, p <= partial.segmentsPos
  PROVE  SettlesBehind(p)
<1>1. out.lim \in Nat
  BY DEF WriterInv, TypeOK, IsByteWriter
<1>2. ASSUME NEW v \in Pieces, segment(v) \/ pathData(v) \/ string(v) \/ data(v)
      PROVE  SettlesBehind(p)
  BY <1>2, segmentBehind, pathDataBehind, stringBehind, dataBehind
<1>3. ASSUME NEW n \in 0..out.lim, update(n)
      PROVE  SettlesBehind(p)
  BY <1>1, <1>3, updateBehind
<1> QED  BY <1>2, <1>3 DEF PartialCall

(* What these calls do to the rest of the state                            *)
LEMMA PartialCallState ==
  ASSUME WriterInv, PartialCall
  PROVE  /\ \E parts : Call(parts)
         /\ partial' \in [segmentsPos : Nat, size : Nat]
         /\ partial'.segmentsPos = partial.segmentsPos
         /\ pc' \in {"partial", "complete"}
         /\ lost' \in BOOLEAN
<1>1. PICK parts : Call(parts)
  BY DEF PartialCall, segment, pathData, string, data, update
<1>2. /\ partial.size \in Nat /\ partial.segmentsPos \in Nat /\ out.lim \in Nat
      /\ pc = "partial" /\ TypeOK
  BY <1>1, CallLemma
<1>3. ASSUME NEW v \in Pieces, segment(v) \/ pathData(v) \/ string(v) \/ data(v)
      PROVE  /\ \/ partial' = partial
                \/ \E k \in Nat : partial' = [segmentsPos |-> partial.segmentsPos, size |-> k]
             /\ pc' \in {"partial", "complete"} /\ lost' \in BOOLEAN
  <2>1. v \in Seq(Nat) /\ Len(v) \in Nat
    BY InputsAssumption
  <2>2. /\ (partial.size + 1) % U16Range \in Nat
        /\ (partial.size + Len(v)) % U16Range \in Nat
        /\ (partial.size + Len(v)) % U32Range \in Nat
    BY <1>2, <2>1, RangeLemma
  <2>3. \/ partial' = partial
        \/ \E k \in Nat : partial' = [segmentsPos |-> partial.segmentsPos, size |-> k]
    BY <1>3, <2>2 DEF segment, pathData, string, data, SetDataSize
  <2>4. pc' \in {"partial", "complete"}
    BY <1>2, <1>3 DEF segment, pathData, string, data, SetDataSize
  <2>5. lost' \in BOOLEAN
    BY <1>2, <1>3 DEF segment, pathData, string, data, TypeOK
  <2> QED  BY <2>3, <2>4, <2>5
<1>4. ASSUME NEW n \in 0..out.lim, update(n)
      PROVE  /\ \E k \in Nat : partial' = [segmentsPos |-> partial.segmentsPos, size |-> k]
             /\ pc' \in {"partial", "complete"} /\ lost' \in BOOLEAN
  <2>1. n \in Nat
    BY <1>2, <1>4
  <2> QED  BY <1>2, <1>4, <2>1 DEF update, SetDataSize
<1>5. /\ \/ partial' = partial
         \/ \E k \in Nat : partial' = [segmentsPos |-> partial.segmentsPos, size |-> k]
      /\ pc' \in {"partial", "complete"} /\ lost' \in BOOLEAN
  BY <1>3, <1>4 DEF PartialCall
<1>6. /\ partial' \in [segmentsPos : Nat, size : Nat]
      /\ partial'.segmentsPos = partial.segmentsPos
  BY <1>2, <1>5 DEF TypeOK
<1> QED  BY <1>1, <1>5, <1>6

(* They keep the invariant and the bytes in front of the message.          *)
LEMMA PartialCallLemma ==
  ASSUME WriterInv, PartialCall
  PROVE  WriterInv' /\ BytesKept
<1>1. PICK parts : Call(parts)
  BY PartialCallState
<1>2. start \in Nat /\ start <= out.pos /\ start <= partial.segmentsPos
  BY <1>1, CallLemma
<1>3. PICK s : Behind(out, s, start) /\ start <= s.pos /\ Settle(s)
  BY <1>2, PartialCallBehind DEF SettlesBehind
<1> QED  BY <1>1, <1>3, PartialCallState, CallSettles

LEMMA FillViewLemma ==
  ASSUME WriterInv, NEW v \in Pieces, FillView(v)
  PROVE  WriterInv' /\ BytesKept
<1>1. v \in Seq(Nat)
  BY InputsAssumption
<1>2. Call({"data"})
  BY DEF FillView
<1>3. /\ TypeOK /\ Behind(out, out, start) /\ start \in Nat /\ start <= out.pos
      /\ out.pos \in Nat /\ out.pos <= out.lim /\ out.lim \in Nat
      /\ start <= partial.segmentsPos /\ partial.segmentsPos <= out.lim
      /\ rest' = rest
  BY <1>2, CallLemma
<1>4. Behind(out, Write(out, v), start)
  BY <1>1, <1>3, WriteBehind
<1>5. Behind(out, out', start) /\ out'.pos = out.pos
  BY <1>3, <1>4, MoveBehind DEF FillView
<1>6. /\ start' = start /\ header' = header /\ partial' = partial
      /\ pc' = pc /\ lost' = lost
  BY DEF FillView
<1>7. BytesKept
  BY <1>3, <1>5 DEF Behind, BytesKept
<1>8. TypeOK'
  BY <1>3, <1>5, <1>6 DEF TypeOK, Behind
<1>9. PositionsOK'
  BY <1>3, <1>5, <1>6 DEF PositionsOK, Behind
<1> QED  BY <1>7, <1>8, <1>9 DEF WriterInv

(* One case per disjunct of Next                                           *)
LEMMA StepLemma ==
  ASSUME WriterInv, [Next]_vars
  PROVE  WriterInv' /\ (BytesKept \/ UNCHANGED vars)
<1>0. header.tag \in Nat /\ out.lim \in Nat
  BY DEF WriterInv, TypeOK, Headers, IsByteWriter
<1>1. ASSUME NEW t \in Tags, NewWriter(t)  PROVE WriterInv' /\ BytesKept
  BY <1>1, NewWriterLemma
<1>2. ASSUME NEW m \in Messages, StartMessage(m)  PROVE WriterInv' /\ BytesKept
  BY <1>0, <1>2, messageTypeLemma DEF StartMessage
<1>3. ASSUME NEW m \in Messages, NEW t \in ExplicitTags, messageType(m, t)
      PROVE  WriterInv' /\ BytesKept
  BY <1>3, InputsAssumption, messageTypeLemma
<1>4. CASE WriteField  BY <1>4, WriteFieldLemma
<1>5. CASE FinishMessage  BY <1>5, FinishMessageLemma
<1>6. CASE BeginPath \/ BeginPathData \/ BeginString
  BY <1>6, U16BytesLemma, BeginPartialLemma DEF BeginPath, BeginPathData, BeginString
<1>7. CASE BeginData
  BY <1>7, U32BytesLemma, BeginPartialLemma DEF BeginData
<1>8. CASE PartialCall
  BY <1>8, PartialCallLemma
<1>9. ASSUME NEW v \in Pieces, FillView(v)  PROVE WriterInv' /\ BytesKept
  BY <1>9, FillViewLemma
<1>10. CASE UNCHANGED vars
  BY <1>10 DEF vars, WriterInv, TypeOK, PositionsOK
<1>11. CASE ReuseWriter  BY <1>11, ReuseWriterLemma
<1> QED
  BY <1>1, <1>2, <1>3, <1>4, <1>5, <1>6, <1>7, <1>8, <1>9, <1>10, <1>11
  DEF Next, PartialCall

-----------------------------------------------------------------------------
(* The stream stays within its buffer and never falls behind the message   *)
(* under construction, whatever is written, dropped or patched             *)
(* (MessageWriterBase and all partial writers).                            *)
THEOREM WriterTypeCorrect == Spec => []TypeOK
<1>1. WriterInv /\ [Next]_vars => WriterInv'
  BY StepLemma
<1>2. WriterInv => TypeOK
  BY DEF WriterInv
<1> QED  BY InitLemma, <1>1, <1>2, PTL DEF Spec

(* No step changes a byte in front of the message being written: patching  *)
(* the size and the counts never reaches back into an earlier message.     *)
THEOREM WriterKeepsEarlierBytes == Spec => EarlierBytesKept
<1>1. WriterInv /\ [Next]_vars => WriterInv'
  BY StepLemma
<1>2. WriterInv /\ [Next]_vars =>
        [\A i \in 0..(start - 1) : out'.mem[i] = out.mem[i]]_vars
  BY StepLemma DEF BytesKept
<1> QED  BY InitLemma, <1>1, <1>2, PTL DEF Spec, EarlierBytesKept

-----------------------------------------------------------------------------
(* What the writers leave in the buffer                                    *)

(* The caller left the tag to the writer, or named the one the writer has. *)
(* Without this the header on the wire is not the one in memory            *)
(* (TagAsRequested).                                                       *)
SameTag == want.tag = header.tag

(* Where the payload of the message begins                                 *)
body == start + headerSize

(* The buffer has room for the header of this message.                     *)
HasHeader == body <= out.lim

(* The header is in front of everything the writer goes back to.           *)
HeaderInFront ==
  pc # "new" /\ HasHeader =>
    /\ body <= out.pos
    /\ pc = "partial" => body <= partial.segmentsPos

(* The header on the wire is the one in memory.                            *)
HeaderOnWire ==
  pc # "new" /\ HasHeader /\ SameTag => Holds(out, start, HeaderBytes(header))

(* No call leaves without the size of the message.                         *)
SizeSettled ==
  Settled /\ HasHeader => header.messageSize = out.pos - start

HeaderInv ==
  /\ out.lim < U32Range
  /\ pc = "new" => out.pos = start
  /\ HeaderInFront
  /\ HeaderOnWire
  /\ SizeSettled

-----------------------------------------------------------------------------
Wants == [msg : Messages \cup {NoMessage}, tag : Nat, fixed : Seq(Nat),
          segs : Seq(Seq(Nat)), path : Seq(Nat), blob : Seq(Nat), view : Seq(Nat)]

(* The header has the type of the message, and what was asked for so far   *)
(* is what the calls made so far asked for.                                *)
WantOK ==
  /\ want \in Wants
  /\ pc = "new" => want.fixed = <<>>
  /\ pc \in {"new", "fields"} =>
       want.segs = <<>> /\ want.path = <<>> /\ want.blob = <<>> /\ want.view = <<>>
  /\ pc # "new" => want.msg \in Messages /\ header.type = want.msg.code
  /\ pc = "partial" => want.msg.part # "whole"
  /\ pc = "partial" /\ want.msg.part = "pathdata" => want.blob = <<>>
  /\ pc = "partial" /\ want.msg.part # "data" => want.view = <<>>

(* The fields of the message, as far as they were written                  *)
FieldsInPlace ==
  pc = "fields" => Holds(out, body, want.fixed) /\ out.pos = body + Len(want.fixed)

(* The payload asked for so far, and the data the caller stored behind it  *)
PayloadInPlace ==
  Settled => Holds(out, body, Payload(want)) /\ out.pos = body + Len(Payload(want))

ViewInPlace ==
  pc = "partial" => Holds(out, out.pos, want.view)

(* The count a partial writer keeps, and where it patches it               *)
Counted(w) ==
  CASE w.msg.part \in {"path", "pathdata"} -> Len(w.segs) % U16Range
    [] w.msg.part = "string"               -> Len(w.blob) % U16Range
    [] w.msg.part = "data"                 -> Len(w.blob)

CountInPlace ==
  pc = "partial" => /\ partial.segmentsPos = body + Len(want.fixed)
                    /\ partial.size = Counted(want)

InPlace == FieldsInPlace /\ PayloadInPlace /\ ViewInPlace /\ CountInPlace

FrameInv == ~lost => InPlace

-----------------------------------------------------------------------------
(* The header on the wire                                                  *)

(* The last step of every call, seen from the header                       *)
LEMMA SettleTag ==
  ASSUME NEW s, Settle(s), header \in Headers
  PROVE  header'.tag = header.tag /\ header'.type = header.type
BY DEF Settle, updateMessageSize, Headers

LEMMA SettleHeader ==
  ASSUME TypeOK, out.lim < U32Range,
         NEW s, IsByteWriter(s), s.lim = out.lim, HasHeader, body <= s.pos, Settle(s)
  PROVE  /\ header'.messageSize = s.pos - start
         /\ out'.pos = s.pos /\ out'.lim = s.lim
         /\ Holds(s, start, HeaderBytes(header)) => Holds(out', start, HeaderBytes(header'))
         /\ \A q \in Nat, a \in Seq(Nat) :
              body <= q /\ Holds(s, q, a) => Holds(out', q, a)
<1>1. start \in Nat /\ header \in Headers /\ body = start + 7
  BY HeaderSizeLemma DEF TypeOK, IsByteWriter, body
<1>2. s.lim < U32Range /\ start + 7 <= s.pos
  BY <1>1
<1> DEFINE u == updateMessageSize(s, start, header)
<1>3. /\ u.header.messageSize = s.pos - start
      /\ u.out.pos = s.pos /\ u.out.lim = s.lim
      /\ Holds(s, start, HeaderBytes(header)) => Holds(u.out, start, HeaderBytes(u.header))
      /\ \A q \in Nat, a \in Seq(Nat) :
           start + 7 <= q /\ Holds(s, q, a) => Holds(u.out, q, a)
  BY <1>1, <1>2, UpdateWire
<1>4. out' = u.out /\ header' = u.header
  BY DEF Settle
<1> HIDE DEF u
<1> QED  BY <1>1, <1>3, <1>4

(* A call that writes behind the header only and settles it keeps HeaderInv. *)
LEMMA SettlesKeepsHeader ==
  ASSUME WriterInv, HeaderInv, WriterInv',
         pc # "new", pc' \in {"partial", "complete"}, want'.tag = want.tag,
         HasHeader => SettlesBehind(body), SettlesBehind(start),
         HasHeader /\ pc' = "partial" => body <= partial'.segmentsPos
  PROVE  HeaderInv'
<1>1. /\ start \in Nat /\ out.lim \in Nat /\ out.pos \in Nat /\ header \in Headers
      /\ TypeOK /\ body \in Nat /\ body = start + 7 /\ out.lim < U32Range
  BY HeaderSizeLemma DEF WriterInv, TypeOK, IsByteWriter, body, HeaderInv
<1>2. PICK r : Behind(out, r, start) /\ start <= r.pos /\ Settle(r)
  BY DEF SettlesBehind
<1>3. /\ out'.lim = out.lim /\ start' = start
      /\ header'.tag = header.tag
  BY <1>1, <1>2, SettleLemma, SettleTag
<1>4. body' = body /\ HasHeader' = HasHeader /\ SameTag' = SameTag
  BY <1>3 DEF body, HasHeader, SameTag
<1>5. CASE ~HasHeader
  BY <1>1, <1>3, <1>4, <1>5 DEF HeaderInv, HeaderInFront, HeaderOnWire, SizeSettled
<1>6. CASE HasHeader
  <2>1. PICK s : Behind(out, s, body) /\ body <= s.pos /\ Settle(s)
    BY <1>6 DEF SettlesBehind
  <2>2. IsByteWriter(s) /\ s.lim = out.lim /\ s.pos \in Nat
    BY <2>1 DEF Behind, IsByteWriter
  <2>3. Behind(out, s, start) /\ start <= s.pos
    BY <1>1, <2>1, <2>2 DEF Behind
  <2>4. out'.pos = s.pos
    BY <1>1, <2>1, <2>3, SettleLemma
  <2>5. /\ header'.messageSize = s.pos - start
        /\ Holds(s, start, HeaderBytes(header)) => Holds(out', start, HeaderBytes(header'))
    BY <1>1, <1>6, <2>1, <2>2, SettleHeader
  <2>6. ASSUME SameTag PROVE Holds(s, start, HeaderBytes(header))
    <3>1. Holds(out, start, HeaderBytes(header))
      BY <1>6, <2>6 DEF HeaderInv, HeaderOnWire
    <3>2. HeaderBytes(header) \in Seq(Nat) /\ start + Len(HeaderBytes(header)) <= body
      <4>1. HeaderBytes(header) \in Seq(Nat) /\ Len(HeaderBytes(header)) = 7
        BY <1>1, HeaderBytesLemma
      <4> QED  BY <1>1, <4>1
    <3> QED  BY <1>1, <2>1, <3>1, <3>2, BehindHolds
  <2>7. HeaderOnWire'
    BY <1>3, <1>4, <2>5, <2>6 DEF HeaderOnWire
  <2>8. HeaderInFront'
    BY <1>4, <1>6, <2>1, <2>4 DEF HeaderInFront
  <2>9. SizeSettled'
    BY <1>3, <2>4, <2>5 DEF SizeSettled
  <2> QED  BY <1>1, <1>3, <2>7, <2>8, <2>9 DEF HeaderInv
<1> QED  BY <1>5, <1>6

(* The actions that do not settle the header                               *)

LEMMA InitHeader == Init => HeaderInv
<1> SUFFICES ASSUME Init PROVE HeaderInv
  OBVIOUS
<1>1. PICK lim \in Limits, from \in Starts :
        out = [mem |-> [i \in 0..(lim - 1) |-> Fill], pos |-> from, lim |-> lim]
        /\ start = from /\ pc = "new"
  BY DEF Init
<1>2. out.lim < U32Range /\ out.pos = start
  BY <1>1, LimitsAssumption
<1> QED  BY <1>1, <1>2 DEF HeaderInv, HeaderInFront, HeaderOnWire, SizeSettled, Settled

LEMMA NewWriterHeader ==
  ASSUME HeaderInv, NEW t \in Tags, NewWriter(t)
  PROVE  HeaderInv'
<1>1. pc' = "new" /\ out' = out /\ start' = out.pos
  BY DEF NewWriter
<1> QED
  BY <1>1 DEF HeaderInv, HeaderInFront, HeaderOnWire, SizeSettled, Settled

LEMMA ReuseWriterHeader ==
  ASSUME WriterInv, HeaderInv, ReuseWriter
  PROVE  HeaderInv'
<1>1. pc' = "new" /\ out' = MoveTo(out, 0) /\ start' = 0 /\ start = 0
  BY DEF ReuseWriter
<1>2. IsByteWriter(out) /\ 0 <= out.lim
  BY DEF WriterInv, TypeOK, IsByteWriter
<1>3. out'.pos = 0 /\ out'.lim = out.lim
  BY <1>1, <1>2, MoveToLemma
<1> QED
  BY <1>1, <1>3 DEF HeaderInv, HeaderInFront, HeaderOnWire, SizeSettled, Settled

LEMMA messageTypeHeader ==
  ASSUME WriterInv, HeaderInv, NEW m \in Messages, NEW t \in Nat, messageType(m, t)
  PROVE  HeaderInv'
<1> DEFINE h == [messageSize |-> header.messageSize, type |-> m.code, tag |-> t]
<1>1. /\ start \in Nat /\ out.lim \in Nat /\ IsByteWriter(out)
      /\ out.pos = start /\ out.lim < U32Range /\ body = start + 7 /\ body \in Nat
  BY HeaderSizeLemma DEF WriterInv, TypeOK, HeaderInv, messageType, IsByteWriter, body
<1>2. m.code \in Nat /\ header.messageSize \in Nat /\ header.tag \in Nat
  BY MessagesAssumption DEF WriterInv, TypeOK, Headers
<1>3. h \in Headers
  BY <1>2 DEF Headers
<1>4. /\ pc' = "fields" /\ out' = WriteHeader(out, h) /\ start' = start
      /\ header' = [messageSize |-> header.messageSize, type |-> m.code, tag |-> header.tag]
      /\ want' = [want EXCEPT !.msg = m, !.tag = t]
  BY DEF messageType
<1> HIDE DEF h
<1>5. out'.lim = out.lim
  BY <1>1, <1>3, <1>4, SameBehind, HeaderBehind DEF Behind
<1>6. CASE ~HasHeader
  <2>1. ~HasHeader'
    BY <1>4, <1>5, <1>6 DEF HasHeader, body
  <2> QED
    BY <1>1, <1>4, <1>5, <2>1
    DEF HeaderInv, HeaderInFront, HeaderOnWire, SizeSettled
<1>7. CASE HasHeader
  <2>1. out'.pos = body /\ Holds(out', start, HeaderBytes(h))
    BY <1>1, <1>3, <1>4, <1>7, WriteHeaderLemma DEF HasHeader
  <2>2. ASSUME want'.tag = header'.tag, want.tag = want.tag PROVE header' = h
    BY <1>4, <2>2 DEF h
  <2> QED
    BY <1>1, <1>4, <1>5, <2>1, <2>2
    DEF HeaderInv, HeaderInFront, HeaderOnWire, SizeSettled, Settled, body, SameTag
<1> QED  BY <1>6, <1>7

(* A write behind the header that leaves its size for later                *)
LEMMA WritesKeepHeader ==
  ASSUME WriterInv, HeaderInv, pc # "new", pc' = pc,
         start' = start, header' = header, partial' = partial, want'.tag = want.tag,
         out'.lim = out.lim, HasHeader => Behind(out, out', body) /\ body <= out'.pos,
         Settled => out'.pos = out.pos
  PROVE  HeaderInv'
<1>1. /\ start \in Nat /\ out.lim \in Nat /\ header \in Headers
      /\ body \in Nat /\ body = start + 7 /\ out.lim < U32Range
  BY HeaderSizeLemma DEF WriterInv, TypeOK, IsByteWriter, body, HeaderInv
<1>2. body' = body /\ HasHeader' = HasHeader /\ SameTag' = SameTag /\ Settled' = Settled
  BY DEF body, HasHeader, SameTag, Settled
<1>3. HeaderInFront'
  BY <1>2 DEF HeaderInv, HeaderInFront
<1>4. HeaderOnWire'
  <2> SUFFICES ASSUME HasHeader, SameTag PROVE Holds(out', start, HeaderBytes(header))
    BY <1>2 DEF HeaderOnWire
  <2>1. Holds(out, start, HeaderBytes(header))
    BY DEF HeaderInv, HeaderOnWire
  <2>2. HeaderBytes(header) \in Seq(Nat) /\ Len(HeaderBytes(header)) = 7
    BY <1>1, HeaderBytesLemma
  <2>3. start + Len(HeaderBytes(header)) <= body
    BY <1>1, <2>2
  <2> QED  BY <1>1, <2>1, <2>2, <2>3, BehindHolds
<1>5. SizeSettled'
  BY <1>2 DEF HeaderInv, SizeSettled
<1> QED  BY <1>1, <1>3, <1>4, <1>5 DEF HeaderInv

LEMMA WriteFieldHeader ==
  ASSUME WriterInv, HeaderInv, want \in Wants, WriteField
  PROVE  HeaderInv'
<1>1. Head(rest) \in Seq(Nat)
  BY DEF WriteField, WriterInv, TypeOK
<1>2. /\ pc = "fields" /\ pc' = pc /\ out' = Write(out, Head(rest))
      /\ start' = start /\ header' = header /\ partial' = partial
  BY DEF WriteField
<1>3. want'.tag = want.tag
  BY DEF WriteField, Wants
<1>4. IsByteWriter(out) /\ out'.lim = out.lim
  BY <1>1, <1>2, WriteLemma DEF WriterInv, TypeOK
<1>5. ASSUME HasHeader PROVE Behind(out, out', body) /\ body <= out'.pos
  <2>1. body \in Nat /\ body <= out.pos
    BY <1>2, <1>5, HeaderSizeLemma
    DEF HeaderInv, HeaderInFront, body, WriterInv, TypeOK, IsByteWriter
  <2> QED  BY <1>1, <1>2, <1>4, <2>1, SameBehind, WriteBehind
<1>6. ~Settled /\ pc # "new"
  BY <1>2 DEF Settled
<1> QED  BY <1>2, <1>3, <1>4, <1>5, <1>6, WritesKeepHeader

LEMMA FillViewHeader ==
  ASSUME WriterInv, HeaderInv, want \in Wants, NEW v \in Pieces, FillView(v)
  PROVE  HeaderInv'
<1>1. v \in Seq(Nat)
  BY InputsAssumption
<1>2. /\ pc = "partial" /\ pc' = pc /\ out' = MoveTo(Write(out, v), out.pos)
      /\ start' = start /\ header' = header /\ partial' = partial
  BY DEF FillView, Call
<1>3. want'.tag = want.tag
  BY DEF FillView, Wants
<1>4. IsByteWriter(out) /\ out.pos \in Nat /\ out.pos <= out.lim
  BY DEF WriterInv, TypeOK, IsByteWriter
<1>5. IsByteWriter(Write(out, v)) /\ Write(out, v).lim = out.lim
  BY <1>1, <1>4, WriteLemma
<1>6. out'.lim = out.lim /\ out'.pos = out.pos
  BY <1>2, <1>4, <1>5, MoveToLemma
<1>7. ASSUME HasHeader PROVE Behind(out, out', body) /\ body <= out'.pos
  <2>1. body \in Nat /\ body <= out.pos
    BY <1>2, <1>7, HeaderSizeLemma
    DEF HeaderInv, HeaderInFront, body, WriterInv, TypeOK, IsByteWriter
  <2>2. Behind(out, Write(out, v), body)
    BY <1>1, <1>4, <2>1, SameBehind, WriteBehind
  <2> QED  BY <1>2, <1>4, <1>6, <2>1, <2>2, MoveBehind
<1> QED  BY <1>2, <1>3, <1>6, <1>7, WritesKeepHeader

LEMMA FinishMessageHeader ==
  ASSUME WriterInv, HeaderInv, FinishMessage
  PROVE  HeaderInv'
<1>1. /\ pc = "fields" /\ pc' = "complete" /\ Settle(out) /\ want' = want
  BY DEF FinishMessage, FieldsWritten
<1>2. IsByteWriter(out) /\ start \in Nat /\ start <= out.pos /\ body \in Nat
  BY HeaderSizeLemma DEF WriterInv, TypeOK, IsByteWriter, body
<1>3. SettlesBehind(start)
  BY <1>1, <1>2, SameBehind DEF SettlesBehind
<1>4. ASSUME HasHeader PROVE SettlesBehind(body)
  <2>1. body <= out.pos
    BY <1>1, <1>4 DEF HeaderInv, HeaderInFront
  <2> QED  BY <1>1, <1>2, <2>1, SameBehind DEF SettlesBehind
<1> QED  BY <1>1, <1>3, <1>4, FinishMessageLemma, SettlesKeepsHeader

LEMMA BeginPartialHeader ==
  ASSUME WriterInv, HeaderInv, pc = "fields",
         NEW zero \in Seq(Nat), BeginPartial(zero)
  PROVE  HeaderInv'
<1>1. /\ pc' = "partial" /\ Settle(Write(out, zero)) /\ want' = want
      /\ partial' = [segmentsPos |-> out.pos, size |-> 0]
  BY DEF BeginPartial
<1>2. IsByteWriter(out) /\ start \in Nat /\ start <= out.pos /\ body \in Nat
  BY HeaderSizeLemma DEF WriterInv, TypeOK, IsByteWriter, body
<1>3. ASSUME NEW p \in Nat, p <= out.pos PROVE SettlesBehind(p)
  <2>1. Behind(out, Write(out, zero), p) /\ p <= Write(out, zero).pos
    BY <1>2, <1>3, SameBehind, WriteBehind
  <2> QED  BY <1>1, <2>1 DEF SettlesBehind
<1>4. HasHeader => body <= out.pos
  BY DEF HeaderInv, HeaderInFront
<1>5. SettlesBehind(start) /\ (HasHeader => SettlesBehind(body))
  BY <1>2, <1>3, <1>4
<1>6. HasHeader => body <= partial'.segmentsPos
  BY <1>1, <1>4
<1> QED  BY <1>1, <1>5, <1>6, BeginPartialLemma, SettlesKeepsHeader

LEMMA PartialCallHeader ==
  ASSUME WriterInv, HeaderInv, want \in Wants, PartialCall
  PROVE  HeaderInv'
<1>1. PICK parts : Call(parts)
  BY PartialCallState
<1>2. /\ pc = "partial" /\ pc' \in {"partial", "complete"}
      /\ partial'.segmentsPos = partial.segmentsPos
      /\ start \in Nat /\ start <= out.pos /\ start <= partial.segmentsPos
  BY <1>1, CallLemma, PartialCallState
<1>3. want'.tag = want.tag
  BY DEF PartialCall, segment, pathData, string, data, update, Wants
<1>4. SettlesBehind(start)
  BY <1>2, PartialCallBehind
<1>5. ASSUME HasHeader
      PROVE  SettlesBehind(body) /\ body <= partial'.segmentsPos
  <2>1. body <= out.pos /\ body <= partial.segmentsPos /\ body \in Nat
    BY <1>2, <1>5, HeaderSizeLemma DEF HeaderInv, HeaderInFront, body
  <2> QED  BY <1>2, <2>1, PartialCallBehind
<1> QED  BY <1>2, <1>3, <1>4, <1>5, PartialCallLemma, SettlesKeepsHeader

-----------------------------------------------------------------------------
(* What the caller asked for                                               *)

LEMMA NothingLemma ==
  ASSUME NEW t \in Nat
  PROVE  Nothing(t) \in Wants
BY DEF Nothing, Wants

LEMMA InitWant == Init => WantOK
<1> SUFFICES ASSUME Init PROVE WantOK
  OBVIOUS
<1>1. PICK t \in Tags : pc = "new" /\ want = Nothing(t)
  BY DEF Init
<1>2. t \in Nat
  BY InputsAssumption
<1> QED  BY <1>1, <1>2, NothingLemma DEF WantOK, Nothing

LEMMA StartWant ==
  ASSUME WriterInv, WantOK, NEW t \in Nat, pc' = "new", want' = Nothing(t)
  PROVE  WantOK'
BY NothingLemma DEF WantOK, Nothing

LEMMA messageTypeWant ==
  ASSUME WriterInv, WantOK, NEW m \in Messages, NEW t \in Nat, messageType(m, t)
  PROVE  WantOK'
<1>1. /\ pc = "new" /\ pc' = "fields" /\ header'.type = m.code
      /\ want' = [want EXCEPT !.msg = m, !.tag = t]
  BY DEF messageType
<1>2. want \in Wants
  BY DEF WantOK
<1>3. /\ want' \in Wants /\ want'.msg = m
      /\ want'.segs = want.segs /\ want'.path = want.path
      /\ want'.blob = want.blob /\ want'.view = want.view
  BY <1>1, <1>2 DEF Wants
<1> QED  BY <1>1, <1>3 DEF WantOK

LEMMA WriteFieldWant ==
  ASSUME WriterInv, WantOK, WriteField
  PROVE  WantOK'
<1>1. /\ pc = "fields" /\ pc' = "fields" /\ header' = header
      /\ want' = [want EXCEPT !.fixed = @ \o Head(rest)]
  BY DEF WriteField
<1>2. want \in Wants /\ want.fixed \in Seq(Nat)
  BY DEF WantOK, Wants
<1>3. want.fixed \o Head(rest) \in Seq(Nat)
  BY <1>2, ConcatLemma DEF WriteField, WriterInv, TypeOK
<1>4. /\ want' \in Wants /\ want'.msg = want.msg
      /\ want'.segs = want.segs /\ want'.path = want.path
      /\ want'.blob = want.blob /\ want'.view = want.view
  BY <1>1, <1>2, <1>3 DEF Wants
<1> QED  BY <1>1, <1>4 DEF WantOK

(* The end of the fields: nothing more is asked for by it.                 *)
LEMMA FieldsWant ==
  ASSUME WriterInv, WantOK, pc = "fields", want' = want,
         pc' \in {"partial", "complete"}, pc' = "partial" => want.msg.part # "whole",
         \E s : Settle(s)
  PROVE  WantOK'
<1>1. header'.type = header.type
  BY SettleTag DEF WriterInv, TypeOK
<1> QED  BY <1>1 DEF WantOK

(* A call asks for more of the path or of the data only.                   *)
LEMMA CallWant ==
  ASSUME WriterInv, WantOK, pc = "partial", pc' \in {"partial", "complete"},
         header'.type = header.type,
         want' \in Wants, want'.msg = want.msg,
         pc' = "partial" /\ want.msg.part = "pathdata" => want'.blob = want.blob,
         want.msg.part # "data" => want'.view = want.view
  PROVE  WantOK'
BY DEF WantOK

LEMMA PartialCallWant ==
  ASSUME WriterInv, WantOK, PartialCall \/ \E v \in Pieces : FillView(v)
  PROVE  WantOK'
<1>1. /\ want \in Wants /\ want.segs \in Seq(Seq(Nat)) /\ want.path \in Seq(Nat)
      /\ want.blob \in Seq(Nat) /\ want.view \in Seq(Nat)
      /\ header \in Headers /\ out.lim \in Nat
  BY DEF WantOK, Wants, WriterInv, TypeOK, IsByteWriter
<1>2. ASSUME NEW v \in Pieces, segment(v) PROVE WantOK'
  <2>1. v \in Seq(Nat) /\ Len(v) \in Nat
    BY InputsAssumption
  <2>2. Append(want.segs, v) \in Seq(Seq(Nat))
    BY <1>1, <2>1
  <2>3. want.path \o U16Bytes(Len(v)) \o v \in Seq(Nat)
    BY <1>1, <2>1, U16BytesLemma, ConcatLemma
  <2>4. want' = [want EXCEPT !.segs = Append(@, v), !.path = @ \o U16Bytes(Len(v)) \o v]
    BY <1>2 DEF segment
  <2>5. want' \in Wants /\ want'.msg = want.msg /\ want'.blob = want.blob /\ want'.view = want.view
    BY <1>1, <2>2, <2>3, <2>4 DEF Wants
  <2>6. header'.type = header.type
    BY <1>1, <1>2, SettleTag DEF segment
  <2> QED  BY <1>2, <2>5, <2>6, CallWant DEF segment, Call
<1>3. ASSUME NEW v \in Pieces, pathData(v) PROVE WantOK'
  <2>1. v \in Seq(Nat)
    BY InputsAssumption
  <2>2. want' = [want EXCEPT !.blob = v] /\ pc' = "complete" /\ pc = "partial"
    BY <1>3 DEF pathData, Call
  <2>3. want' \in Wants /\ want'.msg = want.msg /\ want'.view = want.view
    BY <1>1, <2>1, <2>2 DEF Wants
  <2>4. header'.type = header.type
    BY <1>1, <1>3, SettleTag DEF pathData
  <2> QED  BY <2>2, <2>3, <2>4, CallWant
<1>4. ASSUME NEW v \in Pieces, string(v) PROVE WantOK'
  <2>1. want.blob \o v \in Seq(Nat)
    BY <1>1, InputsAssumption, ConcatLemma
  <2>2. /\ want' = [want EXCEPT !.blob = @ \o v] /\ pc' = "partial" /\ pc = "partial"
        /\ want.msg.part = "string"
    BY <1>4 DEF string, Call
  <2>3. want' \in Wants /\ want'.msg = want.msg /\ want'.view = want.view
    BY <1>1, <2>1, <2>2 DEF Wants
  <2>4. header'.type = header.type
    BY <1>1, <1>4, SettleTag DEF string
  <2> QED  BY <2>2, <2>3, <2>4, CallWant
<1>5. ASSUME NEW v \in Pieces, data(v) PROVE WantOK'
  <2>1. want.blob \o v \in Seq(Nat) /\ <<>> \in Seq(Nat)
    BY <1>1, InputsAssumption, ConcatLemma
  <2>2. /\ want' = [want EXCEPT !.blob = @ \o v, !.view = <<>>]
        /\ pc' = "partial" /\ pc = "partial" /\ want.msg.part = "data"
    BY <1>5 DEF data, Call, SetDataSize
  <2>3. want' \in Wants /\ want'.msg = want.msg
    BY <1>1, <2>1, <2>2 DEF Wants
  <2>4. header'.type = header.type
    BY <1>1, <1>5, SettleTag DEF data, SetDataSize
  <2> QED  BY <2>2, <2>3, <2>4, CallWant
<1>6. ASSUME NEW v \in Pieces, FillView(v) PROVE WantOK'
  <2>1. v \in Seq(Nat)
    BY InputsAssumption
  <2>2. /\ want' = [want EXCEPT !.view = v] /\ header' = header
        /\ pc' = "partial" /\ pc = "partial" /\ want.msg.part = "data"
    BY <1>6 DEF FillView, Call
  <2>3. want' \in Wants /\ want'.msg = want.msg
    BY <1>1, <2>1, <2>2 DEF Wants
  <2> QED  BY <2>2, <2>3, CallWant
<1>7. ASSUME NEW n \in 0..out.lim, update(n) PROVE WantOK'
  <2> DEFINE given == want.blob \o want.view
             front == SubSeq(given, 1, n)
             back  == SubSeq(given, n + 1, Len(given))
  <2>0. given \in Seq(Nat)
    BY <1>1, ConcatLemma
  <2> HIDE DEF given
  <2>1. given \in Seq(Nat) /\ Len(given) \in Nat /\ n \in Nat
    BY <1>1, <1>7, <2>0
  <2>2. n <= Len(given) => front \in Seq(Nat) /\ back \in Seq(Nat)
    BY <2>1
  <2>3. /\ want' = IF n <= Len(given)
                   THEN [want EXCEPT !.blob = front, !.view = back] ELSE want
        /\ pc' = "partial" /\ pc = "partial" /\ want.msg.part = "data"
    BY <1>7 DEF update, Call, SetDataSize, given
  <2> HIDE DEF front, back
  <2>4. want' \in Wants /\ want'.msg = want.msg
    BY <1>1, <2>2, <2>3 DEF Wants
  <2>5. header'.type = header.type
    BY <1>1, <1>7, SettleTag DEF update, SetDataSize
  <2> QED  BY <2>3, <2>4, <2>5, CallWant
<1> QED  BY <1>2, <1>3, <1>4, <1>5, <1>6, <1>7 DEF PartialCall

LEMMA WantStep ==
  ASSUME WriterInv, WantOK, [Next]_vars
  PROVE  WantOK'
<1>0. header.tag \in Nat
  BY DEF WriterInv, TypeOK, Headers
<1>1. ASSUME NEW t \in Tags, NewWriter(t)  PROVE WantOK'
  BY <1>1, InputsAssumption, StartWant DEF NewWriter
<1>2. CASE ReuseWriter
  BY <1>0, <1>2, StartWant DEF ReuseWriter
<1>3. ASSUME NEW m \in Messages, StartMessage(m)  PROVE WantOK'
  BY <1>0, <1>3, messageTypeWant DEF StartMessage
<1>4. ASSUME NEW m \in Messages, NEW t \in ExplicitTags, messageType(m, t)
      PROVE  WantOK'
  BY <1>4, InputsAssumption, messageTypeWant
<1>5. CASE WriteField  BY <1>5, WriteFieldWant
<1>6. CASE FinishMessage
  BY <1>6, FieldsWant DEF FinishMessage, FieldsWritten
<1>7. CASE BeginPath \/ BeginPathData \/ BeginString \/ BeginData
  <2>1. pc = "fields" /\ want.msg.part # "whole"
    BY <1>7 DEF BeginPath, BeginPathData, BeginString, BeginData, FieldsWritten
  <2>2. \E zero : BeginPartial(zero)
    BY <1>7 DEF BeginPath, BeginPathData, BeginString, BeginData
  <2>3. pc' = "partial" /\ want' = want /\ \E s : Settle(s)
    BY <2>2 DEF BeginPartial
  <2> QED  BY <2>1, <2>3, FieldsWant
<1>8. CASE PartialCall \/ \E v \in Pieces : FillView(v)
  BY <1>8, PartialCallWant
<1>9. CASE UNCHANGED vars
  BY <1>9 DEF vars, WantOK
<1> QED
  BY <1>1, <1>2, <1>3, <1>4, <1>5, <1>6, <1>7, <1>8, <1>9 DEF Next, PartialCall

LEMMA HeaderStep ==
  ASSUME WriterInv, HeaderInv, WantOK, [Next]_vars
  PROVE  HeaderInv'
<1>0. header.tag \in Nat /\ want \in Wants
  BY DEF WriterInv, TypeOK, Headers, WantOK
<1>1. ASSUME NEW t \in Tags, NewWriter(t)  PROVE HeaderInv'
  BY <1>1, NewWriterHeader
<1>2. CASE ReuseWriter
  BY <1>2, ReuseWriterHeader
<1>3. ASSUME NEW m \in Messages, StartMessage(m)  PROVE HeaderInv'
  BY <1>0, <1>3, messageTypeHeader DEF StartMessage
<1>4. ASSUME NEW m \in Messages, NEW t \in ExplicitTags, messageType(m, t)
      PROVE  HeaderInv'
  BY <1>4, InputsAssumption, messageTypeHeader
<1>5. CASE WriteField  BY <1>0, <1>5, WriteFieldHeader
<1>6. CASE FinishMessage  BY <1>6, FinishMessageHeader
<1>7. CASE BeginPath \/ BeginPathData \/ BeginString
  BY <1>7, U16BytesLemma, BeginPartialHeader
  DEF BeginPath, BeginPathData, BeginString, FieldsWritten
<1>8. CASE BeginData
  BY <1>8, U32BytesLemma, BeginPartialHeader DEF BeginData, FieldsWritten
<1>9. CASE PartialCall  BY <1>0, <1>9, PartialCallHeader
<1>10. ASSUME NEW v \in Pieces, FillView(v)  PROVE HeaderInv'
  BY <1>0, <1>10, FillViewHeader
<1>11. CASE UNCHANGED vars
  BY <1>11
  DEF vars, HeaderInv, HeaderInFront, HeaderOnWire, SizeSettled, HasHeader, SameTag,
      Settled, body
<1> QED
  BY <1>1, <1>2, <1>3, <1>4, <1>5, <1>6, <1>7, <1>8, <1>9, <1>10, <1>11
  DEF Next, PartialCall

LEMMA HeaderInvAgrees ==
  ASSUME WriterInv, HeaderInv, SameTag
  PROVE  HeaderAgrees
<1> SUFFICES ASSUME Settled, out.pos - start >= headerSize
             PROVE  /\ header.messageSize = out.pos - start
                    /\ Slice(out, start, start + headerSize) = HeaderBytes(header)
  BY DEF HeaderAgrees
<1>1. /\ start \in Nat /\ out.pos \in Nat /\ out.lim \in Nat /\ out.pos <= out.lim
      /\ header \in Headers
  BY DEF WriterInv, TypeOK, IsByteWriter
<1>2. HasHeader /\ pc # "new"
  BY <1>1, HeaderSizeLemma DEF HasHeader, body, Settled
<1>3. header.messageSize = out.pos - start
  BY <1>2 DEF HeaderInv, SizeSettled
<1>4. Holds(out, start, HeaderBytes(header))
  BY <1>2 DEF HeaderInv, HeaderOnWire
<1>5. HeaderBytes(header) \in Seq(Nat) /\ Len(HeaderBytes(header)) = 7
  BY <1>1, HeaderBytesLemma
<1>6. Slice(out, start, start + Len(HeaderBytes(header))) = HeaderBytes(header)
  BY <1>1, <1>4, <1>5, HoldsSlice
<1> QED  BY <1>3, <1>5, <1>6, HeaderSizeLemma

(* The header in memory and the header on the wire agree and tell the size *)
(* of the message after every call, whatever was dropped, cut or patched,  *)
(* as long as the message has the tag of its writer: the early return of   *)
(* updateMessageSize never leaves a stale size.                            *)
THEOREM WriterHeaderAgrees == Spec => [](SameTag => HeaderAgrees)
<1> DEFINE I == WriterInv /\ WantOK /\ HeaderInv
<1>1. Init => I
  BY InitLemma, InitWant, InitHeader
<1>2. I /\ [Next]_vars => I'
  BY StepLemma, WantStep, HeaderStep
<1>3. I => (SameTag => HeaderAgrees)
  BY HeaderInvAgrees
<1> HIDE DEF I
<1> QED  BY <1>1, <1>2, <1>3, PTL DEF Spec

-----------------------------------------------------------------------------
(* The frame: header, fields, counts and data                              *)

LEMMA HeadersBody ==
  ASSUME WriterInv
  PROVE  /\ start \in Nat /\ body = start + 7 /\ body \in Nat /\ IsByteWriter(out)
         /\ out.pos \in Nat /\ out.lim \in Nat /\ out.pos <= out.lim /\ header \in Headers
BY HeaderSizeLemma DEF WriterInv, TypeOK, IsByteWriter, body

(* A payload that is complete in the stream when a call settles the header *)
(* is complete after the call, and so is everything else behind the header. *)
LEMMA SettlePayload ==
  ASSUME WriterInv, HeaderInv, NEW s, IsByteWriter(s), s.lim = out.lim, Settle(s),
         NEW a \in Seq(Nat), Holds(s, body, a), s.pos = body + Len(a)
  PROVE  /\ body' = body /\ out'.lim = out.lim /\ out'.pos = body + Len(a)
         /\ Holds(out', body, a)
         /\ \A q \in Nat, b \in Seq(Nat) : body <= q /\ Holds(s, q, b) => Holds(out', q, b)
<1>1. /\ start \in Nat /\ body = start + 7 /\ body \in Nat /\ out.lim \in Nat
      /\ out.lim < U32Range /\ TypeOK
  BY HeadersBody DEF HeaderInv, WriterInv
<1>2. body + Len(a) <= out.lim
  BY DEF Holds
<1>3. HasHeader /\ body <= s.pos
  BY <1>1, <1>2 DEF HasHeader
<1>4. /\ out'.lim = out.lim /\ out'.pos = s.pos
      /\ \A q \in Nat, b \in Seq(Nat) : body <= q /\ Holds(s, q, b) => Holds(out', q, b)
  BY <1>1, <1>3, SettleHeader
<1>5. body' = body
  BY DEF Settle, body
<1> QED  BY <1>1, <1>4, <1>5

LEMMA StartFrame ==
  ASSUME pc' = "new"
  PROVE  FrameInv'
BY DEF FrameInv, InPlace, FieldsInPlace, PayloadInPlace, ViewInPlace, CountInPlace, Settled

LEMMA messageTypeFrame ==
  ASSUME WriterInv, HeaderInv, WantOK, NEW m \in Messages, NEW t \in Nat, messageType(m, t)
  PROVE  FrameInv'
<1> SUFFICES ASSUME ~lost' PROVE FieldsInPlace'
  BY DEF messageType, FrameInv, InPlace, PayloadInPlace, ViewInPlace, CountInPlace, Settled
<1> DEFINE h == [messageSize |-> header.messageSize, type |-> m.code, tag |-> t]
<1>1. /\ start \in Nat /\ body = start + 7 /\ body \in Nat /\ IsByteWriter(out)
      /\ out.lim \in Nat /\ header \in Headers
  BY HeadersBody
<1>2. m.code \in Nat /\ header.messageSize \in Nat
  BY <1>1, MessagesAssumption DEF Headers
<1>3. h \in Headers
  BY <1>2 DEF Headers
<1>4. out.pos = start /\ want \in Wants /\ want.fixed = <<>>
  BY DEF messageType, HeaderInv, WantOK
<1>5. /\ out' = WriteHeader(out, h) /\ start' = start /\ Fits(out, headerSize)
      /\ want' = [want EXCEPT !.msg = m, !.tag = t]
  BY DEF messageType
<1> HIDE DEF h
<1>6. out.pos + 7 <= out.lim
  BY <1>5, HeaderSizeLemma DEF Fits
<1>7. out'.pos = body /\ out'.lim = out.lim /\ body' = body
  BY <1>1, <1>3, <1>4, <1>5, <1>6, WriteHeaderLemma DEF body
<1>8. want'.fixed = <<>>
  BY <1>4, <1>5 DEF Wants
<1>9. Holds(out', body, <<>>)
  BY <1>1, <1>4, <1>6, <1>7, HoldsNothing
<1> QED  BY <1>1, <1>7, <1>8, <1>9 DEF FieldsInPlace

LEMMA WriteFieldFrame ==
  ASSUME WriterInv, WantOK, FrameInv, WriteField
  PROVE  FrameInv'
<1> SUFFICES ASSUME ~lost' PROVE FieldsInPlace'
  BY DEF WriteField, FrameInv, InPlace, PayloadInPlace, ViewInPlace, CountInPlace, Settled
<1> DEFINE f == want.fixed
           b == Head(rest)
<1>1. body \in Nat /\ IsByteWriter(out)
  BY HeadersBody
<1>2. f \in Seq(Nat) /\ b \in Seq(Nat) /\ want \in Wants
  BY DEF WriteField, WriterInv, TypeOK, WantOK, Wants
<1>3. /\ ~lost /\ Fits(out, Len(b)) /\ pc = "fields" /\ out' = Write(out, b)
      /\ start' = start /\ want' = [want EXCEPT !.fixed = f \o b]
  BY DEF WriteField
<1>4. Holds(out, body, f) /\ out.pos = body + Len(f)
  BY <1>3 DEF FrameInv, InPlace, FieldsInPlace
<1>5. want'.fixed = f \o b /\ body' = body
  BY <1>2, <1>3 DEF Wants, body
<1> HIDE DEF f, b
<1>6. Holds(Write(out, b), body, f \o b) /\ Write(out, b).pos = body + Len(f \o b)
  BY <1>1, <1>2, <1>3, <1>4, WriteOn
<1>7. Holds(out', body', want'.fixed) /\ out'.pos = body' + Len(want'.fixed)
  BY <1>3, <1>5, <1>6, Zenon
<1> QED  BY <1>7 DEF FieldsInPlace

LEMMA FinishMessageFrame ==
  ASSUME WriterInv, HeaderInv, WantOK, FrameInv, FinishMessage
  PROVE  FrameInv'
<1> SUFFICES ASSUME ~lost' PROVE PayloadInPlace'
  BY DEF FinishMessage, FrameInv, InPlace, FieldsInPlace, ViewInPlace, CountInPlace
<1>1. /\ ~lost /\ pc = "fields" /\ want.msg.part = "whole" /\ Settle(out) /\ want' = want
  BY DEF FinishMessage, FieldsWritten
<1>2. Holds(out, body, want.fixed) /\ out.pos = body + Len(want.fixed)
  BY <1>1 DEF FrameInv, InPlace, FieldsInPlace
<1>3. want.fixed \in Seq(Nat) /\ IsByteWriter(out) /\ start \in Nat
  BY HeadersBody DEF WantOK, Wants
<1>4. body' = body /\ out'.pos = body + Len(want.fixed) /\ Holds(out', body, want.fixed)
  BY <1>1, <1>2, <1>3, SettlePayload
<1>5. Payload(want)' = want.fixed
  BY <1>1 DEF Payload
<1> QED  BY <1>4, <1>5 DEF PayloadInPlace

(* A call of a partial writer, from the stream s it leaves to be settled   *)
LEMMA PartialFrame ==
  ASSUME WriterInv, HeaderInv, NEW s, IsByteWriter(s), s.lim = out.lim, Settle(s),
         NEW a \in Seq(Nat), Holds(s, body, a), s.pos = body + Len(a),
         pc' \in {"partial", "complete"}, Payload(want)' = a,
         pc' = "partial" =>
           /\ want'.view \in Seq(Nat) /\ Holds(s, s.pos, want'.view)
           /\ partial'.segmentsPos = body + Len(want'.fixed)
           /\ partial'.size = Counted(want)'
  PROVE  FrameInv'
<1>1. /\ body' = body /\ out'.pos = body + Len(a)
      /\ Holds(out', body, a)
      /\ \A q \in Nat, b \in Seq(Nat) : body <= q /\ Holds(s, q, b) => Holds(out', q, b)
  BY SettlePayload
<1>2. body \in Nat
  BY HeadersBody
<1>3. FieldsInPlace'
  BY DEF FieldsInPlace
<1>4. PayloadInPlace'
  BY <1>1 DEF PayloadInPlace
<1>5. ViewInPlace'
  <2> SUFFICES ASSUME pc' = "partial" PROVE Holds(out', out'.pos, want'.view)
    BY DEF ViewInPlace
  <2>1. s.pos \in Nat /\ body <= s.pos
    BY <1>2
  <2> QED  BY <1>1, <2>1
<1>6. CountInPlace'
  BY <1>1 DEF CountInPlace
<1> QED  BY <1>3, <1>4, <1>5, <1>6 DEF FrameInv, InPlace

LEMMA EmptyConcat ==
  ASSUME NEW a \in Seq(Nat)
  PROVE  a \o <<>> = a
OBVIOUS

(* The payload when the count has just been written                        *)
LEMMA BeginPayload ==
  ASSUME NEW w \in Wants, w.segs = <<>>, w.path = <<>>, w.blob = <<>>, pc' = "partial",
         want' = w
  PROVE  /\ w.msg.part \in {"path", "pathdata", "string"} =>
              Payload(want)' = w.fixed \o U16Bytes(0)
         /\ w.msg.part = "data" => Payload(want)' = w.fixed \o U32Bytes(0)
<1> DEFINE f == w.fixed
           u == U16Bytes(0)
           v == U32Bytes(0)
<1>1. f \in Seq(Nat) /\ u \in Seq(Nat) /\ v \in Seq(Nat) /\ Len(<<>>) = 0
  BY U16BytesLemma, U32BytesLemma DEF Wants
<1> HIDE DEF f, u, v
<1>2. f \o u \in Seq(Nat) /\ f \o v \in Seq(Nat)
  BY <1>1, ConcatLemma
<1>3. (f \o u) \o <<>> = f \o u /\ (f \o v) \o <<>> = f \o v
  BY <1>2, EmptyConcat
<1>4. ((f \o u) \o <<>>) \o <<>> = f \o u
  BY <1>3
<1>5. CASE w.msg.part = "path"
  <2>1. Payload(want)' = (f \o u) \o <<>>
    BY <1>1, <1>5 DEF Payload, f, u
  <2> QED  BY <1>3, <1>5, <2>1 DEF f, u
<1>6. CASE w.msg.part = "pathdata"
  <2>1. Payload(want)' = ((f \o u) \o <<>>) \o <<>>
    BY <1>1, <1>6 DEF Payload, f, u
  <2> QED  BY <1>4, <1>6, <2>1 DEF f, u
<1>7. CASE w.msg.part = "string"
  <2>1. Payload(want)' = (f \o u) \o <<>>
    BY <1>1, <1>7 DEF Payload, f, u
  <2> QED  BY <1>3, <1>7, <2>1 DEF f, u
<1>8. CASE w.msg.part = "data"
  <2>1. Payload(want)' = (f \o v) \o <<>>
    BY <1>1, <1>8 DEF Payload, f, v
  <2> QED  BY <1>3, <1>8, <2>1 DEF f, v
<1> QED  BY <1>5, <1>6, <1>7, <1>8

LEMMA BeginPartialFrame ==
  ASSUME WriterInv, HeaderInv, WantOK, FrameInv, pc = "fields",
         NEW zero \in Seq(Nat), BeginPartial(zero),
         \/ zero = U16Bytes(0) /\ want.msg.part \in {"path", "pathdata", "string"}
         \/ zero = U32Bytes(0) /\ want.msg.part = "data"
  PROVE  FrameInv'
<1> SUFFICES ASSUME ~lost' PROVE FrameInv'
  BY DEF FrameInv
<1> DEFINE s == Write(out, zero)
           f == want.fixed
<1>1. /\ Settle(s) /\ pc' = "partial" /\ want' = want /\ ~lost /\ Fits(out, Len(zero))
      /\ partial' = [segmentsPos |-> out.pos, size |-> 0]
  BY DEF BeginPartial
<1>2. Holds(out, body, f) /\ out.pos = body + Len(f)
  BY <1>1 DEF FrameInv, InPlace, FieldsInPlace
<1>3. /\ want \in Wants /\ f \in Seq(Nat)
      /\ want.segs = <<>> /\ want.path = <<>> /\ want.blob = <<>> /\ want.view = <<>>
  BY DEF WantOK, Wants
<1>4. start \in Nat /\ body \in Nat /\ IsByteWriter(out) /\ start <= out.pos
  BY HeadersBody DEF WriterInv, TypeOK
<1>5. /\ IsByteWriter(s) /\ s.lim = out.lim /\ Holds(s, body, f \o zero)
      /\ s.pos = body + Len(f \o zero)
  BY <1>1, <1>2, <1>3, <1>4, WriteOn
<1>7. Payload(want)' = f \o zero
  BY <1>1, <1>3, BeginPayload
<1>8. f \o zero \in Seq(Nat)
  BY <1>3, ConcatLemma
<1>9. Counted(want)' = 0
  <2>1. Len(<<>>) = 0 /\ 0 % U16Range = 0
    BY RangeLemma
  <2> QED  BY <1>1, <1>3, <2>1 DEF Counted
<1>10. want'.view = <<>> /\ <<>> \in Seq(Nat) /\ Holds(s, s.pos, <<>>)
  <2>1. s.pos \in Nat /\ s.pos <= s.lim
    BY <1>5 DEF IsByteWriter
  <2> QED  BY <1>1, <1>3, <2>1, HoldsNothing
<1>11. /\ partial'.segmentsPos = body + Len(want'.fixed)
       /\ partial'.size = Counted(want)'
  BY <1>1, <1>2, <1>9
<1> HIDE DEF s, f
<1> QED  BY <1>1, <1>5, <1>7, <1>8, <1>10, <1>11, PartialFrame

(* FillView: the data the caller stores lies behind the payload.           *)
LEMMA FillViewFrame ==
  ASSUME WriterInv, WantOK, FrameInv, NEW v \in Pieces, FillView(v)
  PROVE  FrameInv'
<1> DEFINE s == Write(out, v)
           a == Payload(want)
<1>1. /\ pc = "partial" /\ pc' = "partial" /\ ~lost /\ Fits(out, Len(v))
      /\ out' = MoveTo(s, out.pos) /\ want' = [want EXCEPT !.view = v]
      /\ start' = start /\ partial' = partial /\ want.msg.part = "data"
  BY DEF FillView, Call
<1>2. v \in Seq(Nat) /\ want \in Wants
  BY InputsAssumption DEF WantOK
<1>3. want'.view = v /\ want'.fixed = want.fixed /\ want'.blob = want.blob /\ want'.msg = want.msg
  BY <1>1, <1>2 DEF Wants
<1>4. Payload(want)' = a /\ Counted(want)' = Counted(want) /\ body' = body
  <2>1. a = want.fixed \o U32Bytes(Len(want.blob)) \o want.blob
    BY <1>1 DEF Payload
  <2>2. Payload(want)' = want'.fixed \o U32Bytes(Len(want'.blob)) \o want'.blob
    BY <1>1, <1>3 DEF Payload
  <2>3. Counted(want)' = Counted(want)
    BY <1>1, <1>3 DEF Counted
  <2>4. body' = body
    BY <1>1 DEF body
  <2> HIDE DEF a
  <2> QED  BY <1>3, <2>1, <2>2, <2>3, <2>4, Zenon
<1>5. /\ Holds(out, body, a) /\ out.pos = body + Len(a)
      /\ partial.segmentsPos = body + Len(want.fixed) /\ partial.size = Counted(want)
  BY <1>1 DEF FrameInv, InPlace, PayloadInPlace, CountInPlace, Settled
<1>6. body \in Nat /\ IsByteWriter(out) /\ out.pos \in Nat /\ out.lim \in Nat /\ out.pos <= out.lim
  BY HeadersBody
<1>7. a \in Seq(Nat)
  <2>1. /\ want.fixed \in Seq(Nat) /\ want.blob \in Seq(Nat) /\ Len(want.blob) \in Nat
        /\ U32Bytes(Len(want.blob)) \in Seq(Nat)
    BY <1>2, U32BytesLemma DEF Wants
  <2>2. a = want.fixed \o U32Bytes(Len(want.blob)) \o want.blob
    BY <1>1 DEF Payload
  <2> HIDE DEF a
  <2> QED  BY <2>1, <2>2, ConcatLemma
<1> HIDE DEF a
<1>8. /\ IsByteWriter(s) /\ s.lim = out.lim /\ Holds(s, out.pos, v) /\ Holds(s, body, a)
  <2>1. out.pos + Len(v) <= out.lim /\ body + Len(a) <= out.pos
    BY <1>1, <1>5, <1>6 DEF Fits
  <2> QED  BY <1>2, <1>5, <1>6, <1>7, <2>1, WriteFits
<1> HIDE DEF s
<1>9. /\ Holds(out', out.pos, v) /\ Holds(out', body, a) /\ out'.pos = out.pos
  <2>1. Holds(out', out.pos, v) /\ Holds(out', body, a)
    BY <1>1, <1>6, <1>8, HoldsMoved
  <2>2. out'.pos = out.pos
    BY <1>1, <1>6, <1>8, MoveToLemma
  <2> QED  BY <2>1, <2>2
<1> QED
  BY <1>1, <1>3, <1>4, <1>5, <1>9
  DEF FrameInv, InPlace, FieldsInPlace, PayloadInPlace, ViewInPlace, CountInPlace

(* The payload of an unfinished message: fields, count, and what follows   *)
LEMMA OpenPayload ==
  ASSUME NEW w \in Wants, want = w, pc = "partial"
  PROVE  /\ w.msg.part \in {"path", "pathdata"} =>
              Payload(want) = w.fixed \o U16Bytes(Len(w.segs)) \o w.path
         /\ w.msg.part = "string" =>
              Payload(want) = w.fixed \o U16Bytes(Len(w.blob)) \o w.blob
         /\ w.msg.part = "data" =>
              Payload(want) = w.fixed \o U32Bytes(Len(w.blob)) \o w.blob
<1> DEFINE a == w.fixed \o U16Bytes(Len(w.segs)) \o w.path
<1>1. a \in Seq(Nat)
  <2>1. w.fixed \in Seq(Nat) /\ w.path \in Seq(Nat) /\ U16Bytes(Len(w.segs)) \in Seq(Nat)
    BY U16BytesLemma DEF Wants
  <2> QED  BY <2>1, ConcatLemma
<1>2. CASE w.msg.part = "pathdata"
  <2>1. Payload(want) = a \o <<>>
    BY <1>2 DEF Payload
  <2> HIDE DEF a
  <2>2. Payload(want) = a
    BY <1>1, <2>1, EmptyConcat
  <2> QED  BY <1>2, <2>2 DEF a
<1>3. CASE w.msg.part # "pathdata"
  BY <1>3 DEF Payload
<1> QED  BY <1>2, <1>3

LEMMA OpenPayloadNext ==
  ASSUME NEW w \in Wants, want' = w, pc' = "partial"
  PROVE  /\ w.msg.part \in {"path", "pathdata"} =>
              Payload(want)' = w.fixed \o U16Bytes(Len(w.segs)) \o w.path
         /\ w.msg.part = "string" =>
              Payload(want)' = w.fixed \o U16Bytes(Len(w.blob)) \o w.blob
         /\ w.msg.part = "data" =>
              Payload(want)' = w.fixed \o U32Bytes(Len(w.blob)) \o w.blob
<1> DEFINE a == w.fixed \o U16Bytes(Len(w.segs)) \o w.path
<1>1. a \in Seq(Nat)
  <2>1. w.fixed \in Seq(Nat) /\ w.path \in Seq(Nat) /\ U16Bytes(Len(w.segs)) \in Seq(Nat)
    BY U16BytesLemma DEF Wants
  <2> QED  BY <2>1, ConcatLemma
<1>2. CASE w.msg.part = "pathdata"
  <2>1. Payload(want)' = a \o <<>>
    BY <1>2 DEF Payload
  <2> HIDE DEF a
  <2>2. Payload(want)' = a
    BY <1>1, <2>1, EmptyConcat
  <2> QED  BY <1>2, <2>2 DEF a
<1>3. CASE w.msg.part # "pathdata"
  BY <1>3 DEF Payload
<1> QED  BY <1>2, <1>3

(* What a call finds while nothing was dropped: the payload so far in the  *)
(* stream, the stream at its end, and the position of the count.           *)
LEMMA OpenFrame ==
  ASSUME WriterInv, WantOK, FrameInv, NEW parts, Call(parts), ~lost
  PROVE  /\ want \in Wants /\ want.msg.part \in parts
         /\ want.fixed \in Seq(Nat) /\ want.segs \in Seq(Seq(Nat)) /\ want.path \in Seq(Nat)
         /\ want.blob \in Seq(Nat) /\ want.view \in Seq(Nat)
         /\ Holds(out, body, Payload(want)) /\ out.pos = body + Len(Payload(want))
         /\ Holds(out, out.pos, want.view)
         /\ partial.segmentsPos = body + Len(want.fixed)
         /\ partial.size = Counted(want)
<1>1. pc = "partial" /\ want.msg.part \in parts
  BY DEF Call
<1> QED
  BY <1>1
  DEF WantOK, Wants, FrameInv, InPlace, PayloadInPlace, ViewInPlace, CountInPlace, Settled

(* Patching a count leaves the stream at the end of the payload.           *)
LEMMA PatchCount ==
  ASSUME NEW s, IsByteWriter(s), NEW p \in Nat,
         NEW a \in Seq(Nat), NEW b \in Seq(Nat), NEW c \in Seq(Nat),
         Holds(s, p, (a \o b) \o c), NEW d \in Seq(Nat), Len(d) = Len(b),
         NEW r, r = Patch(s, p + Len(a), d)
  PROVE  /\ IsByteWriter(r) /\ r.lim = s.lim /\ r.pos = s.pos
         /\ Holds(r, p, (a \o d) \o c)
<1> DEFINE t == Write(MoveTo(s, p + Len(a)), d)
<1> HIDE DEF t
<1>1. IsByteWriter(t) /\ t.lim = s.lim /\ Holds(t, p, (a \o d) \o c)
  BY WriteOver DEF t
<1>2. s.pos \in Nat /\ s.pos <= s.lim
  BY DEF IsByteWriter
<1>3. Holds(MoveTo(t, s.pos), p, (a \o d) \o c)
  BY <1>1, <1>2, HoldsMoved, Zenon
<1>4. /\ IsByteWriter(MoveTo(t, s.pos)) /\ MoveTo(t, s.pos).lim = t.lim
      /\ MoveTo(t, s.pos).pos = s.pos
  BY <1>1, <1>2, MoveToLemma
<1>5. r = MoveTo(t, s.pos)
  BY DEF Patch, t
<1> QED  BY <1>1, <1>3, <1>4, <1>5, Zenon

(* The lengths are the same whichever way a payload is put together.       *)
LEMMA SameLength ==
  ASSUME NEW a \in Seq(Nat), NEW b \in Seq(Nat), NEW c \in Seq(Nat), NEW d \in Seq(Nat),
         Len(d) = Len(b)
  PROVE  Len((a \o d) \o c) = Len((a \o b) \o c)
<1>1. /\ a \o b \in Seq(Nat) /\ Len(a \o b) = Len(a) + Len(b)
      /\ a \o d \in Seq(Nat) /\ Len(a \o d) = Len(a) + Len(d)
  BY ConcatLemma, Zenon
<1>2. /\ Len((a \o b) \o c) = Len(a \o b) + Len(c)
      /\ Len((a \o d) \o c) = Len(a \o d) + Len(c)
  BY <1>1, ConcatLemma, Zenon
<1> QED  BY <1>1, <1>2, Zenon

(* A uint16 counter, reduced after every call, goes out as the number of   *)
(* bytes or segments there really are.                                     *)
LEMMA CounterLemma ==
  ASSUME NEW k \in Nat, NEW l \in Nat
  PROVE  /\ ((k % U16Range) + l) % U16Range = (k + l) % U16Range
         /\ U16Bytes(((k % U16Range) + l) % U16Range) = U16Bytes(k + l)
<1>1. U16Range \in Nat \ {0} /\ k + l \in Nat
  BY RangeLemma
<1>2. ((k % U16Range) + l) % U16Range = (k + l) % U16Range
  BY <1>1, ModAddLemma
<1>3. U16Bytes((k + l) % U16Range) = U16Bytes(k + l)
  BY <1>1, U16BytesMod
<1> QED  BY <1>2, <1>3

LEMMA segmentFrame ==
  ASSUME WriterInv, HeaderInv, WantOK, FrameInv, NEW v \in Pieces, segment(v), WantOK'
  PROVE  FrameInv'
<1> SUFFICES ASSUME ~lost' PROVE FrameInv'
  BY DEF FrameInv
<1> DEFINE f == want.fixed
           k == Len(want.segs)
           r == want.path
           c == U16Bytes(k)
           d == U16Bytes(k + 1)
           u == U16Bytes(Len(v))
           n == (partial.size + 1) % U16Range
           counted == Patch(out, partial.segmentsPos, U16Bytes(n))
           sized   == Write(counted, u)
           s       == Write(sized, v)
<1>1. /\ Call({"path", "pathdata"}) /\ pc = "partial" /\ pc' = "partial" /\ ~lost
      /\ Fits(counted, 2) /\ Fits(sized, Len(v)) /\ Settle(s)
      /\ partial' = [segmentsPos |-> partial.segmentsPos, size |-> n]
      /\ want' = [want EXCEPT !.segs = Append(want.segs, v), !.path = (r \o u) \o v]
  BY DEF segment, Call
<1>2. v \in Seq(Nat) /\ Len(v) \in Nat
  BY InputsAssumption
<1>3. /\ want \in Wants /\ want.msg.part \in {"path", "pathdata"}
      /\ f \in Seq(Nat) /\ want.segs \in Seq(Seq(Nat)) /\ r \in Seq(Nat)
      /\ Holds(out, body, Payload(want)) /\ out.pos = body + Len(Payload(want))
      /\ partial.segmentsPos = body + Len(f) /\ partial.size = Counted(want)
  BY <1>1, OpenFrame
<1>4. k \in Nat /\ partial.size = k % U16Range
  BY <1>3 DEF Counted
<1>5. n = (k + 1) % U16Range /\ U16Bytes(n) = d
  BY <1>4, CounterLemma
<1>6. /\ c \in Seq(Nat) /\ Len(c) = 2 /\ d \in Seq(Nat) /\ Len(d) = 2
      /\ u \in Seq(Nat) /\ Len(u) = 2
  BY <1>2, <1>4, U16BytesLemma
<1>7. Payload(want) = (f \o c) \o r
  BY <1>1, <1>3, OpenPayload
<1>8. body \in Nat /\ IsByteWriter(out)
  BY HeadersBody
<1>9. /\ want' \in Wants /\ want'.msg = want.msg /\ want'.fixed = f
      /\ want'.segs = Append(want.segs, v) /\ want'.path = (r \o u) \o v
      /\ want'.view = want.view
  BY <1>1, <1>3 DEF WantOK, Wants
<1>10. Len(want'.segs) = k + 1
  BY <1>3, <1>9
<1>11. want.view = <<>>
  BY <1>1, <1>3 DEF WantOK
<1>12. Payload(want)' = (f \o d) \o ((r \o u) \o v)
  <2>1. Payload(want)' = want'.fixed \o U16Bytes(Len(want'.segs)) \o want'.path
    BY <1>1, <1>3, <1>9, OpenPayloadNext
  <2> QED  BY <1>9, <1>10, <2>1, Zenon
<1>13. Counted(want)' = n
  BY <1>3, <1>5, <1>9, <1>10 DEF Counted
<1> HIDE DEF f, k, r, c, d, u, n, counted, sized, s
<1>14. /\ IsByteWriter(counted) /\ counted.lim = out.lim /\ counted.pos = out.pos
       /\ Holds(counted, body, (f \o d) \o r)
  <2>1. counted = Patch(out, body + Len(f), d)
    BY <1>3, <1>5 DEF counted, f
  <2>2. Holds(out, body, (f \o c) \o r) /\ Len(d) = Len(c)
    BY <1>3, <1>6, <1>7
  <2>3. f \in Seq(Nat) /\ c \in Seq(Nat) /\ r \in Seq(Nat) /\ d \in Seq(Nat)
    BY <1>3, <1>6
  <2> QED  BY <1>8, <2>1, <2>2, <2>3, PatchCount
<1>15. counted.pos = body + Len((f \o d) \o r)
  <2>1. out.pos = body + Len((f \o c) \o r)
    BY <1>3, <1>7
  <2>2. f \in Seq(Nat) /\ c \in Seq(Nat) /\ r \in Seq(Nat) /\ d \in Seq(Nat) /\ Len(d) = Len(c)
    BY <1>3, <1>6
  <2>3. Len((f \o d) \o r) = Len((f \o c) \o r)
    BY <2>2, SameLength
  <2> QED  BY <1>14, <2>1, <2>3
<1>16. f \o d \in Seq(Nat) /\ (f \o d) \o r \in Seq(Nat)
  <2>1. f \in Seq(Nat) /\ d \in Seq(Nat) /\ r \in Seq(Nat)
    BY <1>3, <1>6
  <2> QED  BY <2>1, ConcatLemma
<1>17. /\ IsByteWriter(sized) /\ sized.lim = out.lim
       /\ Holds(sized, body, ((f \o d) \o r) \o u)
       /\ sized.pos = body + Len(((f \o d) \o r) \o u)
  <2>1. u \in Seq(Nat) /\ Fits(counted, Len(u))
    BY <1>1, <1>6
  <2> QED  BY <1>8, <1>14, <1>15, <1>16, <2>1, WriteOn DEF sized
<1>18. ((f \o d) \o r) \o u \in Seq(Nat) /\ u \in Seq(Nat)
  <2>1. u \in Seq(Nat)
    BY <1>6
  <2> QED  BY <1>16, <2>1, ConcatLemma
<1>19. /\ IsByteWriter(s) /\ s.lim = out.lim
       /\ Holds(s, body, (((f \o d) \o r) \o u) \o v)
       /\ s.pos = body + Len((((f \o d) \o r) \o u) \o v)
  BY <1>1, <1>2, <1>8, <1>17, <1>18, WriteOn DEF s
<1>20. (((f \o d) \o r) \o u) \o v = (f \o d) \o ((r \o u) \o v)
  <2>1. r \in Seq(Nat) /\ r \o u \in Seq(Nat)
    BY <1>3, <1>18, ConcatLemma
  <2>2. ((f \o d) \o r) \o u = (f \o d) \o (r \o u)
    BY <1>16, <1>18, <2>1, ConcatAssociates
  <2>3. ((f \o d) \o (r \o u)) \o v = (f \o d) \o ((r \o u) \o v)
    BY <1>2, <1>16, <2>1, ConcatAssociates
  <2> QED  BY <2>2, <2>3
<1> DEFINE a == (((f \o d) \o r) \o u) \o v
<1>21. a \in Seq(Nat)
  BY <1>2, <1>18, ConcatLemma
<1>22. Payload(want)' = a
  BY <1>12, <1>20
<1> HIDE DEF a
<1>23. Holds(s, body, a) /\ s.pos = body + Len(a)
  BY <1>19 DEF a
<1>24. want'.view = <<>> /\ Holds(s, s.pos, <<>>) /\ <<>> \in Seq(Nat)
  <2>1. s.pos \in Nat /\ s.pos <= s.lim
    BY <1>19 DEF IsByteWriter
  <2> QED  BY <1>9, <1>11, <2>1, HoldsNothing
<1>25. partial'.segmentsPos = body + Len(want'.fixed) /\ partial'.size = Counted(want)'
  BY <1>1, <1>3, <1>9, <1>13
<1> QED  BY <1>1, <1>19, <1>21, <1>22, <1>23, <1>24, <1>25, PartialFrame

LEMMA pathDataFrame ==
  ASSUME WriterInv, HeaderInv, WantOK, FrameInv, NEW v \in Pieces, pathData(v), WantOK'
  PROVE  FrameInv'
<1> SUFFICES ASSUME ~lost' PROVE FrameInv'
  BY DEF FrameInv
<1> DEFINE f == want.fixed
           c == U16Bytes(Len(want.segs))
           r == want.path
           u == U32Bytes(Len(v))
           b == Payload(want)
           sized == Write(out, u)
           s     == Write(sized, v)
<1>1. /\ Call({"pathdata"}) /\ pc = "partial" /\ pc' = "complete" /\ ~lost
      /\ Fits(out, 4) /\ Fits(sized, Len(v)) /\ Settle(s)
      /\ want' = [want EXCEPT !.blob = v]
  BY DEF pathData, Call
<1>2. v \in Seq(Nat) /\ Len(v) \in Nat
  BY InputsAssumption
<1>3. /\ want \in Wants /\ want.msg.part = "pathdata"
      /\ f \in Seq(Nat) /\ want.segs \in Seq(Seq(Nat)) /\ r \in Seq(Nat)
      /\ Holds(out, body, b) /\ out.pos = body + Len(b)
  BY <1>1, OpenFrame
<1>4. c \in Seq(Nat) /\ u \in Seq(Nat) /\ Len(u) = 4
  BY <1>2, <1>3, U16BytesLemma, U32BytesLemma
<1>5. b = (f \o c) \o r
  BY <1>1, <1>3, OpenPayload
<1>6. body \in Nat /\ IsByteWriter(out)
  BY HeadersBody
<1>7. /\ want'.msg = want.msg /\ want'.fixed = f /\ want'.blob = v
      /\ want'.segs = want.segs /\ want'.path = r
  BY <1>1, <1>3 DEF Wants
<1>8. Payload(want)' = want'.fixed \o U16Bytes(Len(want'.segs)) \o want'.path
                         \o (U32Bytes(Len(want'.blob)) \o want'.blob)
  BY <1>1, <1>3, <1>7 DEF Payload
<1>9. Payload(want)' = ((f \o c) \o r) \o (u \o v)
  BY <1>7, <1>8, Zenon
<1> HIDE DEF f, c, r, u, b, sized, s
<1>10. b \in Seq(Nat)
  <2>1. f \in Seq(Nat) /\ c \in Seq(Nat) /\ r \in Seq(Nat)
    BY <1>3, <1>4
  <2> QED  BY <1>5, <2>1, ConcatLemma
<1>11. u \in Seq(Nat) /\ Fits(out, Len(u))
  BY <1>1, <1>4
<1>12. /\ IsByteWriter(sized) /\ sized.lim = out.lim
       /\ Holds(sized, body, b \o u) /\ sized.pos = body + Len(b \o u)
  BY <1>3, <1>6, <1>10, <1>11, WriteOn DEF sized
<1>13. b \o u \in Seq(Nat)
  BY <1>10, <1>11, ConcatLemma
<1>14. /\ IsByteWriter(s) /\ s.lim = out.lim
       /\ Holds(s, body, (b \o u) \o v) /\ s.pos = body + Len((b \o u) \o v)
  BY <1>1, <1>2, <1>6, <1>12, <1>13, WriteOn DEF s
<1>15. (b \o u) \o v = b \o (u \o v)
  BY <1>2, <1>10, <1>11, ConcatAssociates
<1> DEFINE a == (b \o u) \o v
<1>16. a \in Seq(Nat)
  BY <1>2, <1>13, ConcatLemma
<1>17. Payload(want)' = a
  BY <1>5, <1>9, <1>15, Zenon
<1> HIDE DEF a
<1>18. Holds(s, body, a) /\ s.pos = body + Len(a)
  BY <1>14 DEF a
<1> QED  BY <1>1, <1>14, <1>16, <1>17, <1>18, PartialFrame

LEMMA stringFrame ==
  ASSUME WriterInv, HeaderInv, WantOK, FrameInv, NEW v \in Pieces, string(v), WantOK'
  PROVE  FrameInv'
<1> SUFFICES ASSUME ~lost' PROVE FrameInv'
  BY DEF FrameInv
<1> DEFINE f == want.fixed
           r == want.blob
           k == Len(r)
           c == U16Bytes(k)
           d == U16Bytes(k + Len(v))
           n == (partial.size + Len(v)) % U16Range
           wrote == Write(out, v)
           s     == Patch(wrote, partial.segmentsPos, U16Bytes(n))
<1>1. /\ Call({"string"}) /\ pc = "partial" /\ pc' = "partial" /\ ~lost
      /\ Fits(out, Len(v)) /\ Settle(s)
      /\ partial' = [segmentsPos |-> partial.segmentsPos, size |-> n]
      /\ want' = [want EXCEPT !.blob = r \o v]
  BY DEF string, Call
<1>2. v \in Seq(Nat) /\ Len(v) \in Nat
  BY InputsAssumption
<1>3. /\ want \in Wants /\ want.msg.part = "string"
      /\ f \in Seq(Nat) /\ r \in Seq(Nat)
      /\ Holds(out, body, Payload(want)) /\ out.pos = body + Len(Payload(want))
      /\ partial.segmentsPos = body + Len(f) /\ partial.size = Counted(want)
  BY <1>1, OpenFrame
<1>4. k \in Nat /\ partial.size = k % U16Range
  BY <1>3 DEF Counted
<1>5. n = (k + Len(v)) % U16Range /\ U16Bytes(n) = d
  BY <1>2, <1>4, CounterLemma
<1>6. c \in Seq(Nat) /\ Len(c) = 2 /\ d \in Seq(Nat) /\ Len(d) = 2
  BY <1>2, <1>4, U16BytesLemma
<1>7. Payload(want) = (f \o c) \o r
  BY <1>1, <1>3, OpenPayload
<1>8. body \in Nat /\ IsByteWriter(out)
  BY HeadersBody
<1>9. /\ want' \in Wants /\ want'.msg = want.msg /\ want'.fixed = f
      /\ want'.blob = r \o v /\ want'.view = want.view
  BY <1>1, <1>3 DEF WantOK, Wants
<1>10. Len(want'.blob) = k + Len(v)
  BY <1>2, <1>3, <1>9, ConcatLemma, Zenon
<1>11. want.view = <<>>
  BY <1>1, <1>3 DEF WantOK
<1>12. Payload(want)' = (f \o d) \o (r \o v)
  <2>1. Payload(want)' = want'.fixed \o U16Bytes(Len(want'.blob)) \o want'.blob
    BY <1>1, <1>3, <1>9, OpenPayloadNext
  <2> QED  BY <1>9, <1>10, <2>1, Zenon
<1>13. Counted(want)' = n
  BY <1>3, <1>5, <1>9, <1>10 DEF Counted
<1> HIDE DEF f, r, k, c, d, n, wrote, s
<1>14. f \in Seq(Nat) /\ c \in Seq(Nat) /\ r \in Seq(Nat) /\ d \in Seq(Nat) /\ Len(d) = Len(c)
  BY <1>3, <1>6
<1>15. f \o c \in Seq(Nat) /\ (f \o c) \o r \in Seq(Nat) /\ r \o v \in Seq(Nat)
       /\ f \o d \in Seq(Nat)
  <2>1. f \o c \in Seq(Nat) /\ r \o v \in Seq(Nat) /\ f \o d \in Seq(Nat)
    BY <1>2, <1>14, ConcatLemma
  <2> QED  BY <1>14, <2>1, ConcatLemma
<1>16. Holds(out, body, (f \o c) \o r) /\ out.pos = body + Len((f \o c) \o r)
  BY <1>3, <1>7
<1>17. ((f \o c) \o r) \o v = (f \o c) \o (r \o v)
  <2> DEFINE g == f \o c
  <2> HIDE DEF g
  <2>1. g \in Seq(Nat) /\ r \in Seq(Nat)
    BY <1>14, <1>15 DEF g
  <2>2. (g \o r) \o v = g \o (r \o v)
    BY <1>2, <2>1, ConcatAssociates
  <2> QED  BY <2>2 DEF g
<1>18. /\ IsByteWriter(wrote) /\ wrote.lim = out.lim
       /\ Holds(wrote, body, ((f \o c) \o r) \o v)
       /\ wrote.pos = body + Len(((f \o c) \o r) \o v)
  BY <1>1, <1>2, <1>8, <1>15, <1>16, WriteOn DEF wrote
<1> DEFINE a == (f \o d) \o (r \o v)
<1>19. a \in Seq(Nat)
  BY <1>15, ConcatLemma
<1>20. /\ IsByteWriter(s) /\ s.lim = out.lim /\ s.pos = wrote.pos /\ Holds(s, body, a)
  <2>1. s = Patch(wrote, body + Len(f), d)
    BY <1>3, <1>5 DEF s
  <2>2. Holds(wrote, body, (f \o c) \o (r \o v))
    BY <1>17, <1>18
  <2> DEFINE e == r \o v
  <2>3. e \in Seq(Nat) /\ Holds(wrote, body, (f \o c) \o e)
    BY <1>15, <2>2
  <2> HIDE DEF e
  <2>4. IsByteWriter(s) /\ s.lim = wrote.lim /\ s.pos = wrote.pos /\ Holds(s, body, (f \o d) \o e)
    BY <1>8, <1>14, <1>18, <2>1, <2>3, PatchCount
  <2> QED  BY <1>18, <2>4 DEF e
<1>21. s.pos = body + Len(a)
  <2> DEFINE e == r \o v
  <2> HIDE DEF e
  <2>0. e \in Seq(Nat)
    BY <1>15 DEF e
  <2>1. Len((f \o d) \o e) = Len((f \o c) \o e)
    BY <1>14, <2>0, SameLength
  <2>2. Len((f \o d) \o (r \o v)) = Len((f \o c) \o (r \o v))
    BY <2>1 DEF e
  <2> QED  BY <1>17, <1>18, <1>20, <2>2
<1>22. Payload(want)' = a
  BY <1>12
<1> HIDE DEF a
<1>23. want'.view = <<>> /\ Holds(s, s.pos, <<>>) /\ <<>> \in Seq(Nat)
  <2>1. s.pos \in Nat /\ s.pos <= s.lim
    BY <1>20 DEF IsByteWriter
  <2> QED  BY <1>9, <1>11, <2>1, HoldsNothing
<1>24. partial'.segmentsPos = body + Len(want'.fixed) /\ partial'.size = Counted(want)'
  BY <1>1, <1>3, <1>9, <1>13
<1> QED  BY <1>1, <1>19, <1>20, <1>21, <1>22, <1>23, <1>24, PartialFrame

LEMMA SumLemma ==
  ASSUME NEW i \in Nat, NEW j \in Nat, NEW k \in Nat
  PROVE  i + (j + k) = (i + j) + k
OBVIOUS

(* Moving behind the first m bytes of data, as data and update do: the     *)
(* payload ends there, and the rest of the data stays behind it.           *)
LEMMA AdvanceOver ==
  ASSUME NEW s, IsByteWriter(s), NEW p \in Nat, NEW g \in Seq(Nat), NEW e \in Seq(Nat),
         Holds(s, p, g \o e), s.pos = p + Len(g), NEW m \in 0..Len(e),
         NEW t, t = Advance(s, m)
  PROVE  /\ IsByteWriter(t) /\ t.lim = s.lim
         /\ SubSeq(e, 1, m) \in Seq(Nat) /\ Len(SubSeq(e, 1, m)) = m
         /\ SubSeq(e, m + 1, Len(e)) \in Seq(Nat)
         /\ Holds(t, p, g \o SubSeq(e, 1, m))
         /\ t.pos = p + Len(g \o SubSeq(e, 1, m))
         /\ Holds(t, t.pos, SubSeq(e, m + 1, Len(e)))
<1> DEFINE q == p + Len(g)
           x == SubSeq(e, 1, m)
           y == SubSeq(e, m + 1, Len(e))
<1> HIDE DEF q, x, y
<1>1. s.pos = q /\ Len(g) \in Nat
  BY DEF q
<1>2. q \in Nat
  BY <1>1 DEF q
<1>3. Holds(s, p, g) /\ Holds(s, q, e)
  BY HoldsConcat DEF q
<1>4. m \in Nat /\ m <= Len(e) /\ Len(e) \in Nat
  OBVIOUS
<1>5. x \in Seq(Nat) /\ Len(x) = m /\ Holds(s, q, x)
  <2>1. 0 \in 0..Len(e) /\ m \in 0..Len(e) /\ q + 0 = q /\ 0 + 1 = 1 /\ m - 0 = m
    BY <1>2, <1>4
  <2> QED  BY <1>2, <1>3, <2>1, HoldsPart DEF x
<1>6. y \in Seq(Nat) /\ Holds(s, q + m, y)
  <2>1. Len(e) \in m..Len(e)
    BY <1>4
  <2> QED  BY <1>2, <1>3, <2>1, HoldsPart DEF y
<1>7. q + m <= s.lim /\ q + m \in Nat
  <2>1. q + Len(e) <= s.lim /\ s.lim \in Nat
    BY <1>3 DEF Holds, IsByteWriter
  <2> QED  BY <1>2, <1>4, <2>1
<1>8. t = MoveTo(s, q + m)
  BY <1>1 DEF Advance
<1>9. IsByteWriter(t) /\ t.lim = s.lim /\ t.pos = q + m
  BY <1>7, <1>8, MoveToLemma
<1>10. Holds(t, p, g) /\ Holds(t, q, x) /\ Holds(t, q + m, y)
  BY <1>3, <1>5, <1>6, <1>7, <1>8, HoldsMoved
<1>11. Holds(t, p, g \o x)
  <2>1. x \in Seq(Nat)
    BY <1>5
  <2> QED  BY <1>9, <1>10, <2>1, HoldsConcat DEF q
<1>12. Len(g \o x) = Len(g) + Len(x)
  BY <1>5, ConcatLemma
<1>13. p + (Len(g) + Len(x)) = q + m
  <2>1. Len(x) = m
    BY <1>5
  <2>2. p + (Len(g) + m) = (p + Len(g)) + m
    BY <1>1, <1>4, SumLemma, Zenon
  <2> QED  BY <2>1, <2>2, Zenon DEF q
<1> QED  BY <1>5, <1>6, <1>9, <1>10, <1>11, <1>12, <1>13 DEF x, y

(* The stream that SetDataSize settles, and the payload it leaves there    *)
LEMMA DataFrame ==
  ASSUME WriterInv, HeaderInv, WantOK, FrameInv, Call({"data"}), ~lost, WantOK',
         NEW s, IsByteWriter(s), s.lim = out.lim,
         NEW e \in Seq(Nat),
         Holds(s, body, (want.fixed \o U32Bytes(Len(want.blob))) \o e),
         NEW m \in 0..Len(e), SetDataSize(s, m),
         want'.msg = want.msg, want'.fixed = want.fixed,
         want'.blob = SubSeq(e, 1, m), want'.view = SubSeq(e, m + 1, Len(e))
  PROVE  FrameInv'
<1> DEFINE f == want.fixed
           b == U32Bytes(Len(want.blob))
           d == U32Bytes(m)
           x == want'.blob
           y == want'.view
           t == Advance(Write(MoveTo(s, partial.segmentsPos), d), m)
<1>1. /\ pc = "partial" /\ pc' = "partial" /\ Settle(t)
      /\ partial' = [segmentsPos |-> partial.segmentsPos, size |-> m]
  BY DEF Call, SetDataSize
<1>2. /\ want \in Wants /\ want.msg.part = "data" /\ f \in Seq(Nat) /\ want.blob \in Seq(Nat)
      /\ partial.segmentsPos = body + Len(f)
  BY OpenFrame
<1>3. m \in Nat /\ Len(want.blob) \in Nat
  BY <1>2
<1>4. b \in Seq(Nat) /\ d \in Seq(Nat) /\ Len(d) = Len(b)
  BY <1>3, U32BytesLemma
<1>5. body \in Nat
  BY HeadersBody
<1>6. want' \in Wants /\ want'.msg.part = "data"
  BY <1>2 DEF WantOK
<1>7. Payload(want)' = want'.fixed \o U32Bytes(Len(want'.blob)) \o want'.blob
  BY <1>1, <1>6, OpenPayloadNext
<1>8. Counted(want)' = Len(want'.blob)
  BY <1>6 DEF Counted
<1> HIDE DEF f, b, d, x, y, t
<1>9. t = Advance(Write(MoveTo(s, body + Len(f)), d), m)
  BY <1>2 DEF t
<1>10. x = SubSeq(e, 1, m) /\ y = SubSeq(e, m + 1, Len(e)) /\ Holds(s, body, (f \o b) \o e)
  BY DEF x, y, f, b
<1>11. /\ IsByteWriter(t) /\ t.lim = s.lim
       /\ x \in Seq(Nat) /\ Len(x) = m /\ y \in Seq(Nat)
       /\ Holds(t, body, (f \o d) \o x) /\ t.pos = body + Len((f \o d) \o x)
       /\ Holds(t, t.pos, y)
  <2> DEFINE w == Write(MoveTo(s, body + Len(f)), d)
             g == f \o d
  <2>1. f \in Seq(Nat) /\ g \in Seq(Nat)
    BY <1>2, <1>4, ConcatLemma
  <2>2. /\ IsByteWriter(w) /\ w.lim = s.lim
        /\ w.pos = body + Len(g) /\ Holds(w, body, g \o e)
    BY <1>4, <1>5, <1>10, <2>1, WriteOver
  <2>3. t = Advance(w, m)
    BY <1>9
  <2> HIDE DEF w, g
  <2>4. /\ IsByteWriter(t) /\ t.lim = w.lim
        /\ SubSeq(e, 1, m) \in Seq(Nat) /\ Len(SubSeq(e, 1, m)) = m
        /\ SubSeq(e, m + 1, Len(e)) \in Seq(Nat)
        /\ Holds(t, body, g \o SubSeq(e, 1, m))
        /\ t.pos = body + Len(g \o SubSeq(e, 1, m))
        /\ Holds(t, t.pos, SubSeq(e, m + 1, Len(e)))
    BY <1>5, <2>1, <2>2, <2>3, AdvanceOver
  <2> QED  BY <1>10, <2>2, <2>4 DEF g
<1> DEFINE a == (f \o d) \o x
<1>12. a \in Seq(Nat)
  <2>1. f \o d \in Seq(Nat)
    BY <1>2, <1>4, ConcatLemma
  <2> QED  BY <1>11, <2>1, ConcatLemma
<1>13. Payload(want)' = a
  BY <1>7, <1>11, Zenon DEF f, d, x
<1> HIDE DEF a
<1>14. Holds(t, body, a) /\ t.pos = body + Len(a)
  BY <1>11 DEF a
<1>15. partial'.segmentsPos = body + Len(want'.fixed) /\ partial'.size = Counted(want)'
  BY <1>1, <1>2, <1>8, <1>11 DEF f, x
<1>16. want'.view \in Seq(Nat) /\ Holds(t, t.pos, want'.view) /\ t.lim = out.lim
  BY <1>11 DEF y
<1> QED  BY <1>1, <1>11, <1>12, <1>13, <1>14, <1>15, <1>16, PartialFrame

(* The payload of a message of data, and what is stored behind it          *)
LEMMA OpenData ==
  ASSUME WriterInv, WantOK, FrameInv, Call({"data"}), ~lost
  PROVE  /\ want \in Wants /\ want.fixed \in Seq(Nat) /\ want.blob \in Seq(Nat)
         /\ want.view \in Seq(Nat) /\ partial.size = Len(want.blob)
         /\ want.fixed \o U32Bytes(Len(want.blob)) \in Seq(Nat)
         /\ Payload(want) = (want.fixed \o U32Bytes(Len(want.blob))) \o want.blob
         /\ Holds(out, body, Payload(want)) /\ out.pos = body + Len(Payload(want))
         /\ Holds(out, out.pos, want.view)
<1>1. /\ want \in Wants /\ want.msg.part = "data"
      /\ want.fixed \in Seq(Nat) /\ want.blob \in Seq(Nat) /\ want.view \in Seq(Nat)
      /\ Holds(out, body, Payload(want)) /\ out.pos = body + Len(Payload(want))
      /\ Holds(out, out.pos, want.view) /\ partial.size = Counted(want)
  BY OpenFrame
<1>2. Counted(want) = Len(want.blob)
  BY <1>1 DEF Counted
<1>3. pc = "partial"
  BY DEF Call
<1>4. Payload(want) = (want.fixed \o U32Bytes(Len(want.blob))) \o want.blob
  BY <1>1, <1>3, OpenPayload
<1>5. U32Bytes(Len(want.blob)) \in Seq(Nat)
  <2>1. Len(want.blob) \in Nat
    BY <1>1
  <2> QED  BY <2>1, U32BytesLemma
<1>6. want.fixed \o U32Bytes(Len(want.blob)) \in Seq(Nat)
  BY <1>1, <1>5, ConcatLemma
<1> QED  BY <1>1, <1>2, <1>4, <1>6

LEMMA SmallTerm ==
  ASSUME NEW i \in Nat, NEW j \in Nat, NEW k \in Nat, NEW l \in Nat,
         i + (j + k) <= l, l < U32Range
  PROVE  k < U32Range
BY RangeLemma

LEMMA WholeSubSeq ==
  ASSUME NEW e \in Seq(Nat)
  PROVE  SubSeq(e, 1, Len(e)) = e /\ SubSeq(e, Len(e) + 1, Len(e)) = <<>>
OBVIOUS

LEMMA dataFrame ==
  ASSUME WriterInv, HeaderInv, WantOK, FrameInv, NEW v \in Pieces, data(v), WantOK'
  PROVE  FrameInv'
<1> SUFFICES ASSUME ~lost' PROVE FrameInv'
  BY DEF FrameInv
<1> DEFINE g == want.fixed \o U32Bytes(Len(want.blob))
           r == want.blob
           e == r \o v
           m == Len(e)
           n == (partial.size + Len(v)) % U32Range
           s == Write(out, v)
<1>1. /\ Call({"data"}) /\ ~lost /\ Fits(out, Len(v)) /\ SetDataSize(s, n)
      /\ want' = [want EXCEPT !.blob = r \o v, !.view = <<>>]
  BY DEF data
<1>2. v \in Seq(Nat) /\ Len(v) \in Nat
  BY InputsAssumption
<1>3. /\ want \in Wants /\ r \in Seq(Nat) /\ g \in Seq(Nat) /\ partial.size = Len(r)
      /\ Payload(want) = g \o r
      /\ Holds(out, body, Payload(want)) /\ out.pos = body + Len(Payload(want))
  BY <1>1, OpenData
<1>4. body \in Nat /\ IsByteWriter(out) /\ out.lim \in Nat /\ out.lim < U32Range
  BY HeadersBody DEF HeaderInv
<1>5. want'.msg = want.msg /\ want'.fixed = want.fixed /\ want'.blob = e /\ want'.view = <<>>
  BY <1>1, <1>3 DEF Wants
<1> HIDE DEF g, r, n, s
<1>6. e \in Seq(Nat) /\ m = Len(r) + Len(v) /\ g \o r \in Seq(Nat) /\ m \in Nat
  <2>1. e \in Seq(Nat) /\ m = Len(r) + Len(v) /\ g \o r \in Seq(Nat)
    BY <1>2, <1>3, ConcatLemma
  <2> QED  BY <2>1
<1>7. (g \o r) \o v = g \o e
  BY <1>2, <1>3, ConcatAssociates
<1> HIDE DEF e, m
<1>8. IsByteWriter(s) /\ s.lim = out.lim /\ Holds(s, body, g \o e)
  <2>1. Holds(out, body, g \o r) /\ out.pos = body + Len(g \o r)
    BY <1>3
  <2>2. IsByteWriter(s) /\ s.lim = out.lim /\ Holds(s, body, (g \o r) \o v)
    BY <1>1, <1>2, <1>4, <1>6, <2>1, WriteOn DEF s
  <2> QED  BY <1>7, <2>2
<1>9. m < U32Range
  <2>1. body + Len(g \o e) <= s.lim
    BY <1>8 DEF Holds
  <2>2. Len(g \o e) = Len(g) + m /\ Len(g) \in Nat
    BY <1>3, <1>6, ConcatLemma DEF m
  <2>3. body + (Len(g) + m) <= out.lim
    BY <1>8, <2>1, <2>2
  <2> HIDE DEF g
  <2> QED  BY <1>4, <1>6, <2>2, <2>3, SmallTerm
<1>10. n = m
  <2>1. n = m % U32Range
    BY <1>3, <1>6 DEF n
  <2> QED  BY <1>6, <1>9, <2>1, SmallMod, Zenon
<1>11. m \in 0..Len(e) /\ SetDataSize(s, m)
  <2>1. m <= Len(e) /\ Len(e) = m
    BY <1>6 DEF m
  <2> QED  BY <1>1, <1>6, <1>10, <2>1
<1>12. want'.blob = SubSeq(e, 1, m) /\ want'.view = SubSeq(e, m + 1, Len(e))
  BY <1>5, <1>6, WholeSubSeq DEF m
<1>13. Holds(s, body, (want.fixed \o U32Bytes(Len(want.blob))) \o e)
  BY <1>8 DEF g
<1> QED  BY <1>1, <1>5, <1>6, <1>8, <1>11, <1>12, <1>13, DataFrame

LEMMA updateFrame ==
  ASSUME WriterInv, HeaderInv, WantOK, FrameInv, NEW n \in Nat, update(n), WantOK'
  PROVE  FrameInv'
<1> SUFFICES ASSUME ~lost' PROVE FrameInv'
  BY DEF FrameInv
<1> DEFINE g == want.fixed \o U32Bytes(Len(want.blob))
           r == want.blob
           y == want.view
           e == r \o y
<1>1. /\ Call({"data"}) /\ ~lost /\ n <= Len(e) /\ SetDataSize(out, n)
      /\ want' = [want EXCEPT !.blob = SubSeq(e, 1, n), !.view = SubSeq(e, n + 1, Len(e))]
  BY DEF update
<1>2. /\ want \in Wants /\ r \in Seq(Nat) /\ y \in Seq(Nat) /\ g \in Seq(Nat)
      /\ Payload(want) = g \o r
      /\ Holds(out, body, Payload(want)) /\ out.pos = body + Len(Payload(want))
      /\ Holds(out, out.pos, y)
  BY <1>1, OpenData
<1>3. body \in Nat /\ IsByteWriter(out)
  BY HeadersBody
<1>4. /\ want'.msg = want.msg /\ want'.fixed = want.fixed
      /\ want'.blob = SubSeq(e, 1, n) /\ want'.view = SubSeq(e, n + 1, Len(e))
  BY <1>1, <1>2 DEF Wants
<1> HIDE DEF g, r, y
<1>5. e \in Seq(Nat) /\ g \o r \in Seq(Nat)
  BY <1>2, ConcatLemma
<1>6. (g \o r) \o y = g \o e
  BY <1>2, ConcatAssociates
<1>7. Holds(out, body, g \o e)
  <2> DEFINE a == g \o r
  <2>1. a \in Seq(Nat) /\ Holds(out, body, a) /\ Holds(out, body + Len(a), y)
    BY <1>2, <1>5
  <2> HIDE DEF a
  <2>2. Holds(out, body, a \o y)
    BY <1>2, <1>3, <2>1, HoldsConcat
  <2> QED  BY <1>6, <2>2 DEF a
<1> HIDE DEF e
<1>8. n \in 0..Len(e)
  BY <1>1, <1>5
<1>9. Holds(out, body, (want.fixed \o U32Bytes(Len(want.blob))) \o e)
  BY <1>7 DEF g
<1> QED  BY <1>1, <1>3, <1>4, <1>5, <1>8, <1>9, DataFrame

-----------------------------------------------------------------------------
LEMMA FrameStep ==
  ASSUME WriterInv, HeaderInv, WantOK, FrameInv, [Next]_vars, WantOK'
  PROVE  FrameInv'
<1>0. header.tag \in Nat /\ want \in Wants /\ out.lim \in Nat
  BY DEF WriterInv, TypeOK, Headers, WantOK, IsByteWriter
<1>1. ASSUME NEW t \in Tags, NewWriter(t)  PROVE FrameInv'
  BY <1>1, StartFrame DEF NewWriter
<1>2. CASE ReuseWriter
  BY <1>2, StartFrame DEF ReuseWriter
<1>3. ASSUME NEW m \in Messages, StartMessage(m)  PROVE FrameInv'
  BY <1>0, <1>3, messageTypeFrame DEF StartMessage
<1>4. ASSUME NEW m \in Messages, NEW t \in ExplicitTags, messageType(m, t)
      PROVE  FrameInv'
  BY <1>4, InputsAssumption, messageTypeFrame
<1>5. CASE WriteField  BY <1>5, WriteFieldFrame
<1>6. CASE FinishMessage  BY <1>6, FinishMessageFrame
<1>7. CASE BeginPath \/ BeginPathData \/ BeginString
  BY <1>7, U16BytesLemma, BeginPartialFrame
  DEF BeginPath, BeginPathData, BeginString, FieldsWritten
<1>8. CASE BeginData
  BY <1>8, U32BytesLemma, BeginPartialFrame DEF BeginData, FieldsWritten
<1>9. ASSUME NEW v \in Pieces, segment(v)  PROVE FrameInv'
  BY <1>9, segmentFrame
<1>10. ASSUME NEW v \in Pieces, pathData(v)  PROVE FrameInv'
  BY <1>10, pathDataFrame
<1>11. ASSUME NEW v \in Pieces, string(v)  PROVE FrameInv'
  BY <1>11, stringFrame
<1>12. ASSUME NEW v \in Pieces, data(v)  PROVE FrameInv'
  BY <1>12, dataFrame
<1>13. ASSUME NEW v \in Pieces, FillView(v)  PROVE FrameInv'
  BY <1>13, FillViewFrame
<1>14. ASSUME NEW n \in 0..out.lim, update(n)  PROVE FrameInv'
  BY <1>0, <1>14, updateFrame
<1>15. CASE UNCHANGED vars
  BY <1>15
  DEF vars, FrameInv, InPlace, FieldsInPlace, PayloadInPlace, ViewInPlace, CountInPlace,
      Counted, Payload, Settled, body
<1> QED
  BY <1>1, <1>2, <1>3, <1>4, <1>5, <1>6, <1>7, <1>8, <1>9, <1>10, <1>11, <1>12, <1>13,
     <1>14, <1>15
  DEF Next

LEMMA InitFrame == Init => FrameInv
BY DEF Init, FrameInv, InPlace, FieldsInPlace, PayloadInPlace, ViewInPlace, CountInPlace,
   Settled

LEMMA PayloadType ==
  ASSUME want \in Wants, want.msg \in Messages
  PROVE  Payload(want) \in Seq(Nat)
<1> DEFINE f  == want.fixed
           c  == U16Bytes(Len(want.segs))
           p  == want.path
           b  == want.blob
           sb == U16Bytes(Len(b))
           db == U32Bytes(Len(b))
           z  == IF pc = "complete" THEN db \o b ELSE <<>>
<1>1. f \in Seq(Nat) /\ p \in Seq(Nat) /\ b \in Seq(Nat) /\ want.segs \in Seq(Seq(Nat))
  BY DEF Wants
<1>2. c \in Seq(Nat) /\ sb \in Seq(Nat) /\ db \in Seq(Nat)
  BY <1>1, U16BytesLemma, U32BytesLemma
<1> HIDE DEF f, c, p, b, sb, db
<1>3. f \o c \in Seq(Nat) /\ f \o sb \in Seq(Nat) /\ f \o db \in Seq(Nat) /\ db \o b \in Seq(Nat)
  BY <1>1, <1>2, ConcatLemma
<1>4. (f \o c) \o p \in Seq(Nat) /\ (f \o sb) \o b \in Seq(Nat) /\ (f \o db) \o b \in Seq(Nat)
  BY <1>1, <1>3, ConcatLemma
<1>5. z \in Seq(Nat)
  BY <1>3
<1> HIDE DEF z
<1>6. ((f \o c) \o p) \o z \in Seq(Nat)
  BY <1>4, <1>5, ConcatLemma
<1>7. want.msg.part \in Parts
  BY MessagesAssumption
<1>8. CASE want.msg.part = "whole"
  BY <1>1, <1>8 DEF Payload, f
<1>9. CASE want.msg.part = "path"
  <2>1. Payload(want) = (f \o c) \o p
    BY <1>9 DEF Payload, f, c, p
  <2> QED  BY <1>4, <2>1
<1>10. CASE want.msg.part = "string"
  <2>1. Payload(want) = (f \o sb) \o b
    BY <1>10 DEF Payload, f, sb, b
  <2> QED  BY <1>4, <2>1
<1>11. CASE want.msg.part = "data"
  <2>1. Payload(want) = (f \o db) \o b
    BY <1>11 DEF Payload, f, db, b
  <2> QED  BY <1>4, <2>1
<1>12. CASE want.msg.part = "pathdata"
  <2>1. Payload(want) = ((f \o c) \o p) \o z
    BY <1>12 DEF Payload, f, c, p, z, db, b
  <2> QED  BY <1>6, <2>1
<1> QED  BY <1>7, <1>8, <1>9, <1>10, <1>11, <1>12 DEF Parts

(* A header and a payload in place are the frame the caller asked for.     *)
LEMMA FrameInvIntended ==
  ASSUME WriterInv, HeaderInv, WantOK, FrameInv, SameTag
  PROVE  FrameAsIntended
<1> SUFFICES ASSUME Settled, ~lost
             PROVE  Slice(out, start, out.pos) = Intended(want)
  BY DEF FrameAsIntended
<1> DEFINE h == HeaderBytes(header)
           a == Payload(want)
           k == [messageSize |-> headerSize + Len(a),
                 type |-> want.msg.code, tag |-> want.tag]
<1>1. /\ start \in Nat /\ body = start + 7 /\ body \in Nat /\ IsByteWriter(out)
      /\ out.pos \in Nat /\ out.lim \in Nat /\ out.pos <= out.lim /\ header \in Headers
  BY HeadersBody
<1>2. /\ pc # "new" /\ want \in Wants /\ want.msg \in Messages
      /\ header.type = want.msg.code /\ header.tag = want.tag
  BY DEF Settled, WantOK, SameTag
<1>3. a \in Seq(Nat) /\ Holds(out, body, a) /\ out.pos = body + Len(a)
  <2>1. Holds(out, body, a) /\ out.pos = body + Len(a)
    BY DEF FrameInv, InPlace, PayloadInPlace
  <2> QED  BY <1>2, <2>1, PayloadType
<1> HIDE DEF a
<1>4. HasHeader
  BY <1>1, <1>3 DEF HasHeader
<1>5. Holds(out, start, h) /\ header.messageSize = out.pos - start
  BY <1>2, <1>4 DEF HeaderInv, HeaderOnWire, SizeSettled
<1>6. h \in Seq(Nat) /\ Len(h) = 7
  BY <1>1, HeaderBytesLemma
<1>7. header = k
  <2>1. out.pos - start = 7 + Len(a)
    BY <1>1, <1>3
  <2>2. header = [messageSize |-> header.messageSize, type |-> header.type, tag |-> header.tag]
    BY <1>1 DEF Headers
  <2> QED  BY <1>2, <1>5, <2>1, <2>2, HeaderSizeLemma
<1> HIDE DEF h
<1>8. Holds(out, start, h \o a) /\ h \o a \in Seq(Nat)
  <2>1. Holds(out, start + Len(h), a)
    BY <1>1, <1>3, <1>6
  <2> QED  BY <1>1, <1>3, <1>5, <1>6, <2>1, HoldsConcat
<1>9. start + Len(h \o a) = out.pos
  <2>1. a \in Seq(Nat) /\ h \in Seq(Nat)
    BY <1>3, <1>6
  <2>2. Len(h \o a) = Len(h) + Len(a)
    BY <2>1, ConcatLemma, Zenon
  <2>3. Len(a) \in Nat
    BY <2>1
  <2>4. start + (Len(h) + Len(a)) = out.pos
    BY <1>1, <1>3, <1>6, <2>3
  <2> QED  BY <2>2, <2>4, Zenon
<1>10. Slice(out, start, out.pos) = h \o a
  BY <1>1, <1>8, <1>9, HoldsSlice
<1>11. Intended(want) = h \o a
  BY <1>7 DEF Intended, h, a
<1> QED  BY <1>10, <1>11

(* What a writer leaves in the buffer is the message the caller asked for, *)
(* byte by byte, unless a write was dropped: every size and every count    *)
(* that was patched later, data stored through a view and cut by update    *)
(* included.                                                               *)
THEOREM WriterFrameAsIntended == Spec => [](SameTag => FrameAsIntended)
<1> DEFINE I == WriterInv /\ WantOK /\ HeaderInv /\ FrameInv
<1>1. Init => I
  BY InitLemma, InitWant, InitHeader, InitFrame
<1>2. I /\ [Next]_vars => I'
  BY StepLemma, WantStep, HeaderStep, FrameStep
<1>3. I => (SameTag => FrameAsIntended)
  BY FrameInvIntended
<1> HIDE DEF I
<1> QED  BY <1>1, <1>2, <1>3, PTL DEF Spec

(* SameTag is no restriction for callers that leave the tag to the writer. *)
LEMMA SameTagStep ==
  ASSUME WriterInv, WantOK, ExplicitTags = {}, SameTag, [Next]_vars
  PROVE  SameTag'
<1>1. header \in Headers /\ want \in Wants
  BY DEF WriterInv, TypeOK, WantOK
<1>2. ASSUME NEW s, Settle(s), want'.tag = want.tag
      PROVE  SameTag'
  BY <1>1, <1>2, SettleTag DEF SameTag
<1>3. CASE \E t \in Tags : NewWriter(t)
  BY <1>3 DEF NewWriter, NewHeader, Nothing, SameTag
<1>4. CASE ReuseWriter
  BY <1>4 DEF ReuseWriter, Nothing, SameTag
<1>5. CASE \E m \in Messages : StartMessage(m)
  <2>1. header'.tag = header.tag
    BY <1>5 DEF StartMessage, messageType
  <2>2. want'.tag = header.tag
    BY <1>1, <1>5 DEF StartMessage, messageType, Wants
  <2> QED  BY <2>1, <2>2 DEF SameTag
<1>6. CASE WriteField \/ (\E v \in Pieces : FillView(v))
  <2>1. header' = header
    BY <1>6 DEF WriteField, FillView
  <2>2. want'.tag = want.tag
    BY <1>1, <1>6 DEF WriteField, FillView, Wants
  <2> QED  BY <2>1, <2>2 DEF SameTag
<1>7. CASE FinishMessage \/ BeginPath \/ BeginPathData \/ BeginString \/ BeginData
  <2>1. (\E s : Settle(s)) /\ want' = want
    BY <1>7 DEF FinishMessage, BeginPath, BeginPathData, BeginString, BeginData, BeginPartial
  <2> QED  BY <1>2, <2>1
<1>8. CASE \E v \in Pieces : segment(v) \/ pathData(v) \/ string(v) \/ data(v)
  <2>1. \E s : Settle(s)
    BY <1>8 DEF segment, pathData, string, data, SetDataSize
  <2>2. want'.tag = want.tag
    BY <1>1, <1>8 DEF segment, pathData, string, data, Wants
  <2> QED  BY <1>2, <2>1, <2>2
<1>9. CASE \E n \in 0..out.lim : update(n)
  <2>1. \E s : Settle(s)
    BY <1>9 DEF update, SetDataSize
  <2>2. want'.tag = want.tag
    BY <1>1, <1>9 DEF update, Wants
  <2> QED  BY <1>2, <2>1, <2>2
<1>10. CASE UNCHANGED vars
  BY <1>10 DEF vars, SameTag
<1> QED  BY <1>3, <1>4, <1>5, <1>6, <1>7, <1>8, <1>9, <1>10 DEF Next

(* Callers that never give a tag to messageType get the header and the     *)
(* frame without a condition.                                              *)
THEOREM WriterWithoutExplicitTags ==
  ASSUME ExplicitTags = {}
  PROVE  Spec => [](HeaderAgrees /\ FrameAsIntended)
<1> DEFINE I == WriterInv /\ WantOK /\ SameTag
<1>1. Init => I
  <2>1. Init => SameTag
    BY DEF Init, NewHeader, Nothing, SameTag
  <2> QED  BY <2>1, InitLemma, InitWant
<1>2. I /\ [Next]_vars => I'
  BY StepLemma, WantStep, SameTagStep
<1>3. I => SameTag
  OBVIOUS
<1> HIDE DEF I
<1> QED  BY <1>1, <1>2, <1>3, WriterHeaderAgrees, WriterFrameAsIntended, PTL DEF Spec
=============================================================================
