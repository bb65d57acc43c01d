------------------------ MODULE StreamDecoderProofs ------------------------
(***************************************************************************)
(* Proofs for StreamDecoder, for every number of files and messages, every *)
(* buffer that holds a header, and every place at which a file may end:    *)
(* sharing one buffer between all headers and payloads does no harm.  What *)
(* a parser makes of one message (parseBody) is left as it is.             *)
(***************************************************************************)
EXTENDS StreamDecoder, CodecProofs

IsSequence(s) == s \in Seq({s[i] : i \in DOMAIN s})

(* The stream is within its file, and the buffer keeps its size.           *)
DecoderTypeOK ==
  /\ call \in Invocations
  /\ current \in Nat \ {0}
  /\ pc = "read" => current \in 1..Len(call.files) /\ at \in 0..Len(Bytes)
  /\ buf \in [1..call.max -> Nat]
  /\ IsSequence(log)
  /\ good \in BOOLEAN

-----------------------------------------------------------------------------
(* Sequences of reports                                                    *)

LEMMA AppendLemma ==
  ASSUME NEW s, IsSequence(s), NEW e
  PROVE  /\ IsSequence(Append(s, e))
         /\ Len(s) \in Nat /\ Len(Append(s, e)) = Len(s) + 1
         /\ \A i \in 1..Len(s) : Append(s, e)[i] = s[i]
         /\ Append(s, e)[Len(s) + 1] = e
         /\ DOMAIN Append(s, e) = 1..(Len(s) + 1) /\ DOMAIN s = 1..Len(s)
<1> DEFINE S == {s[i] : i \in DOMAIN s}
           t == Append(s, e)
<1>1. s \in Seq(S \cup {e})
  BY DEF IsSequence
<1> HIDE DEF S
<1>2. /\ Len(s) \in Nat /\ Len(t) = Len(s) + 1 /\ DOMAIN t = 1..(Len(s) + 1)
      /\ DOMAIN s = 1..Len(s) /\ t \in Seq(S \cup {e})
      /\ \A i \in 1..Len(s) : t[i] = s[i]
      /\ t[Len(s) + 1] = e
  BY <1>1
<1> HIDE DEF t
<1>3. t \in Seq({t[i] : i \in DOMAIN t})
  <2>1. \A i \in 1..Len(t) : t[i] \in {t[j] : j \in DOMAIN t}
    BY <1>2
  <2> QED  BY <1>2, <2>1
<1> QED  BY <1>2, <1>3 DEF IsSequence, t

-----------------------------------------------------------------------------
(* Reading from the file                                                   *)

LEMMA FileLemma ==
  ASSUME DecoderTypeOK, pc = "read"
  PROVE  /\ IsFile(File) /\ Bytes \in Seq(Nat) /\ Len(Bytes) \in Nat
         /\ call.max \in Nat /\ 7 <= call.max /\ 7 + call.max < U32Range
         /\ at \in Nat /\ at <= Len(Bytes) /\ Body = at + 7
         /\ buf \in Seq(Nat) /\ Len(buf) = call.max
         /\ Available = Len(Bytes) - at
<1>1. headerSize = 7
  BY DEF headerSize
<1>2. call \in Invocations /\ current \in 1..Len(call.files) /\ at \in 0..Len(Bytes)
  BY DEF DecoderTypeOK
<1>3. IsFile(File)
  BY <1>2, FilesAssumption DEF File
<1>4. Bytes \in Seq(Nat)
  BY <1>3 DEF IsFile, Bytes
<1>5. call.max \in Nat /\ 7 <= call.max /\ 7 + call.max < U32Range
  BY <1>1, <1>2, BufferAssumption
<1>6. buf \in Seq(Nat) /\ Len(buf) = call.max
  BY <1>5 DEF DecoderTypeOK
<1> QED  BY <1>1, <1>2, <1>3, <1>4, <1>5, <1>6 DEF Body, Available

(* in.read of n bytes that are there, into a buffer that has room: the     *)
(* bytes are in front, whatever the buffer held.                           *)
LEMMA ReadIntoLemma ==
  ASSUME NEW b \in Seq(Nat), Bytes \in Seq(Nat), NEW p \in Nat, NEW n \in Nat,
         p + n <= Len(Bytes), n <= Len(b)
  PROVE  /\ ReadInto(b, p, n) \in Seq(Nat) /\ Len(ReadInto(b, p, n)) = Len(b)
         /\ SubSeq(ReadInto(b, p, n), 1, n) = SubSeq(Bytes, p + 1, p + n)
         /\ Len(SubSeq(Bytes, p + 1, p + n)) = n
<1> DEFINE r == ReadInto(b, p, n)
<1>1. gcount(p, n) = n
  BY DEF gcount
<1>2. r = [i \in 1..Len(b) |-> IF i <= n THEN Bytes[p + i] ELSE b[i]]
  BY <1>1 DEF ReadInto
<1>3. \A i \in 1..Len(b) : r[i] \in Nat
  <2> SUFFICES ASSUME NEW i \in 1..Len(b) PROVE r[i] \in Nat
    OBVIOUS
  <2>1. CASE i <= n
    <3>1. p + i \in 1..Len(Bytes)
      BY <2>1
    <3> QED  BY <1>2, <2>1, <3>1
  <2>2. CASE ~(i <= n)
    BY <1>2, <2>2
  <2> QED  BY <2>1, <2>2
<1>4. r \in Seq(Nat) /\ Len(r) = Len(b)
  BY <1>2, <1>3
<1>5. \A i \in 1..n : r[i] = Bytes[p + i]
  BY <1>2
<1> HIDE DEF r
<1>6. SubSeq(r, 1, n) = [i \in 1..n |-> Bytes[p + i]]
  BY <1>4, <1>5
<1>7. SubSeq(Bytes, p + 1, p + n) = [i \in 1..n |-> Bytes[p + i]]
  OBVIOUS
<1> QED  BY <1>4, <1>6, <1>7 DEF r

LEMMA ReadIntoType ==
  ASSUME NEW m \in Nat, NEW b \in [1..m -> Nat], Bytes \in Seq(Nat),
         NEW p \in Nat, NEW n \in Nat, p <= Len(Bytes)
  PROVE  ReadInto(b, p, n) \in [1..m -> Nat]
<1>1. gcount(p, n) \in Nat /\ p + gcount(p, n) <= Len(Bytes)
  BY DEF gcount
<1> SUFFICES ASSUME NEW i \in 1..m, i <= gcount(p, n)
             PROVE  Bytes[p + i] \in Nat
  BY DEF ReadInto
<1>2. p + i \in 1..Len(Bytes)
  BY <1>1
<1> QED  BY <1>2, ElementLemma

(* With seven bytes in the file, the header is that of these bytes.        *)
LEMMA FramedLemma ==
  ASSUME DecoderTypeOK, Framed
  PROVE  /\ WithHeader \in Seq(Nat) /\ Len(WithHeader) = call.max
         /\ SubSeq(Bytes, at + 1, at + 7) \in Seq(Nat)
         /\ Len(SubSeq(Bytes, at + 1, at + 7)) = 7
         /\ Header = parseMessageHeader(SubSeq(Bytes, at + 1, at + 7))
         /\ at + 7 <= Len(Bytes) /\ Body = at + 7
         /\ Header.err \in {"none", "NoData", "IllFormedHeader_FrameTooShort"}
         /\ Header.err = "none" => Header.messageSize \in Nat /\ 7 <= Header.messageSize
<1>1. pc = "read" /\ headerSize = 7 /\ Available >= 7
  BY DEF Framed, Reading, headerSize
<1>2. /\ Bytes \in Seq(Nat) /\ Len(Bytes) \in Nat /\ at \in Nat /\ Body = at + 7
      /\ buf \in Seq(Nat) /\ Len(buf) = call.max /\ 7 <= call.max /\ call.max \in Nat
      /\ Available = Len(Bytes) - at
  BY <1>1, FileLemma
<1>3. at + 7 <= Len(Bytes)
  BY <1>1, <1>2
<1> DEFINE c == SubSeq(Bytes, at + 1, at + 7)
<1>4. /\ WithHeader \in Seq(Nat) /\ Len(WithHeader) = Len(buf)
      /\ SubSeq(WithHeader, 1, 7) = c /\ Len(c) = 7
  <2>1. 7 \in Nat /\ 7 <= Len(buf)
    BY <1>2
  <2> QED  BY <1>1, <1>2, <1>3, <2>1, ReadIntoLemma DEF WithHeader
<1>5. c \in Seq(Nat)
  BY <1>2, <1>3
<1>6. Header = parseMessageHeader(c)
  BY <1>1, <1>4 DEF Header
<1> HIDE DEF c
<1> DEFINE h == parseMessageHeader(c)
<1>7. /\ h.err \in {"none", "NoData", "IllFormedHeader_FrameTooShort"}
      /\ h.err = "none" => h.messageSize \in Nat /\ 7 <= h.messageSize
  BY <1>5, HeaderCases
<1> HIDE DEF h
<1>8. Header = h
  BY <1>6 DEF h
<1> QED  BY <1>2, <1>3, <1>4, <1>5, <1>6, <1>7, <1>8 DEF c

(* The payload a parser is given is what follows the header in the file.   *)
LEMMA PayloadLemma ==
  ASSUME DecoderTypeOK, Framed, Header.err = "none", HasRoom(Header), PayloadRead(Header),
         NEW n, n = payloadSize(Header)
  PROVE  /\ n \in Nat /\ n = Header.messageSize - 7 /\ n <= call.max
         /\ Body + n <= Len(Bytes) /\ gcount(Body, n) = n
         /\ ReadInto(WithHeader, Body, n) \in [1..call.max -> Nat]
         /\ SubSeq(ReadInto(WithHeader, Body, n), 1,
                   IF n <= Len(ReadInto(WithHeader, Body, n))
                   THEN n ELSE Len(ReadInto(WithHeader, Body, n)))
              = SubSeq(Bytes, Body + 1, Body + n)
         /\ Len(SubSeq(Bytes, Body + 1, Body + n)) = n
<1>1. pc = "read"
  BY DEF Framed, Reading
<1>2. /\ Bytes \in Seq(Nat) /\ Len(Bytes) \in Nat /\ at \in Nat /\ call.max \in Nat
  BY <1>1, FileLemma
<1>3. /\ WithHeader \in Seq(Nat) /\ Len(WithHeader) = call.max
      /\ at + 7 <= Len(Bytes) /\ Body = at + 7
      /\ Header.messageSize \in Nat /\ 7 <= Header.messageSize
  BY FramedLemma
<1>4. n \in Nat /\ n = Header.messageSize - 7 /\ n <= call.max
  BY <1>3 DEF payloadSize, headerSize, HasRoom
<1>5. Body \in Nat /\ Body <= Len(Bytes)
  BY <1>2, <1>3
<1>6. gcount(Body, n) = n
  BY DEF PayloadRead
<1>7. Body + n <= Len(Bytes)
  BY <1>2, <1>4, <1>5, <1>6 DEF gcount
<1> DEFINE b == ReadInto(WithHeader, Body, n)
<1>8. /\ b \in Seq(Nat) /\ Len(b) = Len(WithHeader)
      /\ SubSeq(b, 1, n) = SubSeq(Bytes, Body + 1, Body + n)
      /\ Len(SubSeq(Bytes, Body + 1, Body + n)) = n
  <2>1. n <= Len(WithHeader)
    BY <1>3, <1>4
  <2>2. Bytes \in Seq(Nat) /\ WithHeader \in Seq(Nat) /\ Body \in Nat /\ n \in Nat
    BY <1>2, <1>3, <1>4, <1>5
  <2> QED  BY <1>7, <2>1, <2>2, ReadIntoLemma
<1> HIDE DEF b
<1>9. b \in [1..call.max -> Nat] /\ Len(b) = call.max
  BY <1>3, <1>8, FunctionLemma
<1>10. (IF n <= Len(b) THEN n ELSE Len(b)) = n
  BY <1>4, <1>9
<1> QED  BY <1>4, <1>6, <1>7, <1>8, <1>9, <1>10 DEF b

-----------------------------------------------------------------------------
(* One report more                                                         *)

Harmless == {"none", "NoData", "UnsupportedMessageType", "IllFormedHeader_FrameTooShort",
             "EOF", "unexpected EOF", "Data overflow"}

LEMMA ReportLemma ==
  ASSUME IsSequence(log), SizesAgree, NEW e, e.err \in Harmless, log' = Append(log, e)
  PROVE  IsSequence(log') /\ SizesAgree'
<1>1. /\ IsSequence(log') /\ Len(log) \in Nat
      /\ \A i \in 1..Len(log) : log'[i] = log[i]
      /\ log'[Len(log) + 1] = e
      /\ DOMAIN log' = 1..(Len(log) + 1) /\ DOMAIN log = 1..Len(log)
  BY AppendLemma
<1>2. ASSUME NEW i \in DOMAIN log'
      PROVE  log'[i].err
               \notin {"IllFormedHeader_TooBig", "NotEnoughData", "MoreThenExpectedData"}
  <2>1. CASE i = Len(log) + 1
    BY <1>1, <2>1 DEF Harmless
  <2>2. CASE i # Len(log) + 1
    <3>1. i \in DOMAIN log /\ log'[i] = log[i]
      BY <1>1, <1>2, <2>2
    <3> QED  BY <3>1 DEF SizesAgree
  <2> QED  BY <2>1, <2>2
<1> QED  BY <1>1, <1>2 DEF SizesAgree

Sound == DecoderTypeOK /\ SizesAgree

(* A call that reports something and moves within its file                 *)
LEMMA ReportsSound ==
  ASSUME Sound, Reading, buf' \in [1..call.max -> Nat], at' \in 0..Len(Bytes),
         good' \in BOOLEAN, NEW e, e.err \in Harmless, log' = Append(log, e)
  PROVE  Sound'
<1>1. IsSequence(log') /\ SizesAgree'
  BY ReportLemma DEF Sound, DecoderTypeOK
<1>2. call' = call /\ current' = current /\ pc' = pc
  BY DEF Reading
<1>3. Bytes' = Bytes
  BY <1>2 DEF Bytes, File
<1> QED  BY <1>1, <1>2, <1>3 DEF Sound, DecoderTypeOK

(* parseBody never meets a message that is larger than it was created for, *)
(* nor a payload that is not what the header says.                         *)
LEMMA ShownLemma ==
  ASSUME NEW v, NEW h, NEW r, r.err \in Harmless
  PROVE  Shown(v, h, r).err \in Harmless
BY DEF Shown, Harmless

LEMMA ReadMessageSound ==
  ASSUME Sound, ReadMessage
  PROVE  Sound'
<1> DEFINE n == payloadSize(Header)
           b == ReadInto(WithHeader, Body, n)
           p == SubSeq(b, 1, IF n <= Len(b) THEN n ELSE Len(b))
           r == parseBody(Parser(call, Header.type), Header, p)
           e == Shown(call, Header, r)
<1>1. /\ Framed /\ Header.err = "none" /\ HasRoom(Header) /\ PayloadRead(Header)
      /\ buf' = b /\ at' = Body + gcount(Body, n) /\ log' = Append(log, e) /\ good' = good
  BY DEF ReadMessage
<1>2. DecoderTypeOK /\ pc = "read" /\ Reading
  BY <1>1 DEF Sound, Framed, Reading
<1>3. /\ call.max \in Nat /\ 7 + call.max < U32Range /\ at \in Nat /\ Len(Bytes) \in Nat
  BY <1>2, FileLemma
<1>4. /\ Header.messageSize \in Nat /\ 7 <= Header.messageSize /\ Body = at + 7
  BY <1>1, <1>2, FramedLemma
<1>5. /\ n \in Nat /\ n = Header.messageSize - 7 /\ n <= call.max
      /\ Body + n <= Len(Bytes) /\ gcount(Body, n) = n
      /\ b \in [1..call.max -> Nat]
      /\ p = SubSeq(Bytes, Body + 1, Body + n)
      /\ Len(SubSeq(Bytes, Body + 1, Body + n)) = n
  BY <1>1, <1>2, PayloadLemma
<1> HIDE DEF n, b, p
<1>6. Parser(call, Header.type).max = call.max
  BY DEF Parser
<1>7. Len(p) = Header.messageSize - 7 /\ Header.messageSize <= 7 + call.max
  <2>1. Len(p) = n
    BY <1>5, Zenon
  <2>2. n = Header.messageSize - 7 /\ n <= call.max
    BY <1>5
  <2>3. Header.messageSize \in Nat /\ call.max \in Nat
    BY <1>3, <1>4
  <2> QED  BY <2>1, <2>2, <2>3
<1>8. r.err \in {"none", "NoData", "UnsupportedMessageType"}
  BY <1>3, <1>4, <1>6, <1>7, ParseErrors
<1> HIDE DEF r
<1>9. e.err \in Harmless
  <2>1. r.err \in Harmless
    BY <1>8 DEF Harmless
  <2> QED  BY <2>1, ShownLemma
<1> HIDE DEF e
<1>10. at' \in 0..Len(Bytes)
  BY <1>1, <1>3, <1>4, <1>5
<1>11. good' \in BOOLEAN
  BY <1>1, <1>2 DEF DecoderTypeOK
<1> QED  BY <1>1, <1>2, <1>5, <1>9, <1>10, <1>11, ReportsSound

LEMMA SoundStep ==
  ASSUME Sound, [Next]_vars
  PROVE  Sound'
<1>0. DecoderTypeOK /\ SizesAgree
  BY DEF Sound
<1>1. ASSUME pc = "read"
      PROVE  /\ call.max \in Nat /\ at \in Nat /\ Len(Bytes) \in Nat /\ at <= Len(Bytes)
             /\ Bytes \in Seq(Nat) /\ buf \in [1..call.max -> Nat] /\ Body = at + 7
             /\ 7 \in Nat /\ headerSize = 7 /\ WithHeader \in [1..call.max -> Nat]
  <2>1. /\ call.max \in Nat /\ at \in Nat /\ Len(Bytes) \in Nat /\ at <= Len(Bytes)
        /\ Bytes \in Seq(Nat) /\ Body = at + 7
    BY <1>0, <1>1, FileLemma
  <2>2. buf \in [1..call.max -> Nat] /\ headerSize = 7 /\ 7 \in Nat
    BY <1>0 DEF DecoderTypeOK, headerSize
  <2>3. WithHeader \in [1..call.max -> Nat]
    BY <2>1, <2>2, ReadIntoType DEF WithHeader
  <2> QED  BY <2>1, <2>2, <2>3
<1>2. CASE ReadNothing
  <2>1. UNCHANGED <<call, pc, current, at, buf, log>> /\ good' = FALSE
    BY <1>2 DEF ReadNothing, Reading
  <2> QED  BY <1>0, <2>1 DEF Sound, DecoderTypeOK, SizesAgree, Bytes, File
<1>3. CASE HeaderCut
  <2> DEFINE e == [err |-> "EOF"]
  <2>1. /\ Reading /\ pc = "read" /\ buf' = WithHeader /\ at' = Len(Bytes) /\ good' = FALSE
        /\ log' = Append(log, e)
    BY <1>3 DEF HeaderCut, Reading, Report
  <2>2. e.err \in Harmless /\ at' \in 0..Len(Bytes)
    BY <1>1, <2>1 DEF Harmless
  <2> HIDE DEF e
  <2> QED  BY <1>1, <2>1, <2>2, ReportsSound
<1>4. CASE BadHeader
  <2> DEFINE e == [err |-> Header.err]
  <2>1. /\ Framed /\ Reading /\ pc = "read" /\ buf' = WithHeader /\ at' = Body /\ good' = good
        /\ log' = Append(log, e)
    BY <1>4 DEF BadHeader, Framed, Reading, Report
  <2>2. Header.err \in {"none", "NoData", "IllFormedHeader_FrameTooShort"} /\ at + 7 <= Len(Bytes)
    BY <1>0, <2>1, FramedLemma
  <2>3. e.err \in Harmless
    BY <2>2 DEF Harmless
  <2>4. at' \in 0..Len(Bytes)
    <3>1. at \in Nat /\ Len(Bytes) \in Nat /\ at' = at + 7
      BY <1>1, <2>1
    <3> QED  BY <2>2, <3>1
  <2>5. good' \in BOOLEAN
    BY <1>0, <2>1 DEF DecoderTypeOK
  <2> HIDE DEF e
  <2> QED  BY <1>1, <2>1, <2>3, <2>4, <2>5, ReportsSound
<1>5. CASE DataOverflow
  <2> DEFINE e == [err |-> "Data overflow"]
  <2>1. /\ Framed /\ Reading /\ pc = "read" /\ buf' = WithHeader /\ at' = Body /\ good' = good
        /\ log' = Append(log, e)
    BY <1>5 DEF DataOverflow, Framed, Reading, Report
  <2>2. at + 7 <= Len(Bytes)
    BY <1>0, <2>1, FramedLemma
  <2>3. e.err \in Harmless
    BY <2>2 DEF Harmless
  <2>4. at' \in 0..Len(Bytes)
    <3>1. at \in Nat /\ Len(Bytes) \in Nat /\ at' = at + 7
      BY <1>1, <2>1
    <3> QED  BY <2>2, <3>1
  <2>5. good' \in BOOLEAN
    BY <1>0, <2>1 DEF DecoderTypeOK
  <2> HIDE DEF e
  <2> QED  BY <1>1, <2>1, <2>3, <2>4, <2>5, ReportsSound
<1>6. CASE PayloadCut
  <2> DEFINE e == [err |-> "unexpected EOF"]
             n == payloadSize(Header)
  <2>1. /\ Framed /\ Reading /\ pc = "read" /\ buf' = ReadInto(WithHeader, Body, n)
        /\ at' = Len(Bytes) /\ good' = FALSE /\ log' = Append(log, e) /\ Header.err = "none"
    BY <1>6 DEF PayloadCut, Framed, Reading, Report
  <2>2. at + 7 <= Len(Bytes) /\ Header.messageSize \in Nat /\ 7 <= Header.messageSize
    BY <1>0, <2>1, FramedLemma
  <2>3. n \in Nat
    BY <2>2 DEF payloadSize, headerSize
  <2>4. Body \in Nat /\ Body <= Len(Bytes)
    <3>1. at \in Nat /\ Body = at + 7
      BY <1>1, <2>1
    <3> QED  BY <2>2, <3>1
  <2> HIDE DEF n
  <2>5. buf' \in [1..call.max -> Nat]
    BY <1>1, <2>1, <2>3, <2>4, ReadIntoType
  <2>6. e.err \in Harmless
    BY DEF Harmless
  <2>7. at' \in 0..Len(Bytes)
    <3>1. Len(Bytes) \in Nat /\ at' = Len(Bytes)
      BY <1>1, <2>1
    <3> QED  BY <3>1
  <2> HIDE DEF e
  <2> QED  BY <2>1, <2>5, <2>6, <2>7, ReportsSound
<1>7. CASE ReadMessage  BY <1>7, ReadMessageSound
<1>8. CASE OpenFile
  <2>1. /\ call' = call /\ current' = current /\ buf' = buf /\ at' = 0 /\ log' = << >>
        /\ good' = TRUE /\ pc' = "read" /\ current <= Len(call.files)
    BY <1>8 DEF OpenFile
  <2>2. call \in Invocations /\ current \in Nat \ {0} /\ Len(call.files) \in Nat
    BY <1>0, FilesAssumption DEF DecoderTypeOK
  <2>3. current \in 1..Len(call.files)
    BY <2>1, <2>2
  <2>4. IsFile(File)
    BY <2>2, <2>3, FilesAssumption DEF File
  <2>5. 0 \in 0..Len(Bytes)
    BY <2>4 DEF IsFile, Bytes
  <2>6. Bytes' = Bytes
    BY <2>1 DEF Bytes, File
  <2>7. IsSequence(<< >>) /\ SizesAgree'
    BY <2>1 DEF IsSequence, SizesAgree
  <2> QED  BY <1>0, <2>1, <2>3, <2>5, <2>6, <2>7 DEF Sound, DecoderTypeOK
<1>9. CASE OpenFails \/ FileDone \/ Exit
  <2>1. /\ UNCHANGED <<call, at, good, buf, log>> /\ pc' # "read"
        /\ current' \in {current, current + 1}
    BY <1>9 DEF OpenFails, FileDone, Exit
  <2> QED  BY <1>0, <2>1 DEF Sound, DecoderTypeOK, SizesAgree
<1>10. CASE UNCHANGED vars
  BY <1>0, <1>10 DEF vars, Sound, DecoderTypeOK, SizesAgree, Bytes, File
<1> QED
  BY <1>2, <1>3, <1>4, <1>5, <1>6, <1>7, <1>8, <1>9, <1>10 DEF Next, Control, Exited

LEMMA InitSound == Init => Sound
<1> SUFFICES ASSUME Init PROVE Sound
  OBVIOUS
<1>1. call \in Invocations /\ call.max \in Nat
  BY BufferAssumption DEF Init
<1>2. /\ pc = "open" /\ current = 1 /\ good = FALSE /\ log = << >>
      /\ buf = [i \in 1..call.max |-> 0]
  BY DEF Init
<1>3. IsSequence(log) /\ SizesAgree
  BY <1>2 DEF IsSequence, SizesAgree
<1>4. buf \in [1..call.max -> Nat] /\ current \in Nat \ {0}
  BY <1>2
<1> QED  BY <1>1, <1>2, <1>3, <1>4 DEF Sound, DecoderTypeOK

(* Whatever is in the files, no parser is given a payload of another size  *)
(* than the header says or a message larger than it was created for: the   *)
(* check against buffer.size() in readAndPrintMessage, the limit of the    *)
(* reader and maxMessageSize agree for every -m.                           *)
THEOREM DecoderSizesAgree == Spec => []SizesAgree
<1>1. Sound /\ [Next]_vars => Sound'
  BY SoundStep
<1>2. Sound => SizesAgree
  BY DEF Sound
<1> QED  BY <1>1, <1>2, InitSound, PTL DEF Spec

-----------------------------------------------------------------------------
(* The messages of a file                                                  *)

LEMMA ReportsLemma ==
  ASSUME NEW n \in Nat
  PROVE  /\ IsSequence(Reports(n)) /\ Len(Reports(n)) = n
         /\ Append(Reports(n), File.frames[n + 1].report) = Reports(n + 1)
<1> DEFINE s == Reports(n)
           e == File.frames[n + 1].report
           t == Append(s, e)
<1>1. s = [i \in 1..n |-> File.frames[i].report]
  BY DEF Reports
<1> HIDE DEF e
<1>2. \A i \in 1..n : s[i] = File.frames[i].report
  BY <1>1
<1>3. IsSequence(s) /\ Len(s) = n
  <2>1. DOMAIN s = 1..n /\ s = [i \in 1..n |-> s[i]]
    BY <1>1
  <2> HIDE DEF s
  <2>2. \A i \in 1..n : s[i] \in {s[j] : j \in DOMAIN s}
    BY <2>1
  <2> QED  BY <2>1, <2>2 DEF IsSequence
<1> HIDE DEF s
<1>4. /\ IsSequence(t) /\ \A i \in 1..n : t[i] = s[i]
      /\ t[n + 1] = e /\ DOMAIN t = 1..(n + 1)
  BY <1>3, AppendLemma
<1> HIDE DEF t
<1>5. t = [i \in 1..(n + 1) |-> t[i]]
  BY <1>4 DEF IsSequence
<1>6. \A i \in 1..(n + 1) : t[i] = File.frames[i].report
  <2> SUFFICES ASSUME NEW i \in 1..(n + 1) PROVE t[i] = File.frames[i].report
    OBVIOUS
  <2>1. CASE i = n + 1
    BY <1>4, <2>1 DEF e
  <2>2. CASE i # n + 1
    <3>1. i \in 1..n
      BY <2>2
    <3> QED  BY <1>2, <1>4, <3>1
  <2> QED  BY <2>1, <2>2
<1>7. t = Reports(n + 1)
  BY <1>5, <1>6 DEF Reports
<1> QED  BY <1>3, <1>7 DEF s, t, e

LEMMA WindowIs ==
  ASSUME NEW b \in Seq(Nat), NEW p \in Nat, NEW n \in Nat, p + n <= Len(b)
  PROVE  SubSeq(b, p + 1, p + n) = [k \in 1..n |-> b[p + k]]
OBVIOUS

(* The message at which the stream stands                                  *)
LEMMA NextFrame ==
  ASSUME DecoderTypeOK, pc = "read", WellFramed, NEW n \in Whole, at = File.ends[n],
         NEW f, f = File.frames[n + 1].bytes
  PROVE  /\ n \in Nat /\ at \in Nat
         /\ at < Len(Bytes) => n + 1 \in 1..Len(File.frames)
         /\ n + 1 \in 1..Len(File.frames) =>
              /\ f \in Seq(Nat) /\ 7 <= Len(f) /\ File.ends[n + 1] = at + Len(f)
              /\ \A k \in 1..Len(f) : at + k <= Len(Bytes) => Bytes[at + k] = f[k]
              /\ IsWellFramed(call, f)
              /\ parseMessageHeader(f).err = "none"
              /\ parseMessageHeader(f).messageSize = Len(f)
<1>1. IsFile(File) /\ at \in Nat /\ Len(Bytes) \in Nat
  BY FileLemma
<1>2. /\ Len(File.frames) \in Nat /\ Len(Bytes) <= File.ends[Len(File.frames)]
  BY <1>1 DEF IsFile, Bytes
<1>3. n \in 0..Len(File.frames)
  BY DEF Whole
<1>4. n \in Nat /\ (n + 1) - 1 = n
  BY <1>2, <1>3
<1>5. ASSUME at < Len(Bytes)  PROVE n + 1 \in 1..Len(File.frames)
  <2>1. n # Len(File.frames)
    BY <1>1, <1>2, <1>5
  <2> QED  BY <1>2, <1>3, <2>1
<1>6. ASSUME n + 1 \in 1..Len(File.frames)
      PROVE  /\ f \in Seq(Nat) /\ File.ends[n + 1] = at + Len(f)
             /\ \A k \in 1..Len(f) : at + k <= Len(Bytes) => Bytes[at + k] = f[k]
  <2>1. LET b == File.frames[n + 1].bytes
        IN  /\ b \in Seq(Nat)
            /\ File.ends[n + 1] = File.ends[(n + 1) - 1] + Len(b)
            /\ \A k \in 1..Len(b) : File.ends[(n + 1) - 1] + k <= Len(File.bytes) =>
                                      File.bytes[File.ends[(n + 1) - 1] + k] = b[k]
    BY <1>1, <1>6 DEF IsFile
  <2> QED  BY <1>4, <2>1, Zenon DEF Bytes
<1>7. ASSUME n + 1 \in 1..Len(File.frames)
      PROVE  /\ IsWellFramed(call, f) /\ 7 <= Len(f)
             /\ parseMessageHeader(f).err = "none"
             /\ parseMessageHeader(f).messageSize = Len(f)
  <2>1. IsWellFramed(call, f)
    BY <1>7 DEF WellFramed
  <2>2. /\ parseMessageHeader(f).err = "none"
        /\ parseMessageHeader(f).messageSize = Len(f)
    BY <2>1 DEF IsWellFramed
  <2>3. 7 <= Len(f)
    BY <1>6, <1>7, <2>2, HeaderCases
  <2> QED  BY <2>1, <2>2, <2>3
<1> QED  BY <1>1, <1>4, <1>5, <1>6, <1>7

(* What the program takes for the header is the header of that message,    *)
(* and what it takes for the payload is its payload.                       *)
LEMMA NextMessage ==
  ASSUME DecoderTypeOK, Framed, WellFramed, NEW n \in Whole, at = File.ends[n],
         NEW f, f = File.frames[n + 1].bytes
  PROVE  /\ n + 1 \in 1..Len(File.frames) /\ f \in Seq(Nat) /\ 7 <= Len(f)
         /\ Header = parseMessageHeader(f)
         /\ Header.err = "none" /\ payloadSize(Header) = Len(f) - 7 /\ HasRoom(Header)
         /\ File.ends[n + 1] = at + Len(f) /\ Body = at + 7
         /\ at + Len(f) <= Len(Bytes) =>
              SubSeq(Bytes, Body + 1, Body + (Len(f) - 7)) = SubSeq(f, 8, Len(f))
<1>1. pc = "read"
  BY DEF Framed, Reading
<1> DEFINE c == SubSeq(Bytes, at + 1, at + 7)
<1>2. /\ c \in Seq(Nat) /\ Len(c) = 7 /\ Header = parseMessageHeader(c)
      /\ at + 7 <= Len(Bytes) /\ Body = at + 7
  BY FramedLemma
<1>3. Bytes \in Seq(Nat) /\ Len(Bytes) \in Nat /\ at \in Nat
  BY <1>1, FileLemma
<1>4. at < Len(Bytes)
  BY <1>2, <1>3
<1>5. /\ n + 1 \in 1..Len(File.frames)
      /\ f \in Seq(Nat) /\ 7 <= Len(f) /\ File.ends[n + 1] = at + Len(f)
      /\ \A k \in 1..Len(f) : at + k <= Len(Bytes) => Bytes[at + k] = f[k]
      /\ IsWellFramed(call, f)
      /\ parseMessageHeader(f).err = "none"
      /\ parseMessageHeader(f).messageSize = Len(f)
  BY <1>1, <1>4, NextFrame
<1> DEFINE l == Len(f)
           z == Len(Bytes)
<1>0. at \in Nat /\ l \in Nat /\ z \in Nat /\ 7 <= l /\ at + 7 <= z
  <2>1. f \in Seq(Nat) /\ 7 <= l
    BY <1>5
  <2>2. l \in Nat
    BY <2>1
  <2> QED  BY <1>2, <1>3, <2>1, <2>2
<1> HIDE DEF l, z
<1>6. \A i \in 1..7 : c[i] = f[i]
  <2> SUFFICES ASSUME NEW i \in 1..7 PROVE c[i] = f[i]
    OBVIOUS
  <2>1. c[i] = Bytes[at + i]
    <3>1. 7 \in Nat /\ at + 7 <= Len(Bytes)
      BY <1>0 DEF z
    <3> QED  BY <1>3, <3>1, WindowLemma, Zenon
  <2>2. i \in 1..l /\ at + i <= z
    BY <1>0
  <2> QED  BY <1>5, <2>1, <2>2 DEF l, z
<1> HIDE DEF c
<1>7. Header = parseMessageHeader(f)
  <2>1. 7 <= Len(c)
    BY <1>2
  <2> QED  BY <1>2, <1>5, <1>6, <2>1, SameHeader
<1>8. Header.err = "none" /\ payloadSize(Header) = Len(f) - 7 /\ HasRoom(Header)
  <2>1. payloadSize(Header) <= call.max
    BY <1>5, <1>7 DEF IsWellFramed
  <2> QED  BY <1>5, <1>7, <2>1 DEF payloadSize, headerSize, HasRoom
<1>9. ASSUME at + Len(f) <= Len(Bytes)
      PROVE  SubSeq(Bytes, Body + 1, Body + (Len(f) - 7)) = SubSeq(f, 8, Len(f))
  <2> DEFINE m == Len(f) - 7
  <2>0. m = l - 7 /\ Body = at + 7 /\ at + l <= z
    BY <1>2, <1>9 DEF l, z
  <2> HIDE DEF m
  <2>1. m \in Nat /\ Body \in Nat /\ Body + m <= Len(Bytes) /\ Len(f) = m + 7
    <3>1. m \in Nat /\ Body \in Nat /\ Body + m <= z /\ l = m + 7
      BY <1>0, <2>0
    <3> QED  BY <3>1 DEF l, z
  <2>2. SubSeq(Bytes, Body + 1, Body + m) = [k \in 1..m |-> Bytes[Body + k]]
    BY <1>3, <2>1
  <2>3. SubSeq(f, 8, Len(f)) = [k \in 1..m |-> f[7 + k]]
    <3>1. 7 \in Nat /\ 7 + m <= Len(f) /\ 7 + 1 = 8 /\ 7 + m = Len(f)
      BY <2>1
    <3>2. f \in Seq(Nat) /\ m \in Nat
      BY <1>5, <2>1
    <3>3. SubSeq(f, 7 + 1, 7 + m) = [k \in 1..m |-> f[7 + k]]
      BY <3>1, <3>2, WindowIs
    <3> QED  BY <3>1, <3>3, Zenon
  <2>4. ASSUME NEW k \in 1..m  PROVE Bytes[Body + k] = f[7 + k]
    <3>1. 7 + k \in 1..Len(f) /\ at + (7 + k) = Body + k /\ at + (7 + k) <= Len(Bytes)
      <4>1. 7 + k \in 1..l /\ at + (7 + k) = Body + k /\ at + (7 + k) <= z
        BY <1>0, <2>0
      <4> QED  BY <4>1 DEF l, z
    <3> QED  BY <1>5, <3>1
  <2> QED  BY <2>2, <2>3, <2>4 DEF m
<1> QED  BY <1>2, <1>5, <1>7, <1>8, <1>9

-----------------------------------------------------------------------------
(* Nothing else than the files and their messages                          *)
LEMMA SameFile ==
  ASSUME call' = call, current' = current
  PROVE  /\ File' = File /\ Bytes' = Bytes /\ Whole' = Whole /\ WellFramed' = WellFramed
         /\ \A n : Reports(n)' = Reports(n)
BY DEF File, Bytes, Whole, WellFramed, Reports

(* A file that was just opened: nothing is reported                        *)
LEMMA OpenFileReported ==
  ASSUME Sound, OpenFile, Sound'
  PROVE  EveryMessageReported'
<1>1. /\ call' = call /\ current' = current /\ at' = 0 /\ log' = << >>
      /\ good' = TRUE /\ pc' = "read"
  BY DEF OpenFile
<1>2. DecoderTypeOK'
  BY DEF Sound
<1>3. current' \in 1..Len(call'.files) /\ call' \in Invocations
  BY <1>1, <1>2 DEF DecoderTypeOK
<1>4. IsFile(File)
  BY <1>1, <1>3, FilesAssumption DEF File
<1>5. 0 \in Whole /\ File.ends[0] = 0
  BY <1>4 DEF Whole, Bytes, IsFile
<1>6. Reports(0) = << >>
  BY DEF Reports
<1>7. 0 \in Whole' /\ at' = File'.ends[0] /\ log' = Reports(0)'
  BY <1>1, <1>5, <1>6, SameFile
<1> QED  BY <1>1, <1>7 DEF EveryMessageReported

(* The message is read and reported                                        *)
LEMMA ReadMessageReported ==
  ASSUME Sound, ReadMessage, WellFramed,
         NEW n \in Whole, at = File.ends[n], log = Reports(n)
  PROVE  /\ n + 1 \in Whole /\ at' = File.ends[n + 1] /\ log' = Reports(n + 1)
         /\ good' = good
<1> DEFINE f == File.frames[n + 1].bytes
           m == payloadSize(Header)
           b == ReadInto(WithHeader, Body, m)
           p == SubSeq(b, 1, IF m <= Len(b) THEN m ELSE Len(b))
           e == Shown(call, Header, parseBody(Parser(call, Header.type), Header, p))
<1>1. /\ Framed /\ Header.err = "none" /\ HasRoom(Header) /\ PayloadRead(Header)
      /\ at' = Body + gcount(Body, m) /\ log' = Append(log, e) /\ good' = good
  BY DEF ReadMessage
<1>2. DecoderTypeOK /\ pc = "read"
  BY <1>1 DEF Sound, Framed, Reading
<1>3. /\ n + 1 \in 1..Len(File.frames) /\ f \in Seq(Nat) /\ 7 <= Len(f)
      /\ Header = parseMessageHeader(f) /\ m = Len(f) - 7
      /\ File.ends[n + 1] = at + Len(f) /\ Body = at + 7
      /\ at + Len(f) <= Len(Bytes) =>
           SubSeq(Bytes, Body + 1, Body + (Len(f) - 7)) = SubSeq(f, 8, Len(f))
  BY <1>1, <1>2, NextMessage
<1>4. /\ Body + m <= Len(Bytes) /\ gcount(Body, m) = m
      /\ p = SubSeq(Bytes, Body + 1, Body + m)
  BY <1>1, <1>2, PayloadLemma
<1>5. n \in Nat /\ at \in Nat /\ Len(Bytes) \in Nat
  BY <1>2, NextFrame, FileLemma
<1> DEFINE l == Len(f)
<1>6. l \in Nat
  <2>1. f \in Seq(Nat)
    BY <1>3
  <2> QED  BY <2>1
<1> HIDE DEF m, b, p, f, l
<1>7. Body + m = at + l /\ at + l <= Len(Bytes) /\ m = l - 7
  <2>1. m = l - 7 /\ Body = at + 7 /\ Body + m <= Len(Bytes)
    BY <1>3, <1>4 DEF l
  <2>2. Body + m = at + l
    BY <1>5, <1>6, <2>1
  <2> QED  BY <2>1, <2>2
<1>8. at' = File.ends[n + 1]
  BY <1>1, <1>3, <1>4, <1>7, Zenon DEF l
<1>9. n + 1 \in Whole
  <2>1. n + 1 \in 0..Len(File.frames)
    BY <1>3, <1>5
  <2>2. File.ends[n + 1] <= Len(Bytes)
    BY <1>3, <1>7 DEF l
  <2> QED  BY <2>1, <2>2 DEF Whole
<1>10. p = SubSeq(f, 8, Len(f))
  BY <1>3, <1>4, <1>7 DEF l
<1>11. e = File.frames[n + 1].report
  <2>1. call \in Invocations /\ current \in 1..Len(call.files)
    BY <1>2 DEF DecoderTypeOK
  <2>2. IsWellFramed(call, f)
    BY <1>3 DEF WellFramed, f
  <2>3. headerSize + 1 = 8
    BY DEF headerSize
  <2> DEFINE g == call.files[current].frames[n + 1].bytes
             h == parseMessageHeader(g)
  <2>4. IsWellFramed(call, g) =>
          call.files[current].frames[n + 1].report =
            Shown(call, h, parseBody(Parser(call, h.type), h, SubSeq(g, headerSize + 1, Len(g))))
    BY <1>3, <2>1, ReportsAssumption DEF File
  <2>5. g = f
    BY DEF f, File
  <2> HIDE DEF g
  <2>6. Header = h
    BY <1>3, <2>5
  <2> HIDE DEF h
  <2>7. File.frames[n + 1].report =
          Shown(call, Header, parseBody(Parser(call, Header.type), Header, SubSeq(f, 8, Len(f))))
    BY <2>2, <2>3, <2>4, <2>5, <2>6 DEF File
  <2> QED  BY <1>10, <2>7
<1> HIDE DEF e
<1>12. log' = Reports(n + 1)
  BY <1>1, <1>5, <1>11, ReportsLemma
<1> QED  BY <1>1, <1>8, <1>9, <1>12

(* The file ends within a message, or behind the last one                  *)
LEMMA NoMoreWhole ==
  ASSUME DecoderTypeOK, pc = "read", WellFramed, NEW n \in Whole, at = File.ends[n],
         n + 1 \in 1..Len(File.frames) => Len(Bytes) < at + Len(File.frames[n + 1].bytes)
  PROVE  n + 1 \notin Whole
<1>1. n + 1 \in 1..Len(File.frames) => File.ends[n + 1] = at + Len(File.frames[n + 1].bytes)
  BY NextFrame
<1>2. n \in Nat /\ Len(Bytes) \in Nat
  BY NextFrame, FileLemma
<1> SUFFICES ASSUME n + 1 \in Whole PROVE FALSE
  OBVIOUS
<1>3. n + 1 \in 0..Len(File.frames) /\ File.ends[n + 1] <= Len(Bytes)
  BY DEF Whole
<1>4. n + 1 \in 1..Len(File.frames)
  BY <1>2, <1>3
<1>5. IsFile(File)
  BY FileLemma
<1>6. File.ends[n + 1] \in Nat
  BY <1>4, <1>5 DEF IsFile
<1> QED  BY <1>1, <1>2, <1>3, <1>4, <1>6

LEMMA ReportedStep ==
  ASSUME Sound, EveryMessageReported, [Next]_vars, Sound'
  PROVE  EveryMessageReported'
<1>0. DecoderTypeOK
  BY DEF Sound
<1>1. CASE OpenFile  BY <1>1, OpenFileReported
<1>2. CASE OpenFails \/ FileDone \/ Exit
  BY <1>2 DEF OpenFails, FileDone, Exit, EveryMessageReported
<1>3. CASE UNCHANGED vars
  <2>1. /\ call' = call /\ current' = current /\ pc' = pc /\ at' = at /\ good' = good
        /\ log' = log
    BY <1>3 DEF vars
  <2> QED  BY <2>1, SameFile DEF EveryMessageReported
<1>4. CASE Reading
  <2>1. pc = "read" /\ good /\ call' = call /\ current' = current /\ pc' = pc
    BY <1>4 DEF Reading
  <2>2. /\ File' = File /\ Bytes' = Bytes /\ Whole' = Whole /\ WellFramed' = WellFramed
        /\ \A n : Reports(n)' = Reports(n)
    BY <2>1, SameFile
  <2> SUFFICES ASSUME WellFramed PROVE EveryMessageReported'
    BY <2>2 DEF EveryMessageReported
  <2>3. PICK n \in Whole : at = File.ends[n] /\ log = Reports(n)
    BY <2>1 DEF EveryMessageReported
  <2> DEFINE f == File.frames[n + 1].bytes
  <2>4. /\ n \in Nat /\ at \in Nat
        /\ n + 1 \in 1..Len(File.frames) => f \in Seq(Nat) /\ 7 <= Len(f)
    BY <1>0, <2>1, <2>3, NextFrame
  <2>5. /\ Len(Bytes) \in Nat /\ at <= Len(Bytes) /\ Available = Len(Bytes) - at
        /\ Body = at + 7
    BY <1>0, <2>1, FileLemma
  <2>6. CASE ReadNothing
    <3>1. at = Len(Bytes) /\ good' = FALSE /\ log' = log
      BY <2>4, <2>5, <2>6 DEF ReadNothing
    <3>2. ASSUME n + 1 \in 1..Len(File.frames)  PROVE Len(Bytes) < at + Len(f)
      BY <2>4, <2>5, <3>1, <3>2
    <3>3. n + 1 \notin Whole
      BY <1>0, <2>1, <2>3, <3>2, NoMoreWhole
    <3> QED  BY <2>1, <2>2, <2>3, <3>1, <3>3 DEF EveryMessageReported
  <2>7. CASE HeaderCut
    <3>1. /\ Available \in 1..6 /\ good' = FALSE
          /\ log' = Append(log, [err |-> "EOF"])
      BY <2>7 DEF HeaderCut, Report, headerSize
    <3>2. ASSUME n + 1 \in 1..Len(File.frames)  PROVE Len(Bytes) < at + Len(f)
      BY <2>4, <2>5, <3>1, <3>2
    <3>3. n + 1 \notin Whole
      BY <1>0, <2>1, <2>3, <3>2, NoMoreWhole
    <3>4. File.ends[n] # Len(Bytes)
      BY <2>3, <2>4, <2>5, <3>1
    <3> QED  BY <2>1, <2>2, <2>3, <3>1, <3>3, <3>4 DEF EveryMessageReported
  <2>8. CASE BadHeader \/ DataOverflow
    <3>1. Framed /\ (Header.err # "none" \/ ~HasRoom(Header))
      BY <2>8 DEF BadHeader, DataOverflow
    <3>2. Header.err = "none" /\ HasRoom(Header)
      BY <1>0, <2>3, <3>1, NextMessage
    <3> QED  BY <3>1, <3>2
  <2>9. CASE PayloadCut
    <3>1. /\ Framed /\ ~PayloadRead(Header) /\ good' = FALSE
          /\ log' = Append(log, [err |-> "unexpected EOF"])
      BY <2>9 DEF PayloadCut, Report
    <3>2. payloadSize(Header) = Len(f) - 7 /\ n + 1 \in 1..Len(File.frames)
      BY <1>0, <2>3, <3>1, NextMessage
    <3>3. ~(Body + (Len(f) - 7) <= Len(Bytes))
      BY <3>1, <3>2 DEF PayloadRead, gcount
    <3>4. Len(f) \in Nat
      BY <2>4, <3>2
    <3>5. Len(Bytes) < at + Len(f)
      <4> DEFINE l == Len(f)
      <4>1. l \in Nat /\ ~((at + 7) + (l - 7) <= Len(Bytes))
        BY <2>5, <3>3, <3>4
      <4> HIDE DEF l
      <4>2. Len(Bytes) < at + l
        BY <2>4, <2>5, <4>1
      <4> QED  BY <4>2 DEF l
    <3>6. n + 1 \notin Whole
      BY <1>0, <2>1, <2>3, <3>5, NoMoreWhole
    <3>7. at + 7 <= Len(Bytes)
      BY <1>0, <3>1, FramedLemma
    <3>8. File.ends[n] # Len(Bytes)
      BY <2>3, <2>4, <2>5, <3>7
    <3> QED  BY <2>1, <2>2, <2>3, <3>1, <3>6, <3>8 DEF EveryMessageReported
  <2>10. CASE ReadMessage
    <3>1. n + 1 \in Whole /\ at' = File.ends[n + 1] /\ log' = Reports(n + 1) /\ good' = good
      BY <2>3, <2>10, ReadMessageReported
    <3> QED  BY <2>1, <2>2, <3>1 DEF EveryMessageReported
  <2>11. CASE OpenFile \/ OpenFails \/ FileDone \/ Exit \/ UNCHANGED vars
    BY <1>1, <1>2, <1>3, <2>11
  <2> QED
    BY <2>6, <2>7, <2>8, <2>9, <2>10, <2>11 DEF Next, Control, Exited
<1>5. CASE ~Reading
  <2>1. ~(ReadNothing \/ HeaderCut \/ BadHeader \/ DataOverflow \/ PayloadCut \/ ReadMessage)
    BY <1>5 DEF ReadNothing, HeaderCut, BadHeader, DataOverflow, PayloadCut, ReadMessage, Framed
  <2> QED  BY <1>1, <1>2, <1>3, <2>1 DEF Next, Control, Exited
<1> QED  BY <1>4, <1>5

(* The messages of a file are reported one by one and in their order, each *)
(* as if it had been the only one, wherever the file ends, whatever was    *)
(* read into the buffer before, and whatever became of the other messages. *)
THEOREM DecoderReportsEveryMessage == Spec => []EveryMessageReported
<1> DEFINE I == Sound /\ EveryMessageReported
<1>1. Init => I
  BY InitSound DEF Init, EveryMessageReported
<1>2. I /\ [Next]_vars => I'
  BY SoundStep, ReportedStep
<1>3. I => EveryMessageReported
  OBVIOUS
<1> HIDE DEF I
<1> QED  BY <1>1, <1>2, <1>3, PTL DEF Spec
=============================================================================
