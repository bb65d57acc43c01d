-------------------------- MODULE MCStreamDecoder --------------------------
(* An instance of StreamDecoder for TLC: files of up to three messages,    *)
(* cut at any byte of the last one, with messages that the parser knows,   *)
(* does not know, cannot decode, that are too large, or that are none;     *)
(* alone, or behind another file.                                          *)
EXTENDS StreamDecoder, MessageFrame, SampleValues

LOCAL INSTANCE SequencesExt

Framing(code, tag, payload) ==
  HeaderBytes([messageSize |-> headerSize + Len(payload), type |-> code, tag |-> tag]) \o payload

Known(ver, dir, name, header, tag, val) ==
  LET m == WholeMessage(ver, dir, name, val)
  IN  [bytes  |-> Framing(m.code, tag, FlattenSeq(m.chunks)),
       report |-> [err |-> "none", header |-> header, tag |-> tag,
                   dir |-> dir, name |-> name, val |-> val]]

Wrong(bytes, err) == [bytes |-> bytes, report |-> [err |-> err]]

TClunk(v)  == Known(v, "Request", "Clunk", "TClunk", 1, <<"fid">> :> 70)
RClunk(v)  == Known(v, "Response", "Clunk", "RClunk", 2, << >>)
RRead(v)   == Known(v, "Response", "Read", "RRead", 3, <<"data">> :> <<7, 6, 5>>)
Large(v)   == Known(v, "Response", "Read", "RRead", 4, <<"data">> :> [i \in 1..12 |-> i % 8])
Tstatfs(v) == IF v = "9P2000.L"
              THEN Known(v, "Request", "StatFS", "Tstatfs", 5, <<"fid">> :> 9)
              ELSE Wrong(Framing(MessageTypeL.Tstatfs, 5, U32Bytes(9)), "UnsupportedMessageType")
Broken(v)  == Wrong(Framing(MessageType9P.RRead, 6, U32Bytes(3) \o <<1>>), "NoData")
NoFrame(v) == Wrong(U32Bytes(6) \o <<120, 7, 0>>, "IllFormedHeader_FrameTooShort")

Alphabet(v) == {TClunk(v), RClunk(v), RRead(v), Large(v), Tstatfs(v), Broken(v), NoFrame(v)}

CutFile(frames, cut) ==
  LET all == FlattenSeq([i \in DOMAIN frames |-> frames[i].bytes])
      ends[i \in 0..Len(frames)] ==
        IF i = 0 THEN 0 ELSE ends[i - 1] + Len(frames[i].bytes)
  IN  [opens |-> TRUE, frames |-> frames, ends |-> ends,
       bytes |-> SubSeq(all, 1, Len(all) - cut)]

NoFile == [opens |-> FALSE, frames |-> << >>, ends |-> 0 :> 0, bytes |-> << >>]

Cuts(frames) == IF frames = << >> THEN {0} ELSE 0..(Len(frames[Len(frames)].bytes) - 1)

FilesOf(seqs) == UNION {{CutFile(s, c) : c \in Cuts(s)} : s \in seqs}

Single(v) == {<<f>> : f \in Alphabet(v)}
Double(v) == {<<f, g>> : f, g \in Alphabet(v)}
Triple(v) == {<<f, g, h>> : f, g, h \in Alphabet(v)}

MCInvocations ==
  [ver : {"9P2000"}, max : {12, 40},
   files : {<<f>> : f \in FilesOf({<< >>} \cup Single("9P2000") \cup Double("9P2000"))}]
  \cup
  [ver : {"9P2000.L"}, max : {12}, files : {<<f>> : f \in FilesOf(Triple("9P2000.L"))}]
  \cup
  [ver : {"9P2000.e"}, max : {12, 40},
   files : {<<f, g>> : f \in FilesOf({<<Large("9P2000.e")>>, <<RClunk("9P2000.e"), RRead("9P2000.e")>>}) \cup {NoFile},
                       g \in FilesOf({<<TClunk("9P2000.e")>>, <<RRead("9P2000.e")>>}) \cup {NoFile}}]
=============================================================================
