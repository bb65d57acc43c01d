------------------------------- MODULE Corpus -------------------------------
(***************************************************************************)
(* The corpus generator, examples/9p-corpus.cpp: one message of each kind, *)
(* each to a file that is named after it.  All requests go through one     *)
(* RequestWriter and all responses through one ResponseWriter, over a      *)
(* stream that is emptied after each message (MessageDump).                *)
(*                                                                         *)
(* Messages that the code completes with a partial writer are taken as a   *)
(* whole; that their bytes are the same is FrameAsIntended of              *)
(* MessageWriter.                                                          *)
(***************************************************************************)
EXTENDS MessageFrame, MessageParser, MessageNames, FiniteSets

CONSTANTS
  CorpusVersions,     \* values of the argument version
  FieldsOf(_, _, _),  \* the fields given to the message of a version, a
                      \* direction and a name
  kMaxMessageSize,    \* the size of the buffer
  MaxFailures         \* bound: files that cannot be opened

VARIABLES
  version,  \* protocolVersion
  dir,      \* "Request" in dumpAllRequests, "Response" in dumpAllResponses
  todo,     \* the messages still to be dumped: [ver, name]
  out,      \* the ByteWriter of this function
  header,   \* _header of its writer
  files,    \* what was written, by file name
  dumped,   \* history: the messages dumped: [ver, dir, name, file]
  failed    \* history: names of the files that could not be opened

vars == <<version, dir, todo, out, header, files, dumped, failed>>

-----------------------------------------------------------------------------
(* The lists of messages *)

Of(ver, names) == [i \in DOMAIN names |-> [ver |-> ver, name |-> names[i]]]

(* What only one extension has *)
RequestsOf(v) ==
  CASE v = "9P2000.e" -> Of(v, <<"Session", "ShortRead", "ShortWrite">>)
    [] v = "9P2000.L" -> Of(v, <<"StatFS", "LOpen", "LCreate", "Symlink", "MkNode", "Rename",
                                 "ReadLink", "GetAttr", "SetAttr", "XAttrWalk", "XAttrCreate",
                                 "ReadDir", "FSync", "Lock", "GetLock", "Link", "MkDir",
                                 "RenameAt", "UnlinkAt">>)
    [] OTHER -> << >>

ResponsesOf(v) ==
  CASE v = "9P2000.e" -> Of(v, <<"Session", "ShortRead", "ShortWrite">>)
    [] v = "9P2000.L" -> Of(v, <<"LError", "StatFS", "LOpen", "LCreate", "Symlink", "MkNode",
                                 "Rename", "ReadLink", "GetAttr", "SetAttr", "XAttrWalk",
                                 "XAttrCreate", "FSync", "Lock", "GetLock", "Link", "MkDir",
                                 "RenameAt", "UnlinkAt", "ReadDir">>)
    [] OTHER -> << >>

(* Only 9P2000.u is given the messages that 9P2000.u extends. *)
Extended(v) == IF v = "9P2000.u" THEN v ELSE "9P2000"

(* A mistake: a message is forgotten. *)
dumpAllRequestsShort(v) ==
  Of("9P2000", <<"Version", "Flush", "Walk", "Open", "Read", "Write", "Clunk", "Stat">>)
  \o Of(Extended(v), <<"Auth", "Attach", "Create", "WStat">>)
  \o RequestsOf(v)

dumpAllRequests(v) ==
  Of("9P2000", <<"Version", "Flush", "Walk", "Open", "Read", "Write", "Clunk", "Remove", "Stat">>)
  \o Of(Extended(v), <<"Auth", "Attach", "Create", "WStat">>)
  \o RequestsOf(v)

dumpAllResponses(v) ==
  Of("9P2000", <<"Version", "Auth", "Flush", "Attach", "Walk", "Open", "Create", "Read",
                 "Write", "Clunk", "Remove", "WStat">>)
  \o Of(Extended(v), <<"Error", "Stat">>)
  \o ResponsesOf(v)

-----------------------------------------------------------------------------
NewStream == [mem |-> [i \in 0..(kMaxMessageSize - 1) |-> 0], pos |-> 0, lim |-> kMaxMessageSize]

(* A mistake: the size in the header is left as it is. *)
WrittenUnpatched(m) ==
  LET w == WholeMessage(m.ver, dir, m.name, FieldsOf(m.ver, dir, m.name))
      h == [header EXCEPT !.type = w.code]
  IN  [out |-> WriteAll(WriteHeader(out, h), w.chunks), header |-> h]

(* writer << message: the header first goes out with the size of the       *)
(* message before.                                                         *)
Written(m) ==
  LET w == WholeMessage(m.ver, dir, m.name, FieldsOf(m.ver, dir, m.name))
      h == [header EXCEPT !.type = w.code]
  IN  updateMessageSize(WriteAll(WriteHeader(out, h), w.chunks), 0, h)

(* buffer().clear() *)
Clear(s) == MoveTo(s, 0)

(* dump(writer << message) *)
Dump(opens) ==
  LET w    == Written(Head(todo))
      name == messageName(version, w.header.type)
      data == Slice(w.out, 0, w.out.pos)
  IN  /\ todo # << >>
      /\ files' = IF opens THEN [n \in {name} |-> data] @@ files ELSE files
      /\ failed' = IF opens THEN failed ELSE failed \cup {name}
      /\ out' = Clear(w.out)
      /\ header' = w.header
      /\ todo' = Tail(todo)
      /\ dumped' = dumped \cup {[ver |-> Head(todo).ver, dir |-> dir,
                                 name |-> Head(todo).name, file |-> name]}
      /\ UNCHANGED <<version, dir>>

DumpMessage == Dump(TRUE)

OpenFails == Cardinality(failed) < MaxFailures /\ Dump(FALSE)

(* dumpAllRequests is followed by dumpAllResponses, with a writer of its   *)
(* own over the same memory.                                               *)
StartResponses ==
  /\ dir = "Request"
  /\ todo = << >>
  /\ dir' = "Response"
  /\ todo' = dumpAllResponses(version)
  /\ out' = Clear(out)
  /\ header' = NewHeader(1)
  /\ UNCHANGED <<version, files, dumped, failed>>

Init ==
  /\ version \in CorpusVersions
  /\ dir = "Request"
  /\ todo = dumpAllRequests(version)
  /\ out = NewStream
  /\ header = NewHeader(1)
  /\ files = << >> /\ dumped = {} /\ failed = {}

Done == dir = "Response" /\ todo = << >>

Exit == Done /\ UNCHANGED vars

Next == DumpMessage \/ OpenFails \/ StartResponses \/ Exit

Spec == Init /\ [][Next]_vars

-----------------------------------------------------------------------------
(* Properties *)

(* Every message has a file of its own ("one file per message"): no two    *)
(* messages of a corpus share a name, in any version, and a file that      *)
(* cannot be opened costs only its own message.                            *)
OneFilePerMessage ==
  /\ Cardinality({m.file : m \in dumped}) = Cardinality(dumped)
  /\ DOMAIN files = {m.file : m \in dumped} \ failed

(* When it is done, the corpus has every message the parsers of the        *)
(* version support.                                                        *)
CorpusComplete ==
  Done /\ version \in Versions =>
    \A d \in Directions : \A code \in DOMAIN ParserTable[version][d] :
      messageName(version, code) \in DOMAIN files \cup failed

(* What a parser of the version makes of a file *)
Parse(m) ==
  LET bytes == files[m.file]
      head  == parseMessageHeader(bytes)
      p     == [ver |-> version, dir |-> m.dir, max |-> kMaxMessageSize]
  IN  IF head.err # "none" THEN Rejected(head.err)
      ELSE parseBody(p, head, SubSeq(bytes, headerSize + 1, Len(bytes)))

(* Every file of the corpus is a message of the chosen version, with the   *)
(* fields it was given, although all of them came from one writer, which   *)
(* takes the header of each message over to the next one.                  *)
Readable ==
  \A m \in dumped : m.file \notin failed =>
    Parse(m) = Accepted(m.name, FieldsOf(m.ver, m.dir, m.name))

CorpusReadable == Done /\ version \in Versions \ {"9P2000.L"} => Readable

(* The generator creates all supported messages, says docs/examples.md: so *)
(* each is a message that parsers of the version support.                  *)
AllVersionsReadable == Done /\ version \in Versions => Readable
=============================================================================
