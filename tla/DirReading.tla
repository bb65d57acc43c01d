----------------------------- MODULE DirReading -----------------------------
(***************************************************************************)
(* A client lists a directory: DirListingWriter with the bytes it writes,  *)
(* the server's loop around it (the example in the comment of              *)
(* DirListingWriter in include/styxe/9p2000.hpp) and a client that asks    *)
(* for the next part until it gets an empty answer.  The client is not     *)
(* part of the library: it adds the bytes it received to its offset, as    *)
(* the protocol asks, and reads the answer with ResponseParser and         *)
(* Decoder >> Stat.                                                        *)
(***************************************************************************)
EXTENDS DirListing, MessageFrame, MessageParser

CONSTANTS
  Dirs,    \* directories: sequences of Stat values
  Limits   \* capacities of the buffers a server answers with

VARIABLES
  dir,           \* the directory
  out,           \* the ByteWriter behind the ResponseWriter of this answer
  header,        \* MessageWriterBase::_header
  dataPosition,  \* DirListingWriter::_dataPosition
  pc,            \* who moves next: "client", "server" or "parser"
  clientOffset,  \* client: bytes received so far
  got,           \* client: entries received so far
  eof,           \* client: has met an empty answer
  tight          \* history: a buffer or a count was too small

wireVars == <<dir, out, header, dataPosition, pc, clientOffset, got, eof, tight>>

dirVars == <<offset, maxBytes, traversed, encoded, more, seen, size, taken,
             dir, out, header, dataPosition, pc, clientOffset, got, eof, tight>>

-----------------------------------------------------------------------------
(* protocolSize(Stat): what a server has to count without encoding *)
protocolSizeString(v) == 2 + Len(v)
protocolSizeQid       == 1 + 4 + 8

(* A mistake: the last string is forgotten. *)
protocolSizeShort(stat) ==
  2 + 2 + 4 + protocolSizeQid + 4 + 4 + 4 + 8
  + protocolSizeString(stat[<<"name">>]) + protocolSizeString(stat[<<"uid">>])
  + protocolSizeString(stat[<<"gid">>])

protocolSize(stat) ==
  2 + 2 + 4 + protocolSizeQid + 4 + 4 + 4 + 8
  + protocolSizeString(stat[<<"name">>]) + protocolSizeString(stat[<<"uid">>])
  + protocolSizeString(stat[<<"gid">>]) + protocolSizeString(stat[<<"muid">>])

(* sizeStat: the value a server stores in Stat::size *)
sizeStat(stat) == (protocolSize(stat) - 2) % U16Range

StatFields(nested) == StatLeaves(<< >>, "stat", nested)

(* Encoder << Stat *)
WriteStat(s, stat) == WriteAll(s, EncodeAll(StatFields(EncNested), stat))

RRead == MessageType9P.RRead
Tag   == 1

(* A Stat is written and read field by field, in one order; a Read         *)
(* response, which the parsers of 9P2000 know by its code, is its data.    *)
(* Nothing here depends on a constant: evaluating it once is all there is  *)
(* to show.                                                                *)
ASSUME StatAgrees ==
  /\ StatFields(EncNested) =
       Leaf(<<"size">>, "u16") \o Leaf(<<"type">>, "u16") \o Leaf(<<"dev">>, "u32")
       \o Leaf(<<"qid", "type">>, "u8") \o Leaf(<<"qid", "version">>, "u32")
       \o Leaf(<<"qid", "path">>, "u64") \o Leaf(<<"mode">>, "u32")
       \o Leaf(<<"atime">>, "u32") \o Leaf(<<"mtime">>, "u32") \o Leaf(<<"length">>, "u64")
       \o Leaf(<<"name">>, "str") \o Leaf(<<"uid">>, "str")
       \o Leaf(<<"gid">>, "str") \o Leaf(<<"muid">>, "str")
  /\ StatFields(DecNested) = StatFields(EncNested)
  /\ DecLeaves["9P2000"]["Response"]["Read"] = Leaf(<<"data">>, "data")
  /\ RRead \in Nat
  /\ RRead \in DOMAIN ParserTable["9P2000"]["Response"]
  /\ ParserTable["9P2000"]["Response"][RRead] = "Read"

(* A Stat has a value of its type for every field, and no other fields. *)
IsStat(stat) ==
  LET leaves == StatFields(EncNested)
  IN  /\ HasValues(leaves, stat)
      /\ stat = [k \in {leaves[i].key : i \in DOMAIN leaves} |-> stat[k]]

ASSUME DirsAssumption ==
  \A d \in Dirs : /\ d \in Seq({d[i] : i \in DOMAIN d})
                  /\ \A i \in DOMAIN d : IsStat(d[i])

(* The limit of a client that takes messages as large as the buffers of    *)
(* its server, and a header more, is a uint32.                             *)
ASSUME BuffersAssumption ==
  \A lim \in Limits : lim \in Nat /\ headerSize + lim < U32Range

-----------------------------------------------------------------------------
(* The DirListingWriter constructor over an empty buffer of lim cells: a   *)
(* Read response without data.                                             *)
StartAnswer(lim) ==
  LET blank  == [mem |-> [i \in 0..(lim - 1) |-> 0], pos |-> 0, lim |-> lim]
      h      == [messageSize |-> headerSize, type |-> RRead, tag |-> Tag]
      headed == WriteHeader(blank, h)
      u      == updateMessageSize(Write(headed, U32Bytes(0)), 0, h)
  IN  /\ out' = u.out
      /\ header' = u.header
      /\ dataPosition' = headed.pos

(* updateDataSize: s is the stream behind the last entry *)
updateDataSize(s) ==
  LET u == updateMessageSize(Patch(s, dataPosition, U32Bytes(s.pos - dataPosition - 4)),
                             0, header)
  IN  out' = u.out /\ header' = u.header

Biggest(d) == {0} \cup {protocolSize(d[i]) : i \in DOMAIN d}

(* The client asks for the next part of the directory; the server sets up  *)
(* its answer.                                                             *)
Ask(count, lim) ==
  /\ pc = "client"
  /\ ~eof
  /\ NewListing(count, clientOffset)
  /\ StartAnswer(lim)
  /\ pc' = "server"
  /\ tight' = (tight \/ lim < headerSize + 4 + count \/ \E n \in Biggest(dir) : n > count)
  /\ UNCHANGED <<dir, clientOffset, got, eof>>

(* The server gives encode the next entry of the directory, whatever       *)
(* encode returned before.                                                 *)
encode ==
  LET stat == dir[seen + 1]
      n    == protocolSize(stat)
  IN  /\ pc = "server"
      /\ seen < Len(dir)
      /\ \/ (Skip(n) \/ Refuse(n)) /\ UNCHANGED <<out, header>>
         \/ Put(n) /\ updateDataSize(WriteStat(out, stat))
      /\ UNCHANGED <<dir, dataPosition, pc, clientOffset, got, eof, tight>>

(* encode returned false, or there are no more entries: the answer is sent. *)
Send ==
  /\ pc = "server"
  /\ ~more \/ seen = Len(dir)
  /\ pc' = "parser"
  /\ UNCHANGED <<listingVars, dir, out, header, dataPosition, clientOffset, got, eof, tight>>

-----------------------------------------------------------------------------
(* The client reads the answer. *)

Client == [ver |-> "9P2000", dir |-> "Response", max |-> out.lim]

Answer ==
  LET bytes == Slice(out, 0, out.pos)
      head  == parseMessageHeader(bytes)
  IN  IF head.err # "none" THEN Rejected(head.err)
      ELSE parseBody(Client, head, SubSeq(bytes, headerSize + 1, Len(bytes)))

(* The stats in data, one behind the other, up to the first that is cut. *)
StatsIn(data) ==
  LET leaves == StatFields(DecNested)
      upTo[i \in 0..Len(dir)] ==
        IF i = 0 THEN [at |-> 0, stats |-> << >>]
        ELSE LET r == upTo[i - 1]
                 x == DecodeAll(SubSeq(data, r.at + 1, Len(data)), leaves)
             IN  IF x.ok THEN [at |-> r.at + x.next, stats |-> Append(r.stats, x.val)]
                         ELSE r
  IN  upTo[Len(dir)].stats

(* A mistake: an answer that cannot be read is asked for again. *)
ReceiveRetrying ==
  LET data == IF Answer.err = "none" THEN Answer.val[<<"data">>] ELSE << >>
  IN  /\ pc = "parser"
      /\ clientOffset' = clientOffset + Len(data)
      /\ got' = got \o StatsIn(data)
      /\ eof' = (Answer.err = "none" /\ data = << >>)
      /\ pc' = "client"
      /\ UNCHANGED <<listingVars, dir, out, header, dataPosition, tight>>

(* The client takes the entries and moves its offset; an empty answer, or  *)
(* one it cannot read, is the end.                                         *)
Receive ==
  LET data == IF Answer.err = "none" THEN Answer.val[<<"data">>] ELSE << >>
  IN  /\ pc = "parser"
      /\ clientOffset' = clientOffset + Len(data)
      /\ got' = got \o StatsIn(data)
      /\ eof' = (data = << >>)
      /\ pc' = "client"
      /\ UNCHANGED <<listingVars, dir, out, header, dataPosition, tight>>

DInit ==
  /\ dir \in Dirs
  /\ LInit
  /\ out = [mem |-> << >>, pos |-> 0, lim |-> 0]
  /\ header = NewHeader(Tag)
  /\ dataPosition = 0
  /\ pc = "client"
  /\ clientOffset = 0 /\ got = << >> /\ eof = FALSE /\ tight = FALSE

(* The client has met the end of the directory. *)
Finished == pc = "client" /\ eof /\ UNCHANGED dirVars

DNext ==
  \/ \E c \in Counts, lim \in Limits : Ask(c, lim)
  \/ encode
  \/ Send
  \/ Receive
  \/ Finished

(* The server's loop and the client's loop run to their ends: until the    *)
(* client has met the end some step is taken, and each of the four changes *)
(* pc or seen.  (Stated without the data of the steps, which ENABLED does  *)
(* not depend on; that one of them is always possible is what the absence  *)
(* of deadlock shows.)                                                     *)
Moves ==
  /\ ~(pc = "client" /\ eof)
  /\ pc' \in {"client", "server", "parser"}
  /\ seen' \in 0..Len(dir)

DSpec == DInit /\ [][DNext]_dirVars /\ WF_<<pc, seen>>(Moves)

-----------------------------------------------------------------------------
(* Properties *)

(* The data field of the answer is made of exactly the bytes of the        *)
(* entries put in it: protocolSize predicts what Encoder << Stat writes,   *)
(* and the two sizes in the message are patched accordingly.               *)
AnswerHoldsListing ==
  pc \in {"server", "parser"} /\ ~tight =>
    /\ Answer.err = "none"
    /\ Len(Answer.val[<<"data">>]) = size

(* Answer after answer, the client collects the entries of the directory   *)
(* from the first one on, each of them once, none of them torn: the next   *)
(* offset always meets the boundary at which the last answer stopped.      *)
EachEntryOnce ==
  ~tight => /\ Len(got) <= Len(dir)
            /\ got = SubSeq(dir, 1, Len(got))

(* An empty answer means the end of the directory. *)
EmptyAnswerIsEnd == eof /\ ~tight => got = dir

(* The client comes to an end, even when buffers or counts are too small   *)
(* for the entries.                                                        *)
ListingEnds == <>eof

(* bytesEncoded() is the number of bytes in the answer, as the comment of  *)
(* _bytesEncoded says and the test of DirListingWriter asserts.            *)
BytesEncodedIsDataSize ==
  pc = "parser" /\ ~tight => encoded = Len(Answer.val[<<"data">>])

(* The client is given the directory, as long as buffers and counts have   *)
(* room for an entry.                                                      *)
Listing == INSTANCE DirectoryContents WITH done <- eof, short <- tight

ListsDirectory == Listing!Spec
=============================================================================
