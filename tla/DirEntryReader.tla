--------------------------- MODULE DirEntryReader ---------------------------
(***************************************************************************)
(* Reading the answers to ReadDir requests of 9P2000.L: DirEntryReader and *)
(* its Iterator, include/styxe/9p2000L.hpp and src/9p2000L.cpp, in the     *)
(* loop clients run over them (for (auto& entry : reader), as in           *)
(* 9pdecode.cpp).                                                          *)
(*                                                                         *)
(* Server and client are not part of the library.  The server puts the     *)
(* entries that follow the cookie of the request into a buffer with        *)
(* Encoder, as the tests and 9p-corpus.cpp do, and never learns that one   *)
(* did not fit.  The client asks again with the offset of the last entry   *)
(* it got (docs/9p2000.L.txt, readdir) and stops when there was none.  How *)
(* data travels is the matter of Exchange.                                 *)
(***************************************************************************)
EXTENDS Codec, FiniteSets

LOCAL INSTANCE SequencesExt

CONSTANTS
  Dirs,    \* directories: sequences of DirEntry values
  Rooms    \* [lim, count]: the capacity of the buffer a server puts
           \* entries into, and how much of it it sends at most

VARIABLES
  dir,     \* the directory
  pc,      \* "client", "reader" (an answer has come) or "loop"
  data,    \* Response::ReadDir::data of the last answer
  it,      \* the Iterator: _offset, the position of _reader, _value
  cookie,  \* client: the offset it asks with
  got,     \* client: entries received so far
  done,    \* client: has met an answer without entries
  whole,   \* history: entries of which data has every byte
  turn,    \* history: how many entries this answer has yielded
  short    \* history: an answer had no room for the next entry

vars == <<dir, pc, data, it, cookie, got, done, whole, turn, short>>

-----------------------------------------------------------------------------
(* DirEntry on the wire *)

DirEntryStruct == [qid |-> "qid", offset |-> "u64", type |-> "u8", name |-> "str"]
DirEntryEnc    == <<"qid", "offset", "type", "name">>
DirEntryDec    == <<"qid", "offset", "type", "name">>

DirEntryBytes(e) == EncodeAll(Leaves(DirEntryStruct, DirEntryEnc, EncNested), e)

SizeOf(e) == Len(FlattenSeq(DirEntryBytes(e)))

(* The offset of an entry: what a client resumes with.  No two entries of  *)
(* a directory share one, and 0 stands for the beginning.                  *)
CookieOf(e) == e[<<"offset">>]

ASSUME CookiesAssumption ==
  \A d \in Dirs : \A i \in DOMAIN d :
    CookieOf(d[i]) # 0 /\ \A j \in DOMAIN d : CookieOf(d[i]) = CookieOf(d[j]) => i = j

(* The entries that follow the one with this cookie *)
After(c) ==
  IF c = 0 THEN dir
  ELSE LET i == CHOOSE j \in DOMAIN dir : CookieOf(dir[j]) = c
       IN  SubSeq(dir, i + 1, Len(dir))

-----------------------------------------------------------------------------
(* The client asks for what follows cookie; the server fills a buffer of   *)
(* lim cells (entry after entry, also after one that did not fit) and      *)
(* sends what is written, at most count bytes of it.                       *)
Ask(lim, count) ==
  LET entries == After(cookie)
      blank   == [mem |-> [i \in 0..(lim - 1) |-> 0], pos |-> 0, lim |-> lim]
      written == WriteAll(blank, FlattenSeq([i \in DOMAIN entries |-> DirEntryBytes(entries[i])]))
      room    == IF count < lim THEN count ELSE lim
      sizeTo[i \in 0..Len(entries)] ==
        IF i = 0 THEN 0 ELSE sizeTo[i - 1] + SizeOf(entries[i])
  IN  /\ pc = "client"
      /\ ~done
      /\ data' = Slice(written, 0, IF written.pos < count THEN written.pos ELSE count)
      /\ whole' = Cardinality({i \in DOMAIN entries : sizeTo[i] <= room})
      /\ turn' = 0
      /\ short' = (short \/ (entries # << >> /\ whole' = 0))
      /\ pc' = "reader"
      /\ UNCHANGED <<dir, it, cookie, got, done>>

-----------------------------------------------------------------------------
(* Iterator *)

(* _value after a read that failed is never looked at. *)
NoEntry == << >>

(* Iterator::read, from position at *)
read(at) == DecodeAll(SubSeq(data, at + 1, Len(data)),
                      Leaves(DirEntryStruct, DirEntryDec, DecNested))

limit == Len(data)

(* A mistake: what could be decoded of a torn entry is passed on. *)
ReadTorn(from) ==
  LET r == read(from)
  IN  IF from < limit
      THEN [offset |-> from, position |-> IF r.ok THEN from + r.next ELSE limit,
            value |-> r.val]
      ELSE [offset |-> limit, position |-> limit, value |-> NoEntry]

(* The next entry, or, when none can be read, the end. *)
ReadOrEnd(from) ==
  LET r == read(from)
  IN  IF r.ok THEN [offset |-> from, position |-> from + r.next, value |-> r.val]
              ELSE [offset |-> limit, position |-> limit, value |-> NoEntry]

(* Iterator(buffer, offset) *)
Iterator(from) ==
  IF from < limit THEN ReadOrEnd(from)
  ELSE [offset |-> from, position |-> from, value |-> NoEntry]

begin == Iterator(0)
end   == Iterator(limit)

(* A mistake: iterators are compared by position only. *)
NotEqualByPosition(a, b) == a.position # b.position

NotEqual(a, b) == a.offset # b.offset \/ a.position # b.position

-----------------------------------------------------------------------------
(* The loop of a client: for (auto const& entry : reader) *)

BeginLoop ==
  /\ pc = "reader"
  /\ it' = begin
  /\ pc' = "loop"
  /\ UNCHANGED <<dir, data, cookie, got, done, whole, turn, short>>

(* The body of the loop and operator++ *)
Increment ==
  /\ pc = "loop"
  /\ NotEqual(it, end)
  /\ got' = Append(got, it.value)
  /\ turn' = turn + 1
  /\ it' = ReadOrEnd(it.position)
  /\ UNCHANGED <<dir, pc, data, cookie, done, whole, short>>

(* A mistake: the client takes an answer with data for one with entries. *)
EndLoopOnEmptyData ==
  /\ pc = "loop"
  /\ ~NotEqual(it, end)
  /\ cookie' = IF turn = 0 THEN cookie ELSE CookieOf(got[Len(got)])
  /\ done' = (data = << >>)
  /\ pc' = "client"
  /\ UNCHANGED <<dir, data, it, got, whole, turn, short>>

(* The loop is over: the client goes on from the last entry it got, and    *)
(* stops if there was none.                                                *)
EndLoop ==
  /\ pc = "loop"
  /\ ~NotEqual(it, end)
  /\ cookie' = IF turn = 0 THEN cookie ELSE CookieOf(got[Len(got)])
  /\ done' = (turn = 0)
  /\ pc' = "client"
  /\ UNCHANGED <<dir, data, it, got, whole, turn, short>>

Init ==
  /\ dir \in Dirs
  /\ pc = "client"
  /\ data = << >>
  /\ it = [offset |-> 0, position |-> 0, value |-> NoEntry]
  /\ cookie = 0 /\ got = << >> /\ done = FALSE
  /\ whole = 0 /\ turn = 0 /\ short = FALSE

(* The client has met the end of the directory. *)
Finished == pc = "client" /\ done /\ UNCHANGED vars

Next ==
  \/ \E r \in Rooms : Ask(r.lim, r.count)
  \/ BeginLoop
  \/ Increment
  \/ EndLoop
  \/ Finished

(* Client and server run their loops to the end: some step is taken until  *)
(* the client is done, and each one changes pc or turn (stated without the *)
(* data, as in DirReading).                                                *)
Moves ==
  /\ ~(pc = "client" /\ done)
  /\ pc' \in {"client", "reader", "loop"}
  /\ turn' \in 0..(turn + 1)

Spec == Init /\ [][Next]_vars /\ WF_<<pc, turn>>(Moves)

-----------------------------------------------------------------------------
(* Properties *)

(* An answer yields the entries it has every byte of, all of them and no   *)
(* others: a torn entry ends the iteration wherever it was torn, and       *)
(* although Encoder fills the room of a field it dropped with the smaller  *)
(* ones that follow, the reader never takes them for an entry.  Nor is the *)
(* last entry lost when it ends where the buffer ends.                     *)
WholeEntriesOnly ==
  pc = "loop" =>
    /\ turn <= whole
    /\ SubSeq(got, Len(got) - turn + 1, Len(got)) = SubSeq(After(cookie), 1, turn)
    /\ ~NotEqual(it, end) => turn = whole

(* Every loop over an answer comes to its end, and so does the client,     *)
(* even when answers hold torn entries only.                               *)
IterationEnds == <>done

(* The client is given the directory, as long as every answer has room for *)
(* an entry, wherever it ends in the next one.                             *)
Listing == INSTANCE DirectoryContents

ListsDirectory == Listing!Spec
=============================================================================
