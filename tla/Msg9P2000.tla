----------------------------- MODULE Msg9P2000 -----------------------------
(***************************************************************************)
(* The messages of 9P2000: include/styxe/9p2000.hpp, src/9p2000.cpp and    *)
(* src/9p2000_writer.cpp.                                                  *)
(*                                                                         *)
(* A message is named as its struct.  For each one there is: the type of   *)
(* every field (the struct), the fields in the order the writer puts them  *)
(* on the wire (operator<<), the fields in the order the parser takes them *)
(* off (operator>>), and the type code the writer uses (messageCodeOf).    *)
(* The four are independent pieces of code that have to agree.             *)
(*                                                                         *)
(* Field types: u8, u16, u32, u64; str and data, bytes counted by a uint16 *)
(* or a uint32; path, strings counted by a uint16; qids, qids counted by a *)
(* uint16; and the structs qid, stat and statx.                            *)
(***************************************************************************)
EXTENDS Sequences, TLC

(* enum class MessageType *)
MessageType9P ==
  [ TVersion |-> 100, RVersion |-> 101, TAuth   |-> 102, RAuth   |-> 103,
    TAttach  |-> 104, RAttach  |-> 105, TError  |-> 106, RError  |-> 107,
    TFlush   |-> 108, RFlush   |-> 109, TWalk   |-> 110, RWalk   |-> 111,
    TOpen    |-> 112, ROpen    |-> 113, TCreate |-> 114, RCreate |-> 115,
    TRead    |-> 116, RRead    |-> 117, TWrite  |-> 118, RWrite  |-> 119,
    TClunk   |-> 120, RClunk   |-> 121, TRemove |-> 122, RRemove |-> 123,
    TStat    |-> 124, RStat    |-> 125, TWStat  |-> 126, RWStat  |-> 127 ]

-----------------------------------------------------------------------------
(* struct Qid and struct Stat, Encoder << and Decoder >> *)

QidStruct == [path |-> "u64", version |-> "u32", type |-> "u8"]
QidEnc    == <<"type", "version", "path">>
QidDec    == <<"type", "version", "path">>

StatStruct ==
  [ size  |-> "u16", type  |-> "u16", dev   |-> "u32", qid    |-> "qid",
    mode  |-> "u32", atime |-> "u32", mtime |-> "u32", length |-> "u64",
    name  |-> "str", uid   |-> "str", gid   |-> "str", muid   |-> "str" ]
StatEnc == <<"size", "type", "dev", "qid", "mode", "atime", "mtime", "length",
             "name", "uid", "gid", "muid">>
StatDec == <<"size", "type", "dev", "qid", "mode", "atime", "mtime", "length",
             "name", "uid", "gid", "muid">>

-----------------------------------------------------------------------------
(* struct Request *)
RequestStruct9P ==
  [ Version |-> [msize |-> "u32", version |-> "str"],
    Auth    |-> [afid |-> "u32", uname |-> "str", aname |-> "str"],
    Attach  |-> [fid |-> "u32", afid |-> "u32", uname |-> "str", aname |-> "str"],
    Flush   |-> [oldtag |-> "u16"],
    Walk    |-> [fid |-> "u32", newfid |-> "u32", path |-> "path"],
    Open    |-> [fid |-> "u32", mode |-> "u8"],
    Create  |-> [fid |-> "u32", name |-> "str", perm |-> "u32", mode |-> "u8"],
    Read    |-> [fid |-> "u32", offset |-> "u64", count |-> "u32"],
    Write   |-> [fid |-> "u32", offset |-> "u64", data |-> "data"],
    Clunk   |-> [fid |-> "u32"],
    Remove  |-> [fid |-> "u32"],
    Stat    |-> [fid |-> "u32"],
    WStat   |-> [fid |-> "u32", stat |-> "stat"] ]

(* RequestWriter& operator<< *)
RequestEnc9P ==
  [ Version |-> <<"msize", "version">>,
    Auth    |-> <<"afid", "uname", "aname">>,
    Flush   |-> <<"oldtag">>,
    Attach  |-> <<"fid", "afid", "uname", "aname">>,
    Walk    |-> <<"fid", "newfid", "path">>,
    Open    |-> <<"fid", "mode">>,
    Create  |-> <<"fid", "name", "perm", "mode">>,
    Read    |-> <<"fid", "offset", "count">>,
    Write   |-> <<"fid", "offset", "data">>,
    Clunk   |-> <<"fid">>,
    Remove  |-> <<"fid">>,
    Stat    |-> <<"fid">>,
    WStat   |-> <<"fid", "stat">> ]

(* ByteReader& operator>> (ByteReader&, Request::...) *)
RequestDec9P ==
  [ Version |-> <<"msize", "version">>,
    Auth    |-> <<"afid", "uname", "aname">>,
    Attach  |-> <<"fid", "afid", "uname", "aname">>,
    Flush   |-> <<"oldtag">>,
    Walk    |-> <<"fid", "newfid", "path">>,
    Open    |-> <<"fid", "mode">>,
    Create  |-> <<"fid", "name", "perm", "mode">>,
    Read    |-> <<"fid", "offset", "count">>,
    Write   |-> <<"fid", "offset", "data">>,
    Clunk   |-> <<"fid">>,
    Remove  |-> <<"fid">>,
    Stat    |-> <<"fid">>,
    WStat   |-> <<"fid", "stat">> ]

(* messageCodeOf<Request::...> *)
RequestCode9P ==
  [ Version |-> MessageType9P.TVersion, Auth   |-> MessageType9P.TAuth,
    Flush   |-> MessageType9P.TFlush,   Attach |-> MessageType9P.TAttach,
    Walk    |-> MessageType9P.TWalk,    Open   |-> MessageType9P.TOpen,
    Create  |-> MessageType9P.TCreate,  Read   |-> MessageType9P.TRead,
    Write   |-> MessageType9P.TWrite,   Clunk  |-> MessageType9P.TClunk,
    Remove  |-> MessageType9P.TRemove,  Stat   |-> MessageType9P.TStat,
    WStat   |-> MessageType9P.TWStat ]

-----------------------------------------------------------------------------
(* struct Response *)
ResponseStruct9P ==
  [ Version |-> [msize |-> "u32", version |-> "str"],
    Auth    |-> [qid |-> "qid"],
    Attach  |-> [qid |-> "qid"],
    Error   |-> [ename |-> "str"],
    Flush   |-> << >>,
    Walk    |-> [qids |-> "qids"],
    Open    |-> [qid |-> "qid", iounit |-> "u32"],
    Create  |-> [qid |-> "qid", iounit |-> "u32"],
    Read    |-> [data |-> "data"],
    Write   |-> [count |-> "u32"],
    Clunk   |-> << >>,
    Remove  |-> << >>,
    Stat    |-> [dummySize |-> "u16", data |-> "stat"],
    WStat   |-> << >> ]

(* ResponseWriter& operator<< *)
ResponseEnc9P ==
  [ Version |-> <<"msize", "version">>,
    Auth    |-> <<"qid">>,
    Error   |-> <<"ename">>,
    Flush   |-> << >>,
    Attach  |-> <<"qid">>,
    Walk    |-> <<"qids">>,
    Open    |-> <<"qid", "iounit">>,
    Create  |-> <<"qid", "iounit">>,
    Read    |-> <<"data">>,
    Write   |-> <<"count">>,
    Clunk   |-> << >>,
    Remove  |-> << >>,
    Stat    |-> <<"dummySize", "data">>,
    WStat   |-> << >> ]

(* ByteReader& operator>> (ByteReader&, Response::...) *)
ResponseDec9P ==
  [ Walk    |-> <<"qids">>,
    Version |-> <<"msize", "version">>,
    Auth    |-> <<"qid">>,
    Attach  |-> <<"qid">>,
    Error   |-> <<"ename">>,
    Open    |-> <<"qid", "iounit">>,
    Create  |-> <<"qid", "iounit">>,
    Read    |-> <<"data">>,
    Write   |-> <<"count">>,
    Stat    |-> <<"dummySize", "data">>,
    Clunk   |-> << >>,
    Remove  |-> << >>,
    Flush   |-> << >>,
    WStat   |-> << >> ]

(* messageCodeOf<Response::...> *)
ResponseCode9P ==
  [ Version |-> MessageType9P.RVersion, Auth   |-> MessageType9P.RAuth,
    Attach  |-> MessageType9P.RAttach,  Error  |-> MessageType9P.RError,
    Flush   |-> MessageType9P.RFlush,   Walk   |-> MessageType9P.RWalk,
    Open    |-> MessageType9P.ROpen,    Create |-> MessageType9P.RCreate,
    Read    |-> MessageType9P.RRead,    Write  |-> MessageType9P.RWrite,
    Clunk   |-> MessageType9P.RClunk,   Remove |-> MessageType9P.RRemove,
    Stat    |-> MessageType9P.RStat,    WStat  |-> MessageType9P.RWStat ]

-----------------------------------------------------------------------------
(* The partial messages: the fields written before the partial writer is   *)
(* constructed, and the writer that completes the message.                 *)
RequestPartial9P ==
  [ Walk  |-> [fields |-> <<"fid", "newfid">>, part |-> "path"],
    Write |-> [fields |-> <<"fid", "offset">>, part |-> "data"] ]

ResponsePartial9P ==
  [ Read  |-> [fields |-> << >>, part |-> "data"],
    Error |-> [fields |-> << >>, part |-> "string"] ]

-----------------------------------------------------------------------------
(* getRequestParserTable and getResponseParserTable: which struct a parser *)
(* reads for a type code.  Every other code is an unsupported message.     *)
RequestTable9P ==
  LET T == MessageType9P
  IN  T.TVersion :> "Version" @@ T.TAuth :> "Auth" @@ T.TAttach :> "Attach"
      @@ T.TFlush :> "Flush" @@ T.TWalk :> "Walk" @@ T.TOpen :> "Open"
      @@ T.TCreate :> "Create" @@ T.TRead :> "Read" @@ T.TWrite :> "Write"
      @@ T.TClunk :> "Clunk" @@ T.TRemove :> "Remove" @@ T.TStat :> "Stat"
      @@ T.TWStat :> "WStat"

ResponseTable9P ==
  LET T == MessageType9P
  IN  T.RVersion :> "Version" @@ T.RAuth :> "Auth" @@ T.RAttach :> "Attach"
      @@ T.RError :> "Error" @@ T.RFlush :> "Flush" @@ T.RWalk :> "Walk"
      @@ T.ROpen :> "Open" @@ T.RCreate :> "Create" @@ T.RRead :> "Read"
      @@ T.RWrite :> "Write" @@ T.RClunk :> "Clunk" @@ T.RRemove :> "Remove"
      @@ T.RStat :> "Stat" @@ T.RWStat :> "WStat"
=============================================================================
