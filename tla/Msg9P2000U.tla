----------------------------- MODULE Msg9P2000U -----------------------------
(***************************************************************************)
(* 9P2000.u: include/styxe/9p2000u.hpp and src/9p2000u.cpp.  Six messages  *)
(* of 9P2000 get more fields; the parser reads the old ones with the       *)
(* decoder of the base struct.  Everything else is 9P2000.                 *)
(***************************************************************************)
EXTENDS Msg9P2000

(* struct StatEx : Stat, Encoder << and Decoder >> *)
StatExStruct == [extension |-> "str", n_uid |-> "u32", n_gid |-> "u32", n_muid |-> "u32"]
                @@ StatStruct
StatExEnc == StatEnc \o <<"extension", "n_uid", "n_gid", "n_muid">>
StatExDec == StatDec \o <<"extension", "n_uid", "n_gid", "n_muid">>

RequestStructU ==
  [ Auth   |-> [n_uname |-> "u32"] @@ RequestStruct9P.Auth,
    Attach |-> [n_uname |-> "u32"] @@ RequestStruct9P.Attach,
    Create |-> [extension |-> "str"] @@ RequestStruct9P.Create,
    WStat  |-> [fid |-> "u32", stat |-> "statx"] ] @@ RequestStruct9P

RequestEncU ==
  [ Auth   |-> <<"afid", "uname", "aname", "n_uname">>,
    Attach |-> <<"fid", "afid", "uname", "aname", "n_uname">>,
    Create |-> <<"fid", "name", "perm", "mode", "extension">>,
    WStat  |-> <<"fid", "stat">> ] @@ RequestEnc9P

RequestDecU ==
  [ Auth   |-> RequestDec9P.Auth \o <<"n_uname">>,
    Attach |-> RequestDec9P.Attach \o <<"n_uname">>,
    Create |-> RequestDec9P.Create \o <<"extension">>,
    WStat  |-> <<"fid", "stat">> ] @@ RequestDec9P

(* messageCodeOf<_9P2000U::Request::...> *)
RequestCodeU ==
  [ Auth   |-> MessageType9P.TAuth,   Attach |-> MessageType9P.TAttach,
    Create |-> MessageType9P.TCreate, WStat  |-> MessageType9P.TWStat ] @@ RequestCode9P

ResponseStructU ==
  [ Error |-> [errcode |-> "u32"] @@ ResponseStruct9P.Error,
    Stat  |-> [dummySize |-> "u16", data |-> "statx"] ] @@ ResponseStruct9P

ResponseEncU ==
  [ Error |-> <<"ename", "errcode">>, Stat |-> <<"dummySize", "data">> ] @@ ResponseEnc9P

ResponseDecU ==
  [ Error |-> ResponseDec9P.Error \o <<"errcode">>,
    Stat  |-> <<"dummySize", "data">> ] @@ ResponseDec9P

(* messageCodeOf<_9P2000U::Response::...> *)
ResponseCodeU ==
  [ Stat |-> MessageType9P.RStat, Error |-> MessageType9P.RError ] @@ ResponseCode9P

(* Of the partial responses only Read is a message of this version: Error  *)
(* would lack its errcode.                                                 *)
ResponsePartialU == [Read |-> ResponsePartial9P.Read]

(* _9P2000U::getRequestParserTable and getResponseParserTable: the struct  *)
(* a code is read into is the one of _9P2000U where there is one.          *)
RequestTableU ==
  LET T == MessageType9P
  IN  T.TAuth :> "Auth" @@ T.TAttach :> "Attach" @@ T.TCreate :> "Create"
      @@ T.TWStat :> "WStat" @@ RequestTable9P

ResponseTableU ==
  LET T == MessageType9P
  IN  T.RError :> "Error" @@ T.RStat :> "Stat" @@ ResponseTable9P
=============================================================================
