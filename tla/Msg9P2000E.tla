----------------------------- MODULE Msg9P2000E -----------------------------
(***************************************************************************)
(* 9P2000.e: include/styxe/9p2000e.hpp and src/9p2000e.cpp.  Sessions, and *)
(* whole files read or written in one request.                             *)
(***************************************************************************)
EXTENDS Integers, Msg9P2000

(* enum class _9P2000E::MessageType *)
MessageTypeE ==
  [ TSession    |-> 150, RSession    |-> 151, TShortRead |-> 152,
    RShortRead  |-> 153, TShortWrite |-> 154, RShortWrite |-> 155 ]

(* The eight bytes of the session key, written and read one by one *)
SessionKey == <<"key0", "key1", "key2", "key3", "key4", "key5", "key6", "key7">>

RequestStructE ==
  [ Session    |-> [k \in {SessionKey[i] : i \in 1..8} |-> "u8"],
    ShortRead  |-> [fid |-> "u32", path |-> "path"],
    ShortWrite |-> [fid |-> "u32", path |-> "path", data |-> "data"] ] @@ RequestStruct9P

RequestEncE ==
  [ Session    |-> SessionKey,
    ShortRead  |-> <<"fid", "path">>,
    ShortWrite |-> <<"fid", "path", "data">> ] @@ RequestEnc9P

RequestDecE ==
  [ Session    |-> SessionKey,
    ShortRead  |-> <<"fid", "path">>,
    ShortWrite |-> <<"fid", "path", "data">> ] @@ RequestDec9P

RequestCodeE ==
  [ Session    |-> MessageTypeE.TSession, ShortRead |-> MessageTypeE.TShortRead,
    ShortWrite |-> MessageTypeE.TShortWrite ] @@ RequestCode9P

ResponseStructE ==
  [ Session    |-> << >>,
    ShortRead  |-> [data |-> "data"],
    ShortWrite |-> [count |-> "u32"] ] @@ ResponseStruct9P

ResponseEncE ==
  [ Session |-> << >>, ShortRead |-> <<"data">>, ShortWrite |-> <<"count">> ] @@ ResponseEnc9P

ResponseDecE ==
  [ Session |-> << >>, ShortRead |-> <<"data">>, ShortWrite |-> <<"count">> ] @@ ResponseDec9P

ResponseCodeE ==
  [ Session    |-> MessageTypeE.RSession, ShortRead |-> MessageTypeE.RShortRead,
    ShortWrite |-> MessageTypeE.RShortWrite ] @@ ResponseCode9P

RequestPartialE ==
  [ ShortRead  |-> [fields |-> <<"fid">>, part |-> "path"],
    ShortWrite |-> [fields |-> <<"fid">>, part |-> "pathdata"] ] @@ RequestPartial9P

(* _9P2000E::getRequestParserTable and getResponseParserTable *)
RequestTableE ==
  LET T == MessageTypeE
  IN  T.TSession :> "Session" @@ T.TShortRead :> "ShortRead"
      @@ T.TShortWrite :> "ShortWrite" @@ RequestTable9P

ResponseTableE ==
  LET T == MessageTypeE
  IN  T.RSession :> "Session" @@ T.RShortRead :> "ShortRead"
      @@ T.RShortWrite :> "ShortWrite" @@ ResponseTable9P
=============================================================================
