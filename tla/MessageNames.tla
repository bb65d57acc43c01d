---------------------------- MODULE MessageNames ----------------------------
(***************************************************************************)
(* The names of message types: messageTypeToString of the four versions    *)
(* and ParserBase::messageName.  Every enumerator is given the name it has *)
(* in the code; an extension leaves the types it does not add to 9P2000.   *)
(***************************************************************************)
EXTENDS Msg9P2000E, Msg9P2000L

NameIn(types, code, otherwise) ==
  IF \E n \in DOMAIN types : types[n] = code
  THEN CHOOSE n \in DOMAIN types : types[n] = code
  ELSE otherwise

messageTypeToString(code)  == NameIn(MessageType9P, code, "Unsupported")
messageTypeToStringU(code) == messageTypeToString(code)
messageTypeToStringE(code) == NameIn(MessageTypeE, code, messageTypeToString(code))
messageTypeToStringL(code) == NameIn(MessageTypeL, code, messageTypeToString(code))

(* A mistake: an extension is left with the names of 9P2000. *)
messageNameBase(ver, code) == messageTypeToString(code)

(* ParserBase::messageName, with the mapper of the version the parser was  *)
(* created for; 9p-corpus.cpp falls back to the mapper of 9P2000.          *)
messageName(ver, code) ==
  CASE ver = "9P2000.u" -> messageTypeToStringU(code)
    [] ver = "9P2000.e" -> messageTypeToStringE(code)
    [] ver = "9P2000.L" -> messageTypeToStringL(code)
    [] OTHER            -> messageTypeToString(code)
=============================================================================
