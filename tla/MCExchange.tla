----------------------------- MODULE MCExchange -----------------------------
(* An instance of Exchange for TLC: every message of every version, with   *)
(* values that tell its fields apart.                                      *)
EXTENDS Exchange, SampleValues

(* A walk as long as it can be: struct Response::Walk holds 16 qids. *)
LongWalk == WholeMessage("9P2000", "Response", "Walk",
                         <<"qids">> :> [i \in 1..16 |-> [type |-> i, version |-> 2 * i, path |-> 90 + i]])

MCMessages ==
  {LongWalk} \cup
  UNION {{WholeMessage(v, d, n, MessageValue(v, d, n, x)) :
            n \in DOMAIN EncOrder[v][d], x \in {0, 1}} : v \in Versions, d \in Directions}
  \cup
  UNION {{PartialMessage(v, d, n, MessageValue(v, d, n, 1)) : n \in DOMAIN Partial[v][d]} :
            v \in Versions, d \in Directions}

(* Two of the long ones are more than a uint16 counts here. *)
MCPieces == {<<>>, <<51, 52, 53>>, [i \in 1..34 |-> 60 + i]}

(* Buffers in which no header fits, in which parts of a message do not     *)
(* fit, one a byte too small for LongWalk, and one in which all fit.       *)
MCLimits == {3, 6, 7, 8, 10, 12, 13, 16, 19, 24, 31, 48, 70, 216, 240}

MCReceivers ==
  [ver : Versions \cup {"9P1999"}, dir : Directions, max : {240}, slip : {0}]
  \cup [ver : {"9P2000.L"}, dir : Directions, max : {240}, slip : {-1, 1}]
  \cup [ver : {"9P2000.L"}, dir : Directions, max : {4, 16, 4090}, slip : {0}]

MCListeners == [max : {11, 240}, slip : {0}]
=============================================================================
