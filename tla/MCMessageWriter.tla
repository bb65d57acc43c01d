-------------------------- MODULE MCMessageWriter --------------------------
(* An instance of MessageWriter for TLC: one message for each way of       *)
(* completing one, short strings, and buffers from one that holds no       *)
(* header at all to one in which two messages fit.                         *)
EXTENDS MessageWriter

MCMessages ==
  { [code |-> 121, part |-> "whole",    chunks |-> <<>>],                     \* RClunk
    [code |-> 112, part |-> "whole",    chunks |-> <<U32Bytes(3), <<1>>>>],   \* TOpen
    [code |-> 110, part |-> "path",     chunks |-> <<U32Bytes(1)>>],
    [code |-> 154, part |-> "pathdata", chunks |-> <<U32Bytes(2)>>],
    [code |-> 117, part |-> "data",     chunks |-> <<>>],
    [code |-> 107, part |-> "string",   chunks |-> <<>>] }

MCPieces == {<<>>, <<7>>, <<8, 9, 7>>}
MCLimits == {0, 2, 5, 6, 7, 9, 10, 11, 12, 13, 15, 17, 20, 30, 40}
=============================================================================
